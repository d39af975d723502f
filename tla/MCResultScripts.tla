--------------------------- MODULE MCResultScripts ---------------------------
(* The scripts with times and sizes of one and two digits, for TLC: there may be
   two equal lines of a flow, two of one time and different sizes, and times at,
   before and after the end of a window. *)
EXTENDS ResultScripts

\* Of two times the one with the lesser first digit comes first as text; 1 is
\* before 10, and 11 before 2.
DecimalRank(n) == IF n >= 10 THEN 10 * n + 1 ELSE 100 * n

MCEntries ==
    {[time |-> t, size |-> 5, copy |-> 1] : t \in {1, 2, 8, 9, 10}}
        \cup {[time |-> 8, size |-> 5, copy |-> 2], [time |-> 10, size |-> 12, copy |-> 1]}

=============================================================================
