---------------------------- MODULE EllipseInput ----------------------------
(***************************************************************************)
(* generate-ellipseinput.py of the evaluation suite: one pass over the     *)
(* samples of the queue delay, which pairs the mean delay of an interval   *)
(* of 0.1 s with the mean throughput of the lines that belong to it.       *)
(*                                                                         *)
(* A line of a file is the number of the interval of its time.  A mean is  *)
(* the set of the lines that enter it.                                     *)
(***************************************************************************)
EXTENDS Integers, Sequences, FiniteSets

CONSTANTS MaxSamples, MaxThroughput,    \* bounds on the lines of the two files
          LastInterval                  \* bound on the times

VARIABLES
    qdelay, throughput,     \* the lines of the two files
    next,                   \* the next sample
    last_time_interval,
    qdelay_ans,             \* the samples added up so far; qdelay_count is their number
    throughput_index,       \* the next line of throughput
    rows,                   \* the lines of the result file
    closed                  \* the result file is closed

fileVars == <<qdelay, throughput>>
vars == <<fileVars, next, last_time_interval, qdelay_ans, throughput_index, rows, closed>>

\* The lines of a trace file are in the order of their times.
Trace(max) ==
    {s \in UNION {[1 .. n -> 0 .. LastInterval] : n \in 0 .. max} :
        \A i, j \in DOMAIN s : i < j => s[i] <= s[j]}

Init ==
    /\ qdelay \in Trace(MaxSamples)
    /\ throughput \in Trace(MaxThroughput)
    /\ next = 1 /\ throughput_index = 1
    /\ last_time_interval = 0
    /\ qdelay_ans = {}
    /\ rows = <<>>
    /\ closed = FALSE

-----------------------------------------------------------------------------

Sample(interval) ==
    /\ next <= Len(qdelay)
    /\ interval = qdelay[next]
    /\ next' = next + 1
    /\ last_time_interval' = interval

\* Mutant of TakesUpTo: the lines of the new interval are taken as well.
TakesUpToInclusive(i, interval) == throughput[i] <= interval

TakesUpTo(i, interval) == throughput[i] < interval

\* A row from the samples and from the lines of throughput that the loop takes
\* before it stops at line end.
WriteRow(end) ==
    /\ rows' = Append(rows, [samples |-> qdelay_ans, lines |-> throughput_index .. end - 1])
    /\ throughput_index' = end
    /\ qdelay_ans' = {}

\* The sample lies in the interval of the one before it.
Average ==
    /\ Sample(last_time_interval)
    /\ qdelay_ans' = qdelay_ans \cup {next}
    /\ UNCHANGED <<fileVars, throughput_index, rows, closed>>

\* Where the loop over the lines of throughput stops.
StopsAt(end, interval) ==
    /\ \A i \in throughput_index .. end - 1 : TakesUpTo(i, interval)
    /\ end <= Len(throughput) => ~ TakesUpTo(end, interval)

\* The first sample of an interval ends the one before, and is not added up.
NextInterval ==
    /\ \E interval \in 0 .. LastInterval :
           /\ interval # last_time_interval
           /\ Sample(interval)
           /\ qdelay_ans # {}
           /\ \E end \in throughput_index .. Len(throughput) + 1 :
                  StopsAt(end, interval) /\ WriteRow(end)
    /\ UNCHANGED <<fileVars, closed>>

\* No sample of the interval before was added up: nothing is written.
SkipInterval ==
    /\ \E interval \in 0 .. LastInterval :
           /\ interval # last_time_interval
           /\ Sample(interval)
    /\ qdelay_ans = {}
    /\ UNCHANGED <<fileVars, qdelay_ans, throughput_index, rows, closed>>

\* After the last sample, all lines that are left belong to the last row.
Close ==
    /\ next > Len(qdelay)
    /\ ~ closed
    /\ closed' = TRUE
    /\ \/ qdelay_ans # {} /\ WriteRow(Len(throughput) + 1)
       \/ qdelay_ans = {} /\ UNCHANGED <<qdelay_ans, throughput_index, rows>>
    /\ UNCHANGED <<fileVars, next, last_time_interval>>

Next == Average \/ NextInterval \/ SkipInterval \/ Close

-----------------------------------------------------------------------------
(* The result, defined by the intervals *)

SamplesOf(v) == {k \in DOMAIN qdelay : qdelay[k] = v}

\* The samples of interval v that count: all but the first, which only opens it.
\* Interval 0 is open from the start.
Counted(v) ==
    IF v = 0 THEN SamplesOf(v)
    ELSE {k \in SamplesOf(v) : \E j \in SamplesOf(v) : j < k}

RowIntervals == {v \in 0 .. LastInterval : Counted(v) # {}}
Rank(v)      == Cardinality({u \in RowIntervals : u <= v})

\* Line i of throughput comes before every sample that is later than interval v.
Before(i, v) == \A k \in DOMAIN qdelay : qdelay[k] > v => throughput[i] < qdelay[k]

\* Each line belongs to the first interval with a row before whose successor it comes.
LinesOf(v) ==
    {i \in DOMAIN throughput : /\ Before(i, v)
                               /\ \A u \in RowIntervals : u < v => ~ Before(i, u)}

\* The k-th row is that of the k-th interval in which some sample counts: its mean
\* delay and its mean throughput are over the samples and lines above, so that no
\* line enters two rows, and none is passed over before the last row; the file has
\* no other row.
RowsAsDefined ==
    /\ \A v \in RowIntervals : Rank(v) <= Len(rows) =>
           rows[Rank(v)] = [samples |-> Counted(v), lines |-> LinesOf(v)]
    /\ closed => Len(rows) = Cardinality(RowIntervals)
=============================================================================
