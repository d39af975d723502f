----------------------------- MODULE FlowSeries -----------------------------
(***************************************************************************)
(* goodput_process.py and drop_process.py of the evaluation suite: one     *)
(* pass over the lines of all flows, which makes one series per flow.      *)
(*                                                                         *)
(* The lines are sorted as text, so the lines of a flow are together but   *)
(* not in the order of their times: 10.2 comes before 9.7.  A trace may    *)
(* have several lines of a flow and a time, equal ones too.  A point of a  *)
(* goodput series is its time with the records that have been added up     *)
(* until then; a drop series is a sequence of gaps between drops.          *)
(***************************************************************************)
EXTENDS Integers, FiniteSets, Sequences, SequencesExt

CONSTANTS SeriesFlows,      \* a set of numbers, in the order of the flows' names
          Entries,          \* what a line may have after the name of its flow
          TextRank(_),      \* the place of a number in the order of texts
          Window            \* 0.1 s

Numbers == {e.time : e \in Entries} \cup {e.size : e \in Entries}

\* An entry is a time, a size (goodput only) and a number that only tells equal
\* lines apart.  No packet is at the bottleneck at time 0.
ASSUME SeriesAssumption ==
    /\ IsFiniteSet(SeriesFlows) /\ SeriesFlows \subseteq Int
    /\ IsFiniteSet(Entries) /\ Entries \subseteq [time : Nat \ {0}, size : Nat, copy : Nat]
    /\ \A n \in Numbers : TextRank(n) \in Int
    /\ \A m, n \in Numbers : TextRank(m) = TextRank(n) => m = n
    /\ Window \in Int

None == -1

VARIABLES
    script,             \* which of the two programs this is
    lines_read,         \* the lines, sorted as text
    line,               \* i of the scripts: the number of lines passed
    data,               \* the entries of the flow that have been collected
    inst_data,          \* the series in the making
    File,               \* the series made so far
    a,                  \* time of the loop variable of the goodput script
    state               \* "loop", "done", or "error"

inputVars == <<script, lines_read>>
seriesVars == <<inputVars, line, data, inst_data, File, a, state>>

Line == [flow : SeriesFlows, entry : Entries]

\* The orders of two entries as text and as numbers.
TextBefore(d, e) ==
    \/ TextRank(d.time) < TextRank(e.time)
    \/ d.time = e.time /\ TextRank(d.size) < TextRank(e.size)
    \/ d.time = e.time /\ d.size = e.size /\ d.copy < e.copy
Before(d, e) ==
    \/ d.time < e.time
    \/ d.time = e.time /\ d.size < e.size
    \/ d.time = e.time /\ d.size = e.size /\ d.copy < e.copy

\* The orders of lines as text and of entries as numbers, as sets of pairs.
TextOrder ==
    {p \in Line \X Line :
        \/ p[1].flow < p[2].flow
        \/ p[1].flow = p[2].flow /\ TextBefore(p[1].entry, p[2].entry)}
TimeOrder == {p \in Entries \X Entries : Before(p[1], p[2])}

\* The members of a set, each after those that come before it.
InOrder(S, order) ==
    [k \in 1 .. Cardinality(S) |->
        CHOOSE x \in S : Cardinality({y \in S : <<y, x>> \in order}) = k - 1]

SeriesInit ==
    /\ script \in {"goodput", "drop"}
    /\ \E lines \in SUBSET Line : lines_read = InOrder(lines, TextOrder)
    /\ line = 0
    /\ data = <<>> /\ inst_data = <<>> /\ File = <<>>
    /\ a = None
    /\ state = "loop"

-----------------------------------------------------------------------------

Sorted(entries) == InOrder(ToSet(entries), TimeOrder)

\* One round of the loop over the records of a flow: a record within the window is
\* added up; any other opens a window, closing the one before with a point.
AddRecord(acc, e) ==
    IF e.time - acc.last_recorded < Window
    THEN [acc EXCEPT !.counted = @ \cup {e}]
    ELSE [acc EXCEPT !.last_recorded = e.time,
                     !.points = IF acc.counted = {} THEN @
                                ELSE Append(@, [time |-> e.time, counted |-> acc.counted])]

\* What the loop has after each of its rounds.
Rounds(list) ==
    LET acc[k \in 0 .. Len(list)] ==
            IF k = 0 THEN [counted |-> {}, last_recorded |-> 0, points |-> <<>>]
            ELSE AddRecord(acc[k - 1], list[k])
    IN  acc

\* Mutant of Summed: the point at the end is left out.
SummedWithoutLast(list, last) == Rounds(list)[Len(list)].points

\* The goodput series of a flow; last is the time of its last record.
Summed(list, last) ==
    LET acc == Rounds(list)[Len(list)]
    IN  IF acc.counted = {} THEN acc.points
        ELSE Append(acc.points, [time |-> last, counted |-> acc.counted])

Gaps(list) == [k \in 1 .. Len(list) - 1 |-> list[k + 1].time - list[k].time]

\* The entries of a flow become its series.  The goodput script uses its loop
\* variable after the loop, which is undefined if no loop had a record; the drop
\* script never empties inst_data and goes on with the gaps of the flows before.
MakeSeries(more) ==
    LET list == Sorted(data)
        last == IF list = <<>> THEN a ELSE Last(list).time
    IN  \/ /\ script = "goodput"
           /\ last # None
           /\ File' = Append(File, Summed(list, last))
           /\ a' = last
           /\ inst_data' = <<>>
           /\ state' = more
        \/ /\ script = "goodput"
           /\ last = None
           /\ state' = "error"
           /\ UNCHANGED <<inst_data, File, a>>
        \/ /\ script = "drop"
           /\ inst_data' = inst_data \o Gaps(list)
           /\ File' = Append(File, inst_data')
           /\ state' = more
           /\ UNCHANGED a

\* There is a next line for the comparison.
HasNext == state = "loop" /\ line + 1 < Len(lines_read)
SameFlow == lines_read[line + 1].flow = lines_read[line + 2].flow

\* The next line is of the same flow.
Collect ==
    /\ HasNext /\ SameFlow
    /\ line' = line + 1
    /\ data' = Append(data, lines_read[line + 1].entry)
    /\ UNCHANGED <<inputVars, inst_data, File, a, state>>

\* The last line of a flow is not collected.
EndFlow ==
    /\ HasNext /\ ~ SameFlow
    /\ line' = line + 1
    /\ MakeSeries("loop")
    /\ data' = <<>>
    /\ UNCHANGED inputVars

\* The last line of all ends the loop, uncollected.
EndLastFlow ==
    /\ state = "loop" /\ ~ HasNext
    /\ MakeSeries("done")
    /\ UNCHANGED <<inputVars, line, data>>

SeriesNext == Collect \/ EndFlow \/ EndLastFlow

-----------------------------------------------------------------------------
(* The result, defined by the lines *)

EntriesOf(f) == {r.entry : r \in {r \in ToSet(lines_read) : r.flow = f}}

\* Both scripts lose one record of each flow: the one that is last as text.
Kept(f) == {d \in EntriesOf(f) : \E e \in EntriesOf(f) : TextBefore(d, e)}

\* Flows that have a record, and the flow of the k-th series.
Present == {f \in SeriesFlows : EntriesOf(f) # {}}
FlowOf(k) == CHOOSE f \in Present : Cardinality({g \in Present : g <= f}) = k

\* The records that are added up are those within a window of time 0 or of an
\* earlier record that is not added up; those that are not open the windows.
Windowed(records, counted) ==
    counted = {e \in records :
                  \/ e.time < Window
                  \/ \E o \in records \ counted : Before(o, e) /\ e.time - o.time < Window}

Latest(records) == CHOOSE t \in {e.time : e \in records} : \A e \in records : e.time <= t

\* A goodput series is made from the records of one flow, without those that open
\* a window; its points follow each other in time, each with all that is added up
\* before it, and the last point is at the flow's last record.
GoodputOf(records, series) ==
    LET final == IF series = <<>> THEN {} ELSE series[Len(series)].counted
    IN  /\ Windowed(records, final)
        /\ series # <<>> => series[Len(series)].time = Latest(records)
        /\ \A k \in DOMAIN series :
               /\ \E e \in records : series[k].time = e.time
               /\ k < Len(series) => /\ series[k].counted = {e \in final : e.time < series[k].time}
                                     /\ series[k].time <= series[k + 1].time

\* The k-th drop series is not that of the k-th flow alone, whose name it has: it
\* has the gaps of the flows before too, since it begins with the series before.
DropsOf(k, series) ==
    series = (IF k = 1 THEN <<>> ELSE File[k - 1]) \o Gaps(InOrder(Kept(FlowOf(k)), TimeOrder))

\* There is no record, or the first flow has a single one.
NothingFirst == Present = {} \/ Kept(FlowOf(1)) = {}

\* Goodput: the k-th series is made from the lines of the k-th flow with a record
\* and no others, all but one of them.  Drops: it has the gaps of the first k
\* flows, in this order.  Every flow with a record has a series, and the goodput
\* script fails exactly when it has no series to go on from.
SeriesAsDefined ==
    /\ Present # {} => \A k \in DOMAIN File :
           IF script = "goodput" THEN GoodputOf(Kept(FlowOf(k)), File[k]) ELSE DropsOf(k, File[k])
    /\ state = "done" => /\ script = "goodput" => ~ NothingFirst
                         /\ Present # {} => Len(File) = Cardinality(Present)
    /\ state = "error" => script = "goodput" /\ NothingFirst
=============================================================================
