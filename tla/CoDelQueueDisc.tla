--------------------------- MODULE CoDelQueueDisc ---------------------------
(***************************************************************************)
(* CoDel (traffic-control/model/codel-queue-disc.cc): DoEnqueue, OkToDrop  *)
(* and DoDequeue, whose loop takes one step per packet.  A packet is the   *)
(* time at which it was enqueued and counts as one unit of size.           *)
(*                                                                         *)
(* CoDel keeps times in 32 bits and compares them by the sign of the       *)
(* difference of two signed integers.  Where that difference overflows the *)
(* C++ program has no defined meaning: a build either wraps it around or   *)
(* compares the two signed integers.  Here a time has 2 * Half values.     *)
(*                                                                         *)
(* The control law (m_count, m_lastCount and the Newton iteration) enters  *)
(* as the distance to the next drop, which is any of 1 .. Interval.        *)
(***************************************************************************)
EXTENDS Integers, Sequences

CONSTANTS Half,      \* half the number of values of a time
          Interval, Target,
          MinBytes,
          MaxSize,
          MaxTime    \* bound on the clock

ASSUME CoDelAssumption ==
    /\ {Half, Interval, Target, MinBytes, MaxSize, MaxTime} \subseteq Nat \ {0}
    /\ Interval < Half /\ Target < Half

None == -1

VARIABLES
    queue,              \* the internal queue
    now,                \* the simulator's clock, which does not wrap
    m_dropping, m_firstAboveTime, m_dropNext,
    pc, item,           \* where DoDequeue is, and the packet in its hand
    sums,               \* how this build subtracts signed integers
    aboveSince,         \* history: when OkToDrop began to find every packet above target
    lastDrop            \* history: the last drop, and aboveSince at that time

codelVars   == <<m_dropping, m_firstAboveTime, m_dropNext>>
historyVars == <<aboveSince, lastDrop>>
vars == <<queue, now, codelVars, pc, item, sums, historyVars>>

Init ==
    /\ queue = <<>> /\ now = 0
    /\ m_dropping = FALSE /\ m_firstAboveTime = 0 /\ m_dropNext = 0
    /\ pc = "idle" /\ item = None
    /\ sums \in {"wrap", "compare"}
    /\ aboveSince = None
    /\ lastDrop = [at |-> None, since |-> None]

-----------------------------------------------------------------------------
(* Times of 32 bits *)

\* Time2CoDel, CoDelGetTime, and the sum of two such times.
Time2CoDel(t) == t % (2 * Half)

\* The signed integer that has the same bits.
Signed(a) == IF a >= Half THEN a - 2 * Half ELSE a

\* The value of (int) a - (int) b as far as its sign goes.
Difference(a, b) ==
    IF sums = "wrap" THEN Signed((a - b) % (2 * Half)) ELSE Signed(a) - Signed(b)

CoDelTimeAfter(a, b)   == Difference(a, b) > 0
CoDelTimeAfterEq(a, b) == Difference(a, b) >= 0
CoDelTimeBefore(a, b)  == Difference(a, b) < 0

-----------------------------------------------------------------------------
(* Operations *)

\* The drop of a packet that finds the queue full changes nothing here.
DoEnqueue ==
    /\ pc = "idle"
    /\ Len(queue) + 1 <= MaxSize
    /\ queue' = Append(queue, now)
    /\ UNCHANGED <<now, codelVars, pc, item, sums, historyVars>>

\* No packet is kept for half the range of a time, over half an hour.
Tick ==
    /\ pc = "idle"
    /\ now < MaxTime
    /\ queue # <<>> => now + 1 - Head(queue) < Half
    /\ now' = now + 1
    /\ UNCHANGED <<queue, codelVars, pc, item, sums, historyVars>>

\* Mutant of SmallBacklog: the size of the queue is not looked at.
SmallBacklogIgnored(rest) == FALSE

SmallBacklog(rest) == Len(rest) < MinBytes

Below(p, rest) ==
    \/ p = None
    \/ CoDelTimeBefore(Time2CoDel(now - p), Target)
    \/ SmallBacklog(rest)

\* Mutant of FirstAboveTime: it is not reset when a packet is below target.
FirstAboveTimeKept(p, rest) ==
    IF m_firstAboveTime = 0 THEN Time2CoDel(now + Interval) ELSE m_firstAboveTime

\* Mutant of FirstAboveTime: every packet above target starts a new interval.
FirstAboveTimeRestarts(p, rest) ==
    IF Below(p, rest) THEN 0 ELSE Time2CoDel(now + Interval)

\* What OkToDrop leaves in m_firstAboveTime; 0 means that it is not set.
FirstAboveTime(p, rest) ==
    IF Below(p, rest) THEN 0
    ELSE IF m_firstAboveTime = 0 THEN Time2CoDel(now + Interval)
    ELSE m_firstAboveTime

\* The answer of OkToDrop for packet p when rest is still queued.
OkToDrop(p, rest) ==
    /\ ~ Below(p, rest)
    /\ m_firstAboveTime # 0
    /\ CoDelTimeAfter(Time2CoDel(now), m_firstAboveTime)

\* The first packet of the internal queue, if any, and what follows it.
Popped == IF queue = <<>> THEN None ELSE Head(queue)
Rest   == IF queue = <<>> THEN <<>> ELSE Tail(queue)

\* The internal queue gives up its first packet, if any, and OkToDrop judges it.
Pop ==
    /\ item' = Popped
    /\ queue' = Rest
    /\ m_firstAboveTime' = FirstAboveTime(Popped, Rest)
    /\ aboveSince' = IF Below(Popped, Rest) THEN None
                     ELSE IF aboveSince = None THEN now
                     ELSE aboveSince

DropAfterDequeue == lastDrop' = [at |-> now, since |-> aboveSince]

\* ControlLaw: t plus the interval divided by the square root of m_count.
ControlLaw(t) == \E gap \in 1 .. Interval : m_dropNext' = Time2CoDel(t + gap)

DequeueEmpty ==
    /\ pc = "idle"
    /\ queue = <<>>
    /\ m_dropping' = FALSE
    /\ UNCHANGED <<queue, now, m_firstAboveTime, m_dropNext, pc, item, sums, historyVars>>

\* The first packet is taken and judged.
Dequeue ==
    /\ pc = "idle"
    /\ queue # <<>>
    /\ Pop
    /\ LET ok == OkToDrop(Popped, Rest) IN
         /\ pc' = IF ~ ok THEN "return" ELSE IF m_dropping THEN "loop" ELSE "enter"
         /\ m_dropping' = (m_dropping /\ ok)
    /\ UNCHANGED <<now, m_dropNext, sums, lastDrop>>

\* The dropping state is entered: the packet is dropped and the next one taken,
\* whatever OkToDrop says of it.
EnterDropping ==
    /\ pc = "enter"
    /\ DropAfterDequeue
    /\ Pop
    /\ m_dropping' = TRUE
    /\ ControlLaw(now)
    /\ pc' = "return"
    /\ UNCHANGED <<now, sums>>

TimeForNextDrop == m_dropping /\ CoDelTimeAfterEq(Time2CoDel(now), m_dropNext)

\* One round of the loop of the dropping state.
DropNext ==
    /\ pc = "loop"
    /\ TimeForNextDrop
    /\ DropAfterDequeue
    /\ Pop
    /\ IF OkToDrop(Popped, Rest)
       THEN m_dropping' = TRUE /\ ControlLaw(m_dropNext)
       ELSE m_dropping' = FALSE /\ UNCHANGED m_dropNext
    /\ UNCHANGED <<now, pc, sums>>

EndLoop ==
    /\ pc = "loop"
    /\ ~ TimeForNextDrop
    /\ pc' = "return"
    /\ UNCHANGED <<queue, now, codelVars, item, sums, historyVars>>

Return ==
    /\ pc = "return"
    /\ pc' = "idle"
    /\ item' = None
    /\ UNCHANGED <<queue, now, codelVars, sums, historyVars>>

DoDequeue == DequeueEmpty \/ Dequeue \/ EnterDropping \/ DropNext \/ EndLoop \/ Return

Next == DoEnqueue \/ Tick \/ DoDequeue

Spec == Init /\ [][Next]_vars

-----------------------------------------------------------------------------
(* Properties *)

CoDelTime == 0 .. 2 * Half - 1
Clock     == 0 .. MaxTime

TypeOK ==
    /\ queue \in Seq(Clock) /\ Len(queue) <= MaxSize
    /\ now \in Clock
    /\ m_dropping \in BOOLEAN
    /\ {m_firstAboveTime, m_dropNext} \subseteq CoDelTime
    /\ pc \in {"idle", "enter", "loop", "return"}
    /\ item \in Clock \cup {None}
    /\ sums \in {"wrap", "compare"}
    /\ aboveSince \in Clock \cup {None}
    /\ {lastDrop.at, lastDrop.since} \subseteq Clock \cup {None}

\* As m_minBytes is at least 1, CoDel never drops the last packet: a DoDequeue on
\* a queue that has packets returns one, and an empty queue always leaves
\* m_firstAboveTime unset, although the early return for an empty queue does not
\* reset it.
BackloggedDelivers ==
    /\ TypeOK
    /\ pc # "idle" => item # None
    /\ pc = "idle" /\ queue = <<>> => m_firstAboveTime = 0

\* The clock of 32 bits changes its sign at a time of after + 1 .. upTo.
SignChanges(after, upTo) == \E t \in after + 1 .. upTo : t % (2 * Half) = Half

\* A packet is dropped only after more than one interval in which every packet
\* taken was above target with a backlog left, except in a build that compares
\* signed integers, within the interval before the clock of 32 bits changes sign.
DropsOnlyPersistent ==
    lastDrop.at # None =>
        /\ lastDrop.since # None
        /\ \/ lastDrop.at - lastDrop.since > Interval
           \/ sums = "compare" /\ SignChanges(lastDrop.at, lastDrop.since + Interval)

\* A standing queue is acted on: once every packet has been above target for more
\* than an interval, a DoDequeue ends in the dropping state.  The exceptions are
\* an interval that ends exactly when the clock of 32 bits is 0, the value that
\* means unset, and a queue that has been standing while the clock went through
\* half its range (or, with signed comparison, changed its sign).
StandingQueueIsControlled ==
    LET ends == aboveSince + Interval IN
    pc = "return" /\ aboveSince # None /\ now > ends =>
        \/ m_dropping
        \/ Time2CoDel(ends) = 0
        \/ now - ends >= Half
        \/ sums = "compare" /\ SignChanges(ends, now)
=============================================================================
