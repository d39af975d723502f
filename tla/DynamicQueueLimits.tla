------------------------- MODULE DynamicQueueLimits -------------------------
(***************************************************************************)
(* DynamicQueueLimits, the implementation of byte queue limits, with the   *)
(* packets of one device queue.  The network device reports each packet it *)
(* queues (Queued) and each packet it takes from its queue (Completed);    *)
(* NetDeviceQueue stops the tx queue when Available turns negative.        *)
(*                                                                         *)
(* Counters are unsigned integers with Mod values, 2^32 in the code; the   *)
(* arithmetic and the conversions to signed integers are the code's.       *)
(* Posdiff subtracts signed integers: when the difference does not fit,    *)
(* the behaviour is undefined, and the result is either the wrapped one or *)
(* that of a compiler that compares a with b: 0 or a - b modulo Mod.       *)
(* The hold time of the slack is abstracted to a choice (holdOver).        *)
(***************************************************************************)
EXTENDS Integers, Sequences, FiniteSets

CONSTANTS Mod,        \* values of a uint32_t
          Sizes,      \* packet sizes
          MinLimit,   \* m_minLimit
          MaxLimit,   \* m_maxLimit
          MaxQueue,   \* bound: packets in the device queue
          FirstAdj    \* values the uninitialized m_adjLimit may have

ASSUME DynamicQueueLimitsAssumption ==
    /\ Mod \in Nat /\ Mod >= 16 /\ Mod % 2 = 0
    /\ Sizes \subseteq 1 .. (Mod - 1) \div 16
    /\ MinLimit \in 0 .. Mod - 1
    /\ MaxLimit \in 0 .. ((Mod - 1) \div 2 - (Mod - 1) \div 16)
    /\ MaxQueue \in Nat \ {0}
    /\ FirstAdj \subseteq 0 .. Mod - 1

VARIABLES
    m_limit, m_adjLimit,
    m_numQueued, m_numCompleted,
    m_lastObjCnt,
    m_prevNumQueued, m_prevLastObjCnt, m_prevOvlimit,
    m_lowestSlack,
    m_stoppedByQueueLimits,
    inFlight                  \* sizes of the packets in the device queue

lastVars == <<m_lastObjCnt, m_numQueued>>
vars == <<m_limit, m_adjLimit, m_numQueued, m_numCompleted, m_lastObjCnt, m_prevNumQueued,
          m_prevLastObjCnt, m_prevOvlimit, m_lowestSlack, m_stoppedByQueueLimits, inFlight>>

U(x) == x % Mod                                        \* value of an unsigned expression
S(x) == IF U(x) < Mod \div 2 THEN U(x) ELSE U(x) - Mod \* conversion to int32_t

Larger(a, b)  == IF a < b THEN b ELSE a
Smaller(a, b) == IF a < b THEN a ELSE b

\* Reset, called by the constructor: it does not set m_adjLimit.
Init ==
    /\ m_limit = 0 /\ m_adjLimit \in FirstAdj
    /\ m_numQueued = 0 /\ m_numCompleted = 0
    /\ m_lastObjCnt = 0
    /\ m_prevNumQueued = 0 /\ m_prevLastObjCnt = 0 /\ m_prevOvlimit = 0
    /\ m_lowestSlack = Mod - 1
    /\ m_stoppedByQueueLimits = FALSE
    /\ inFlight = <<>>

\* The values that Posdiff(a, b) may return.
Posdiff(a, b) ==
    LET d == S(a) - S(b)
    IN  IF d = S(d) THEN {Larger(d, 0)}
        ELSE {Larger(S(d), 0), IF S(a) > S(b) THEN U(d) ELSE 0}

Available(adj, queued) == S(adj - queued)

\* NotifyQueuedBytes for a packet of the given size.
Queued(size) ==
    /\ ~ m_stoppedByQueueLimits
    /\ Len(inFlight) < MaxQueue
    /\ m_lastObjCnt' = size
    /\ m_numQueued' = U(m_numQueued + size)
    /\ inFlight' = Append(inFlight, size)
    /\ m_stoppedByQueueLimits' = (Available(m_adjLimit, m_numQueued') < 0)
    /\ UNCHANGED <<m_limit, m_adjLimit, m_numCompleted, m_prevNumQueued, m_prevLastObjCnt,
                   m_prevOvlimit, m_lowestSlack>>

\* The queue is starved: it was over the limit and nothing is left in it, or
\* everything queued at the previous completion has been transmitted.
Starved(completed, ovlimit) ==
    \/ ovlimit # 0 /\ U(m_numQueued - completed) = 0
    \/ m_prevOvlimit # 0 /\ S(completed - m_prevNumQueued) >= 0

\* The queue was busy during the whole interval: the limit may shrink.
AlwaysBusy(completed) ==
    /\ U(m_numQueued - completed) # 0
    /\ U(m_prevNumQueued - m_numCompleted) # 0
    /\ S(completed - m_prevNumQueued) < 0

\* <<limit, m_lowestSlack>> when the queue is starved: the limit grows.
GrownLimit(completed) ==
    {<<U(m_limit + d + m_prevOvlimit), Mod - 1>> : d \in Posdiff(completed, m_prevNumQueued)}

\* <<limit, m_lowestSlack>> when it is not: the least slack seen is recorded,
\* and taken off the limit when the hold time is over.
ShrunkLimit(completed, holdOver) ==
    LET slacks == Posdiff(m_limit + m_prevOvlimit, 2 * (completed - m_numCompleted))
        lasts  == IF m_prevOvlimit # 0 THEN Posdiff(m_prevLastObjCnt, m_prevOvlimit) ELSE {0}
        lowest == {Smaller(m_lowestSlack, Larger(s, l)) : s \in slacks, l \in lasts}
    IN  IF holdOver
        THEN UNION {{<<d, Mod - 1>> : d \in Posdiff(m_limit, low)} : low \in lowest}
        ELSE {<<m_limit, low>> : low \in lowest}

\* Mutant of Bounded: the upper bound is forgotten.
BoundedBelow(limit) == Larger(limit, MinLimit)

Bounded(limit) == Smaller(Larger(limit, MinLimit), MaxLimit)

\* Mutant of AdjLimit: the completed bytes are those before this completion.
AdjLimitStale(limit, completed) == U(limit + m_numCompleted)

AdjLimit(limit, completed) == U(limit + completed)

\* NotifyTransmittedBytes for the packet at the head of the device queue.
Completed(holdOver) ==
    /\ inFlight # <<>>
    /\ LET completed == U(m_numCompleted + Head(inFlight))
       IN  \E ovlimit \in Posdiff(m_numQueued - m_numCompleted, m_limit) :
           \E new \in IF Starved(completed, ovlimit) THEN GrownLimit(completed)
                      ELSE IF AlwaysBusy(completed) THEN ShrunkLimit(completed, holdOver)
                      ELSE {<<m_limit, m_lowestSlack>>} :
               /\ m_limit' = Bounded(new[1])
               /\ m_lowestSlack' = new[2]
               /\ m_prevOvlimit' = IF m_limit' # m_limit THEN 0 ELSE ovlimit
               /\ m_adjLimit' = AdjLimit(m_limit', completed)
               /\ m_numCompleted' = completed
    /\ m_prevLastObjCnt' = m_lastObjCnt
    /\ m_prevNumQueued' = m_numQueued
    /\ inFlight' = Tail(inFlight)
    /\ m_stoppedByQueueLimits' =
           (m_stoppedByQueueLimits /\ Available(m_adjLimit', m_numQueued) < 0)
    /\ UNCHANGED lastVars

Next == \/ \E size \in Sizes : Queued(size)
        \/ \E holdOver \in BOOLEAN : Completed(holdOver)

Spec == Init /\ [][Next]_vars

-----------------------------------------------------------------------------
(* Properties *)

\* Every counter is an unsigned integer of the given width.
TypeOK ==
    /\ {m_limit, m_adjLimit, m_numQueued, m_numCompleted, m_lastObjCnt, m_prevNumQueued,
        m_prevLastObjCnt, m_prevOvlimit, m_lowestSlack} \subseteq 0 .. Mod - 1
    /\ m_stoppedByQueueLimits \in BOOLEAN
    /\ inFlight \in Seq(Sizes)

\* The promise NetDevice.tla relies on: queue limits that stop the tx queue
\* have packets in the device queue, so that a completion will come; the tx
\* queue is not left stopped with nothing to transmit, whatever value
\* m_adjLimit starts with and wherever the counters wrap.
LimitsPromise == m_stoppedByQueueLimits => inFlight # <<>>

\* The bytes in the device queue, each known by its packet and a number.
InFlightBytes ==
    Cardinality(UNION {{k} \X (1 .. inFlight[k]) : k \in DOMAIN inFlight})

\* The counters, which wrap around, say how many bytes the device queue holds;
\* Completed never completes more than that (its NS_ASSERT).
ExactInFlight == U(m_numQueued - m_numCompleted) = InFlightBytes

\* What byte queue limits are for: the device queue never holds more than the
\* largest limit, or the first value of m_adjLimit if it is positive, and one
\* packet.
FirstLimits == {a \in FirstAdj : S(a) >= 0} \cup {MaxLimit}

InFlightBounded ==
    \E limit \in FirstLimits, size \in Sizes \cup {0} : InFlightBytes <= limit + size

\* The two above, with the types that the wrapping counters keep.
InFlightConsistent == TypeOK /\ ExactInFlight /\ InFlightBounded

\* When the queue is starved the limit grows by the bytes sent and completed
\* in the last interval plus any previous over-limit, within the bounds
\* (comment in Completed).  The code does not keep this: see the README.
StarvedGrows ==
    [][LET ovlimit == Larger(U(m_numQueued - m_numCompleted) - m_limit, 0)
       IN  m_numCompleted' # m_numCompleted /\ Starved(m_numCompleted', ovlimit) =>
               m_limit' = Bounded(m_limit + Larger(S(m_numCompleted' - m_prevNumQueued), 0)
                                          + m_prevOvlimit)]_vars

=============================================================================
