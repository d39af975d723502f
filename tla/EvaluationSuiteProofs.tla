--------------------------- MODULE EvaluationSuiteProofs -----------------------
(***************************************************************************)
(* The evaluation suite: traffic generator, driver and result scripts.     *)
(*                                                                         *)
(* The traffic generator sends at its rate up to what its conversions cut  *)
(* off, never leaks an event and ends where its limit says, for every      *)
(* packet size, rate, limit, on and off time and whenever the scenario     *)
(* pauses, restarts and stops the flow.  The argument is about the pending *)
(* events: the next packet and the next change of state are the events the *)
(* application holds, the start of an on period is pending alone, and a    *)
(* pending packet is due when its bits, the residual ones included, have   *)
(* passed.                                                                 *)
(*                                                                         *)
(* The driver evaluates the AQMs of its list in their order, under the     *)
(* same conditions, and records when its flows ended.  What is pending is  *)
(* what the scenario scheduled, so that the order of times and uids says   *)
(* what has run when the traces are closed.                                *)
(*                                                                         *)
(* The rows of the ellipse input are those of the intervals: the invariant *)
(* says it of the part of the files that the pass has read.  The goodput   *)
(* and drop series are what the definitions say of all lines: lists in     *)
(* order exist, the rounds over the lines of a flow add up what they       *)
(* should, and the pass collects all lines of a flow but the last.         *)
(***************************************************************************)
EXTENDS EvalApp, ScenarioImpl, ResultScripts, FiniteSetTheorems, SequenceTheorems,
        WellFoundedInduction, TLAPS

SendPending == \E e \in pending : e.what = "Send"

LimitReached == ~ Unlimited /\ m_totBytes >= MaxPackets

\* The two events the application holds are different ones.
HeldEvents ==
    /\ m_sendEvent < uid /\ m_startStopEvent < uid
    /\ m_sendEvent = 0 \/ m_sendEvent # m_startStopEvent

\* Each pending event is one of them, and is not overdue.
PendingHeld ==
    \A e \in pending :
        /\ e.at >= now
        /\ e.uid = IF e.what = "Send" THEN m_sendEvent ELSE m_startStopEvent

\* An event is known by its uid, and a start is pending alone.
PendingShape ==
    \A e, f \in pending : e.uid = f.uid \/ e.what = "Start" => e = f

\* A packet is due when the bits it still lacks have passed.
SendDue ==
    \A e \in pending : e.what = "Send" =>
        e.at - m_lastStartTime \in Truncated((PktBits - m_residualBits) * Second, BitRate)

\* An on period is under way as long as a packet is pending, within the limit.
OnIsSending ==
    /\ on <=> SendPending
    /\ SendPending => ~ LimitReached

\* The flow is over once it was stopped or its limit is reached.
FlowOver ==
    /\ m_flowStop # -1 => stopped \/ LimitReached
    /\ LimitReached => m_flowStop = lastSent /\ lastSent # -1

\* An application that has not started was not called.
NotStarted == socket = "new" => ~ paused /\ ~ stopped /\ pending = {}

IInv ==
    /\ TypeOK /\ HeldEvents /\ PendingHeld /\ PendingShape
    /\ SendDue /\ OnIsSending /\ BitsAccounted
    /\ Quiet /\ LimitRespected /\ FlowOver /\ NotStarted

-----------------------------------------------------------------------------
(* The conversions between bits and time *)

LEMMA TruncatedBounds ==
    ASSUME NEW n \in Int, NEW d \in Nat \ {0}, NEW k \in Truncated(n, d)
    PROVE  k \in Nat /\ k * d <= n /\ n <= (k + 1) * d
<1>1. n \div d \in Int
  OBVIOUS
<1>2. k \in Int /\ k >= 0
  BY <1>1 DEF Truncated
<1> QED
  BY <1>2 DEF Truncated

LEMMA Distributes == \A m, n, k \in Int : m * (n + k) = m * n + m * k
OBVIOUS

LEMMA Commutes == \A m, n \in Int : m * n = n * m
OBVIOUS

LEMMA ProductType == \A m, n \in Int : m * n \in Int
OBVIOUS

LEMMA ProductsOrdered == \A s \in Nat : \A m, n \in Int : m <= n => s * m <= s * n
OBVIOUS

LEMMA FactorsOrdered == \A s \in Nat \ {0} : \A m, n \in Int : s * m <= s * n => m <= n
OBVIOUS

\* BitsAccounted of these numbers: of the bits kept, times Second, those of the
\* pending packet, times Second, the ticks, the packets and the interruptions.
Within(kept, running, ticks, packets, lost) ==
    /\ BitRate * ticks <= kept + running + Second * lost
    /\ kept + running <= BitRate * ticks + BitRate * packets

LEMMA AccountedIsWithin ==
    BitsAccounted <=> Within(Second * (PktBits * m_totBytes + m_residualBits),
                             IF IsRunning(pending, m_sendEvent)
                             THEN BitRate * (now - m_lastStartTime) ELSE 0,
                             onTicks, m_totBytes, interruptions)
BY DEF BitsAccounted, Within

\* The whole bits that an interrupted packet leaves do not complete the packet,
\* and one bit of it at most is lost.
LEMMA InterruptedBits ==
    ASSUME NEW x \in Nat, NEW r \in 0 .. PktBits, NEW delta \in Nat, NEW delay \in Nat,
           delta <= delay,
           delay \in Truncated((PktBits - r) * Second, BitRate),
           NEW bits \in Truncated(delta * BitRate, Second),
           NEW ticks \in Nat, NEW packets \in Nat, NEW lost \in Nat,
           Within(Second * (x + r), BitRate * delta, ticks, packets, lost)
    PROVE  /\ bits \in Nat /\ r + bits <= PktBits
           /\ Within(Second * (x + (r + bits)), 0, ticks, packets, lost + 1)
<1>1. /\ PktBits \in Nat \ {0} /\ BitRate \in Nat \ {0} /\ Second \in Nat \ {0}
      /\ PktBits - r \in Nat /\ r \in Nat
  BY EvalAppAssumption
<1>2. /\ delta * BitRate \in Int /\ (PktBits - r) * Second \in Int
      /\ BitRate * delta \in Int /\ BitRate * delay \in Int
  BY <1>1, ProductType
<1>3. /\ bits \in Nat
      /\ bits * Second <= delta * BitRate /\ delta * BitRate <= (bits + 1) * Second
  BY <1>1, <1>2, TruncatedBounds
<1>4. delay * BitRate <= (PktBits - r) * Second
  BY <1>1, <1>2, TruncatedBounds
<1>5. /\ bits * Second = Second * bits /\ delta * BitRate = BitRate * delta
      /\ delay * BitRate = BitRate * delay
      /\ (PktBits - r) * Second = Second * (PktBits - r)
      /\ (bits + 1) * Second = Second * (bits + 1)
  BY <1>1, <1>3, Commutes
<1>6. /\ Second * (bits + 1) = Second * bits + Second * 1 /\ Second * 1 = Second
      /\ Second * (lost + 1) = Second * lost + Second * 1
      /\ Second * (x + (r + bits)) = Second * (x + r) + Second * bits
  <2>1. x + (r + bits) = (x + r) + bits /\ x + r \in Int
    BY <1>1, <1>3
  <2> QED
    BY <1>1, <1>3, <2>1, Distributes
<1>7. r + bits <= PktBits
  <2>1. BitRate * delta <= BitRate * delay
    BY <1>1, ProductsOrdered
  <2>2. Second * bits \in Int /\ Second * (PktBits - r) \in Int
    BY <1>1, <1>3, ProductType
  <2>3. Second * bits <= Second * (PktBits - r)
    BY <1>2, <1>3, <1>4, <1>5, <2>1, <2>2
  <2>4. bits <= PktBits - r
    BY <1>1, <1>3, <2>3, FactorsOrdered
  <2> QED
    BY <1>1, <1>3, <2>4
<1>8. /\ Second * bits \in Int /\ Second * lost \in Int /\ Second * (x + r) \in Int
      /\ BitRate * ticks \in Int /\ BitRate * packets \in Int /\ Second \in Int
  BY <1>1, <1>3, ProductType
<1>9. /\ Second * bits <= BitRate * delta /\ BitRate * delta <= Second * bits + Second
  BY <1>3, <1>5, <1>6
<1>10. /\ BitRate * ticks <= Second * (x + r) + BitRate * delta + Second * lost
       /\ Second * (x + r) + BitRate * delta <= BitRate * ticks + BitRate * packets
  BY DEF Within
<1>11. Within(Second * (x + (r + bits)), 0, ticks, packets, lost + 1)
  <2> DEFINE k == Second * (x + r)
             d == BitRate * delta
             b == Second * bits
             l == Second * lost
             t == BitRate * ticks
             p == BitRate * packets
  <2>1. k \in Int /\ d \in Int /\ b \in Int /\ l \in Int /\ t \in Int /\ p \in Int
    BY <1>2, <1>8
  <2>2. t <= k + d + l /\ k + d <= t + p /\ b <= d /\ d <= b + Second
    BY <1>9, <1>10
  <2>3. t <= (k + b) + 0 + (l + Second) /\ (k + b) + 0 <= t + p
    <3> HIDE DEF k, d, b, l, t, p
    <3> QED
      BY <1>8, <2>1, <2>2
  <2> QED
    BY <1>6, <2>3 DEF Within
<1> QED
  BY <1>3, <1>7, <1>11

\* A packet that is sent when it is due is early by one tick at most.
LEMMA SentBits ==
    ASSUME NEW x \in Nat, NEW r \in 0 .. PktBits,
           NEW delay \in Truncated((PktBits - r) * Second, BitRate),
           NEW ticks \in Nat, NEW packets \in Nat, NEW lost \in Nat,
           Within(Second * (x + r), BitRate * delay, ticks, packets, lost)
    PROVE  Within(Second * (x + PktBits), 0, ticks, packets + 1, lost)
<1>1. /\ PktBits \in Nat \ {0} /\ BitRate \in Nat \ {0} /\ Second \in Nat \ {0}
      /\ PktBits - r \in Nat /\ r \in Nat
  BY EvalAppAssumption
<1>2. (PktBits - r) * Second \in Int
  BY <1>1, ProductType
<1>3. /\ delay \in Nat
      /\ delay * BitRate <= (PktBits - r) * Second
      /\ (PktBits - r) * Second <= (delay + 1) * BitRate
  BY <1>1, <1>2, TruncatedBounds
<1>4. /\ delay * BitRate = BitRate * delay /\ (delay + 1) * BitRate = BitRate * (delay + 1)
      /\ (PktBits - r) * Second = Second * (PktBits - r)
  BY <1>1, <1>3, Commutes
<1>5. /\ BitRate * (delay + 1) = BitRate * delay + BitRate * 1 /\ BitRate * 1 = BitRate
      /\ BitRate * (packets + 1) = BitRate * packets + BitRate * 1
      /\ Second * (x + PktBits) = Second * (x + r) + Second * (PktBits - r)
  <2>1. x + PktBits = (x + r) + (PktBits - r) /\ x + r \in Int
    BY <1>1
  <2> QED
    BY <1>1, <1>3, <2>1, Distributes
<1> DEFINE k == Second * (x + r)
           d == BitRate * delay
           b == Second * (PktBits - r)
           l == Second * lost
           t == BitRate * ticks
           p == BitRate * packets
<1>6. k \in Int /\ d \in Int /\ b \in Int /\ l \in Int /\ t \in Int /\ p \in Int
  BY <1>1, <1>3, ProductType
<1>7. t <= k + d + l /\ k + d <= t + p /\ d <= b /\ b <= d + BitRate
  BY <1>3, <1>4, <1>5 DEF Within
<1>8. t <= (k + b) + 0 + l /\ (k + b) + 0 <= t + (p + BitRate)
  <2> HIDE DEF k, d, b, l, t, p
  <2> QED
    BY <1>1, <1>6, <1>7
<1> QED
  BY <1>5, <1>8 DEF Within

-----------------------------------------------------------------------------
(* The helpers, where the invariant holds *)

LEMMA InitInv == Init => IInv
<1> SUFFICES ASSUME Init PROVE IInv
  OBVIOUS
<1>1. /\ pending = {} /\ m_totBytes = 0 /\ m_residualBits = 0 /\ onTicks = 0
      /\ interruptions = 0
  BY DEF Init
<1>2. TypeOK
  <2>1. IsFiniteSet(pending)
    BY <1>1, FS_EmptySet
  <2>2. paused \in BOOLEAN /\ stopped \in BOOLEAN /\ on \in BOOLEAN
    BY Zenon DEF Init
  <2> QED
    BY <2>1, <2>2, EvalAppAssumption DEF Init, TypeOK
<1>3. HeldEvents /\ PendingHeld /\ PendingShape /\ SendDue /\ Quiet /\ NotStarted
  BY DEF Init, HeldEvents, PendingHeld, PendingShape, SendDue, Quiet, NotStarted
<1>4. ~ LimitReached /\ LimitRespected
  BY <1>1, EvalAppAssumption DEF LimitReached, LimitRespected, Unlimited
<1>5. OnIsSending /\ FlowOver
  BY <1>4 DEF Init, OnIsSending, SendPending, FlowOver
<1>6. BitsAccounted
  <2>1. PktBits * 0 = 0 /\ Second * (0 + 0) = 0 /\ BitRate * 0 = 0 /\ Second * 0 = 0
    BY EvalAppAssumption
  <2> QED
    BY <1>1, <2>1 DEF BitsAccounted, IsRunning
<1> QED
  BY <1>2, <1>3, <1>4, <1>5, <1>6 DEF IInv

\* The packet is running exactly if one is pending.
LEMMA RunningIsPending ==
    ASSUME IInv, NEW evs \in SUBSET pending
    PROVE  IsRunning(evs, m_sendEvent) <=> \E e \in evs : e.what = "Send"
<1>1. \A e \in evs : e.uid # 0
  BY DEF IInv, TypeOK, Event
<1>2. \A e \in evs : e.uid = m_sendEvent <=> e.what = "Send"
  BY <1>1 DEF IInv, PendingHeld, HeldEvents
<1> QED
  BY <1>2 DEF IsRunning

LEMMA AccountedNext ==
    ASSUME Within(Second * (PktBits * m_totBytes' + m_residualBits'), 0, onTicks',
                  m_totBytes', interruptions'),
           \/ ~ IsRunning(pending, m_sendEvent)'
           \/ now' \in Nat /\ m_lastStartTime' = now'
    PROVE  BitsAccounted'
<1>1. (IF IsRunning(pending, m_sendEvent)' THEN BitRate * (now' - m_lastStartTime') ELSE 0) = 0
  <2>1. BitRate * 0 = 0
    BY EvalAppAssumption
  <2>2. \A t \in Nat : t - t = 0
    OBVIOUS
  <2> QED
    BY <2>1, <2>2
<1> QED
  BY <1>1 DEF BitsAccounted, Within

\* The event of the next packet is due when the packet's bits have passed.
LEMMA NextTxFacts ==
    ASSUME TypeOK, NEW r \in 0 .. PktBits, NEW send \in NextTx(r)
    PROVE  /\ send \in Event /\ send.what = "Send" /\ send.uid = uid /\ send.at >= now
           /\ send.at - now \in Truncated((PktBits - r) * Second, BitRate)
<1>1. /\ PktBits \in Nat /\ Word \in Nat /\ Word > PktBits /\ now \in Nat
      /\ uid \in Nat \ {0} /\ BitRate \in Nat \ {0} /\ Second \in Nat
  BY EvalAppAssumption DEF TypeOK
<1>2. (PktBits - r) % Word = PktBits - r /\ PktBits - r \in Int
  BY <1>1
<1>3. PICK delay \in Truncated((PktBits - r) * Second, BitRate) :
          send = [at |-> now + delay, uid |-> uid, what |-> "Send"]
  BY <1>2 DEF NextTx
<1>4. (PktBits - r) * Second \in Int
  BY <1>1, <1>2, ProductType
<1>5. delay \in Nat
  BY <1>1, <1>4, TruncatedBounds
<1>6. send.at - now = delay /\ send.at \in Nat /\ send.at >= now
  BY <1>1, <1>3, <1>5
<1> QED
  BY <1>1, <1>3, <1>6 DEF Event

\* The residual bits never exceed a packet, so that the unsigned sum of
\* CancelEvents does not wrap, and no bit is counted twice.
LEMMA ResidualValue ==
    ASSUME IInv, NEW evs \in SUBSET pending,
           \A e \in pending \ evs : e.what # "Send",
           KeepResidual(evs, m_residualBits, m_lastStartTime)
    PROVE  /\ m_residualBits' \in 0 .. PktBits
           /\ interruptions' \in Nat
           /\ Within(Second * (PktBits * m_totBytes + m_residualBits'), 0, onTicks,
                     m_totBytes, interruptions')
<1>1. IsRunning(evs, m_sendEvent) <=> IsRunning(pending, m_sendEvent)
  BY RunningIsPending
<1>2. /\ PktBits \in Nat /\ Word \in Nat /\ Word > PktBits /\ now \in Nat
      /\ m_totBytes \in Nat /\ m_residualBits \in 0 .. PktBits
      /\ m_lastStartTime \in 0 .. now /\ onTicks \in Nat /\ interruptions \in Nat
  BY EvalAppAssumption DEF IInv, TypeOK
<1> DEFINE sent == PktBits * m_totBytes
           delta == now - m_lastStartTime
<1>3. sent \in Nat /\ delta \in Nat
  BY <1>2
<1>4. Within(Second * (sent + m_residualBits),
             IF IsRunning(pending, m_sendEvent) THEN BitRate * delta ELSE 0,
             onTicks, m_totBytes, interruptions)
  BY AccountedIsWithin DEF IInv
<1>5. /\ m_residualBits' \in Residual(evs, m_residualBits, m_lastStartTime)
      /\ interruptions' = interruptions + (IF IsRunning(evs, m_sendEvent) THEN 1 ELSE 0)
  BY DEF KeepResidual
<1>6. CASE IsRunning(evs, m_sendEvent)
  <2>1. PICK e \in pending : e.what = "Send"
    BY <1>6, RunningIsPending
  <2> DEFINE delay == e.at - m_lastStartTime
  <2>2. delay \in Truncated((PktBits - m_residualBits) * Second, BitRate) /\ e.at >= now
    BY <2>1 DEF IInv, SendDue, PendingHeld
  <2>3. delay \in Nat /\ delta <= delay
    BY <1>2, <2>1, <2>2 DEF IInv, TypeOK, Event
  <2>4. PICK bits \in Truncated(delta * BitRate, Second) :
            m_residualBits' = (m_residualBits + bits) % Word
    BY <1>5, <1>6 DEF Residual
  <2>5. Within(Second * (sent + m_residualBits), BitRate * delta, onTicks, m_totBytes,
               interruptions)
    BY <1>1, <1>4, <1>6
  <2> HIDE DEF sent, delta, delay
  <2>6. /\ bits \in Nat /\ m_residualBits + bits <= PktBits
        /\ Within(Second * (sent + (m_residualBits + bits)), 0, onTicks, m_totBytes,
                  interruptions + 1)
    BY <1>2, <1>3, <2>2, <2>3, <2>5, InterruptedBits
  <2>7. m_residualBits' = m_residualBits + bits
    BY <1>2, <2>4, <2>6
  <2>8. interruptions' = interruptions + 1
    BY <1>5, <1>6
  <2>9. m_residualBits' \in 0 .. PktBits /\ interruptions' \in Nat
    BY <1>2, <2>6, <2>7, <2>8
  <2> QED
    BY <2>6, <2>7, <2>8, <2>9 DEF sent
<1>7. CASE ~ IsRunning(evs, m_sendEvent)
  <2>1. m_residualBits' = m_residualBits /\ interruptions' = interruptions
    BY <1>2, <1>5, <1>7 DEF Residual
  <2> QED
    BY <2>1, <1>1, <1>2, <1>4, <1>7
<1> QED
  BY <1>6, <1>7

\* CancelEvents leaves no event.
LEMMA AllCancelled ==
    ASSUME IInv, NEW evs \in SUBSET pending
    PROVE  Cancelled(evs) = {}
BY DEF IInv, PendingHeld, Cancelled

\* What follows from the events that are pending.
LEMMA OnlyHeldEvents ==
    ASSUME IInv
    PROVE  NoLeakedEvent
<1> DEFINE f == [e \in pending |-> e.uid]
           held == {m_sendEvent, m_startStopEvent}
<1>1. f \in Injection(pending, held)
  <2>1. f \in [pending -> held]
    BY DEF IInv, PendingHeld
  <2>2. \A e, g \in pending : f[e] = f[g] => e = g
    BY DEF IInv, PendingShape
  <2> QED
    BY <2>1, <2>2, Zenon DEF Injection, IsInjective
<1>2. IsFiniteSet(held) /\ Cardinality(held) \in Nat /\ Cardinality(held) <= 2
  <2>1. IsFiniteSet({m_sendEvent}) /\ Cardinality({m_sendEvent}) = 1
    BY FS_Singleton
  <2>2. held = {m_sendEvent} \cup {m_startStopEvent}
    OBVIOUS
  <2>3. IsFiniteSet(held)
    BY <2>1, <2>2, FS_AddElement, Zenon
  <2>4. Cardinality(held) = 1 \/ Cardinality(held) = 1 + 1
    BY <2>1, <2>2, FS_AddElement
  <2> QED
    BY <2>3, <2>4
<1>3. Cardinality(pending) <= Cardinality(held) /\ Cardinality(pending) \in Nat
  BY <1>1, <1>2, FS_Injection, FS_CardinalityType
<1>4. Cardinality(pending) <= 2
  BY <1>2, <1>3
<1> QED
  BY <1>4 DEF NoLeakedEvent, IInv, PendingHeld

-----------------------------------------------------------------------------
(* Every step preserves the invariant *)

\* The application stops itself: it is called with no event pending, and the
\* flow ends now if it has not ended before.
LEMMA StartSendingInv ==
    ASSUME IInv, NEW e \in pending, StartSending(e)
    PROVE  IInv'
<1> DEFINE stop == [at |-> now + OnTime, uid |-> uid + 1, what |-> "Stop"]
<1>1. pending = {e} /\ e.what = "Start" /\ e.at = now /\ e \in Event
  BY DEF IInv, PendingShape, StartSending, IsNext, IsEarliest, TypeOK
<1>2. /\ PktBits \in Nat /\ Word \in Nat /\ Word > PktBits /\ PktBits > 0
      /\ OnTime \in Nat /\ MaxPackets \in Nat /\ now \in Nat /\ uid \in Nat \ {0} /\ m_totBytes \in Nat
      /\ m_residualBits \in 0 .. PktBits /\ m_lastStartTime \in 0 .. now
  BY EvalAppAssumption DEF IInv, TypeOK
<1>3. ~ SendPending /\ ~ IsRunning(pending, m_sendEvent) /\ ~ on
      /\ ~ paused /\ ~ stopped /\ socket # "new"
  BY <1>1, RunningIsPending DEF IInv, SendPending, OnIsSending, Quiet, NotStarted
<1>4. Within(Second * (PktBits * m_totBytes + m_residualBits), 0, onTicks, m_totBytes,
             interruptions)
  BY <1>3, AccountedIsWithin DEF IInv
<1>5. /\ m_lastStartTime' = now /\ m_startStopEvent' = uid + 1 /\ uid' = uid + 2
      /\ UNCHANGED <<now, m_totBytes, m_flowStart, nPauses, paused, stopped, onTicks,
                     lastSent>>
  BY DEF StartSending
<1>6. stop \in Event
  BY <1>2 DEF Event
<1>7. CASE MayScheduleNextTx(m_totBytes)
  <2>1. PICK send \in NextTx(m_residualBits) :
            /\ pending' = {send, stop} /\ m_sendEvent' = uid /\ on'
            /\ UNCHANGED <<m_residualBits, interruptions, socket, m_flowStop>>
    BY <1>1, <1>7 DEF StartSending
  <2>2. /\ send \in Event /\ send.what = "Send" /\ send.uid = uid /\ send.at >= now
        /\ send.at - now \in Truncated((PktBits - m_residualBits) * Second, BitRate)
    BY <1>2, NextTxFacts DEF IInv
  <2>3. send \in Event
    BY <2>2
  <2>4. TypeOK'
    <3>1. IsFiniteSet(pending')
      <4>1. IsFiniteSet({send})
        BY FS_Singleton
      <4>2. pending' = {send} \cup {stop}
        BY <2>1
      <4> QED
        BY <4>1, <4>2, FS_AddElement
    <3> QED
      BY <3>1, <2>1, <2>3, <1>2, <1>5, <1>6 DEF IInv, TypeOK
  <2>5. HeldEvents' /\ PendingHeld' /\ PendingShape' /\ SendDue'
    BY <2>1, <2>2, <1>2, <1>5 DEF HeldEvents, PendingHeld, PendingShape, SendDue
  <2>6. ~ LimitReached'
    BY <1>2, <1>5, <1>7 DEF MayScheduleNextTx, LimitReached, Unlimited
  <2>7. OnIsSending' /\ FlowOver' /\ ~ LimitReached
    BY <2>1, <2>2, <2>6, <1>5
    DEF IInv, OnIsSending, SendPending, FlowOver, LimitReached, Unlimited
  <2>8. BitsAccounted'
    BY <2>1, <1>2, <1>4, <1>5, AccountedNext
  <2>9. Quiet' /\ LimitRespected' /\ NotStarted'
    BY <2>1, <1>3, <1>5 DEF IInv, Quiet, LimitRespected, NotStarted, Unlimited
  <2> QED
    BY <2>4, <2>5, <2>7, <2>8, <2>9 DEF IInv
<1>8. CASE ~ MayScheduleNextTx(m_totBytes)
  <2>1. /\ pending' = Cancelled({}) \cup {stop} /\ m_sendEvent' = m_sendEvent
        /\ StopApp({}, m_residualBits, now)
    BY <1>1, <1>8 DEF StartSending
  <2>2. pending' = {stop}
    BY <2>1, AllCancelled
  <2>3. /\ m_residualBits' = m_residualBits /\ socket' = "closed" /\ on' = FALSE
        /\ m_flowStop' = IF m_flowStop = -1 THEN now ELSE m_flowStop
        /\ interruptions' = interruptions
    <3>1. interruptions \in Nat
      BY DEF IInv, TypeOK
    <3> QED
      BY <2>1, <3>1 DEF StopApp, KeepResidual, Residual, IsRunning
  <2>4. LimitReached /\ LimitReached'
    BY <1>2, <1>5, <1>8 DEF MayScheduleNextTx, LimitReached, Unlimited
  <2>5. m_flowStop = lastSent /\ lastSent # -1 /\ m_flowStop' = m_flowStop
    BY <2>3, <2>4 DEF IInv, FlowOver
  <2>6. TypeOK'
    <3>1. IsFiniteSet(pending')
      BY <2>2, FS_Singleton
    <3>2. on' \in BOOLEAN
      BY <2>3, Zenon
    <3> QED
      BY <3>1, <3>2, <2>1, <2>2, <2>3, <2>5, <1>2, <1>5, <1>6 DEF IInv, TypeOK
  <2>7. HeldEvents' /\ PendingHeld' /\ PendingShape' /\ SendDue'
    BY <2>1, <2>2, <1>2, <1>5
    DEF IInv, TypeOK, HeldEvents, PendingHeld, PendingShape, SendDue
  <2>8. OnIsSending' /\ FlowOver'
    BY <2>2, <2>3, <2>4, <2>5, <1>5 DEF OnIsSending, SendPending, FlowOver
  <2>9. BitsAccounted'
    <3>1. ~ IsRunning(pending, m_sendEvent)'
      BY <2>1, <2>2, <1>2 DEF IsRunning, IInv, HeldEvents, TypeOK
    <3> QED
      BY <3>1, <2>3, <1>2, <1>4, <1>5, AccountedNext
  <2>10. Quiet' /\ LimitRespected' /\ NotStarted'
    BY <2>3, <1>3, <1>5 DEF IInv, Quiet, LimitRespected, NotStarted, Unlimited
  <2> QED
    BY <2>6, <2>7, <2>8, <2>9, <2>10 DEF IInv
<1> QED
  BY <1>7, <1>8

\* The events are cancelled and the start of the next on period, at most, is
\* scheduled.
LEMMA PeriodEnds ==
    ASSUME IInv, NEW evs \in SUBSET pending, \A e \in pending \ evs : e.what # "Send",
           KeepResidual(evs, m_residualBits, m_lastStartTime),
           on' = FALSE,
           UNCHANGED <<now, m_lastStartTime, m_totBytes, onTicks>>,
           \/ pending' = {} /\ UNCHANGED <<uid, m_sendEvent, m_startStopEvent>>
           \/ ScheduleStartEvent({})
    PROVE  /\ pending' \subseteq Event /\ IsFiniteSet(pending')
           /\ uid' \in Nat \ {0}
           /\ m_sendEvent' \in 0 .. uid' /\ m_startStopEvent' \in 0 .. uid'
           /\ m_residualBits' \in 0 .. PktBits /\ on' \in BOOLEAN /\ interruptions' \in Nat
           /\ HeldEvents' /\ PendingHeld' /\ PendingShape' /\ SendDue' /\ BitsAccounted'
           /\ OnIsSending'
<1>1. /\ PktBits \in Nat /\ OffTime \in Nat /\ now \in Nat /\ uid \in Nat \ {0}
      /\ m_sendEvent \in 0 .. uid /\ m_startStopEvent \in 0 .. uid
      /\ m_totBytes \in Nat
  BY EvalAppAssumption DEF IInv, TypeOK
<1>2. /\ m_residualBits' \in 0 .. PktBits /\ interruptions' \in Nat
      /\ Within(Second * (PktBits * m_totBytes + m_residualBits'), 0, onTicks, m_totBytes,
                interruptions')
  BY ResidualValue
<1>3. on' \in BOOLEAN
  BY Zenon
<1>4. ASSUME \A e \in pending' : e.what # "Send" /\ e.uid # m_sendEvent',
             UNCHANGED <<now, m_lastStartTime, m_totBytes, onTicks>>
      PROVE  SendDue' /\ BitsAccounted' /\ OnIsSending'
  <2>1. ~ IsRunning(pending, m_sendEvent)' /\ ~ SendPending'
    BY <1>4 DEF IsRunning, SendPending
  <2>2. BitsAccounted'
    BY <1>2, <1>4, <2>1, AccountedNext
  <2>3. SendDue' /\ OnIsSending'
    BY <1>4, <2>1 DEF SendDue, OnIsSending
  <2> QED
    BY <2>2, <2>3
<1>5. CASE pending' = {} /\ UNCHANGED <<uid, m_sendEvent, m_startStopEvent>>
  <2>1. HeldEvents' /\ PendingHeld' /\ PendingShape'
    BY <1>5 DEF IInv, HeldEvents, PendingHeld, PendingShape
  <2>2. IsFiniteSet(pending')
    BY <1>5, FS_EmptySet
  <2> QED
    BY <1>1, <1>2, <1>3, <1>4, <1>5, <2>1, <2>2
<1>6. CASE ScheduleStartEvent({})
  <2> DEFINE start == [at |-> now + OffTime, uid |-> uid, what |-> "Start"]
  <2>1. /\ pending' = {start} /\ m_startStopEvent' = uid /\ uid' = uid + 1
        /\ m_sendEvent' = m_sendEvent
    BY <1>6 DEF ScheduleStartEvent
  <2>2. start \in Event
    BY <1>1 DEF Event
  <2>3. IsFiniteSet(pending')
    BY <2>1, FS_Singleton
  <2>4. HeldEvents' /\ PendingHeld' /\ PendingShape'
    BY <2>1, <1>1 DEF IInv, HeldEvents, PendingHeld, PendingShape
  <2>5. \A e \in pending' : e.what # "Send" /\ e.uid # m_sendEvent'
    BY <2>1, <1>1 DEF IInv, HeldEvents
  <2> QED
    BY <1>1, <1>2, <1>3, <1>4, <2>1, <2>2, <2>3, <2>4, <2>5
<1> QED
  BY <1>5, <1>6

LEMMA StopSendingInv ==
    ASSUME IInv, NEW e \in pending, StopSending(e)
    PROVE  IInv'
<1> DEFINE evs == pending \ {e}
<1>1. /\ KeepResidual(evs, m_residualBits, m_lastStartTime)
      /\ on' = FALSE /\ ScheduleStartEvent({}) /\ e.what = "Stop"
      /\ UNCHANGED <<now, m_lastStartTime, m_totBytes, socket, m_flowStart, m_flowStop,
                     nPauses, paused, stopped, onTicks, lastSent>>
  BY AllCancelled DEF StopSending
<1>2. \A f \in pending \ evs : f.what # "Send"
  BY <1>1
<1> HIDE DEF evs
<1>3. TypeOK' /\ HeldEvents' /\ PendingHeld' /\ PendingShape' /\ SendDue' /\ BitsAccounted'
      /\ OnIsSending'
  <2>1. evs \in SUBSET pending
    BY DEF evs
  <2> QED
    BY <1>1, <1>2, <2>1, PeriodEnds DEF IInv, TypeOK
<1>4. ~ paused /\ ~ stopped /\ socket # "new"
  BY DEF IInv, Quiet, NotStarted
<1>5. Quiet' /\ LimitRespected' /\ FlowOver' /\ NotStarted'
  BY <1>1, <1>4
  DEF IInv, Quiet, LimitRespected, FlowOver, NotStarted, LimitReached, Unlimited
<1> QED
  BY <1>3, <1>5 DEF IInv

LEMMA StartApplicationInv ==
    ASSUME IInv, StartApplication
    PROVE  IInv'
<1>1. pending = {} /\ ~ paused /\ ~ stopped
  BY DEF StartApplication, IInv, NotStarted
<1>2. ~ on
  BY <1>1 DEF IInv, OnIsSending, SendPending
<1>3. /\ KeepResidual(pending, m_residualBits, m_lastStartTime)
      /\ on' = FALSE /\ ScheduleStartEvent({})
      /\ socket' = "connected"
      /\ m_flowStart' = IF m_flowStart = -1 THEN now ELSE m_flowStart
      /\ UNCHANGED <<now, m_lastStartTime, m_totBytes, m_flowStop, nPauses, paused,
                     stopped, onTicks, lastSent>>
  BY <1>2, AllCancelled DEF StartApplication, IInv, TypeOK
<1>4. TypeOK' /\ HeldEvents' /\ PendingHeld' /\ PendingShape' /\ SendDue' /\ BitsAccounted'
      /\ OnIsSending'
  <2>1. m_flowStart' \in -1 .. now'
    BY <1>3 DEF IInv, TypeOK
  <2>2. /\ pending' \subseteq Event /\ IsFiniteSet(pending')
        /\ uid' \in Nat \ {0} /\ m_sendEvent' \in 0 .. uid' /\ m_startStopEvent' \in 0 .. uid'
        /\ m_residualBits' \in 0 .. PktBits /\ on' \in BOOLEAN /\ interruptions' \in Nat
        /\ HeldEvents' /\ PendingHeld' /\ PendingShape' /\ SendDue' /\ BitsAccounted'
        /\ OnIsSending'
    BY <1>3, PeriodEnds
  <2> QED
    BY <1>3, <2>1, <2>2 DEF IInv, TypeOK
<1>5. Quiet' /\ LimitRespected' /\ FlowOver' /\ NotStarted'
  BY <1>1, <1>3
  DEF IInv, Quiet, LimitRespected, FlowOver, NotStarted, LimitReached, Unlimited
<1> QED
  BY <1>4, <1>5 DEF IInv

LEMMA StopApplicationInv ==
    ASSUME IInv, StopApplication
    PROVE  IInv'
<1>1. /\ KeepResidual(pending, m_residualBits, m_lastStartTime)
      /\ on' = FALSE /\ pending' = {}
      /\ socket' = "closed" /\ stopped' = TRUE
      /\ m_flowStop' = IF m_flowStop = -1 THEN now ELSE m_flowStop
      /\ UNCHANGED <<now, uid, m_sendEvent, m_startStopEvent, m_lastStartTime, m_totBytes,
                     m_flowStart, nPauses, paused, onTicks, lastSent>>
  BY AllCancelled DEF StopApplication, StopApp
<1>2. stopped' \in BOOLEAN /\ stopped'
  BY <1>1, Zenon
<1>3. TypeOK' /\ HeldEvents' /\ PendingHeld' /\ PendingShape' /\ SendDue' /\ BitsAccounted'
      /\ OnIsSending'
  <2>1. pending' = {} /\ UNCHANGED <<uid, m_sendEvent, m_startStopEvent>>
    BY <1>1
  <2>2. /\ pending' \subseteq Event /\ IsFiniteSet(pending')
        /\ m_residualBits' \in 0 .. PktBits /\ on' \in BOOLEAN /\ interruptions' \in Nat
        /\ HeldEvents' /\ PendingHeld' /\ PendingShape' /\ SendDue' /\ BitsAccounted'
        /\ OnIsSending'
    BY <1>1, <2>1, PeriodEnds
  <2> QED
    BY <1>1, <1>2, <2>2 DEF IInv, TypeOK
<1>4. Quiet' /\ LimitRespected' /\ NotStarted'
  BY <1>1 DEF IInv, Quiet, LimitRespected, NotStarted, Unlimited
<1>5. FlowOver'
  BY <1>1, <1>2 DEF IInv, FlowOver, LimitReached, Unlimited
<1> QED
  BY <1>3, <1>4, <1>5 DEF IInv

LEMMA PauseInv ==
    ASSUME IInv, Pause
    PROVE  IInv'
<1>1. /\ KeepResidual(pending, m_residualBits, m_lastStartTime)
      /\ on' = FALSE /\ pending' = {}
      /\ socket # "new" /\ paused' = TRUE /\ nPauses' = nPauses + 1
      /\ nPauses < MaxPauses
      /\ UNCHANGED <<now, uid, m_sendEvent, m_startStopEvent, m_lastStartTime, m_totBytes,
                     socket, m_flowStart, m_flowStop, stopped, onTicks, lastSent>>
  BY AllCancelled DEF Pause
<1>2. paused' \in BOOLEAN
  BY <1>1, Zenon
<1>3. nPauses' \in 0 .. MaxPauses
  BY <1>1, EvalAppAssumption DEF IInv, TypeOK
<1>4. TypeOK' /\ HeldEvents' /\ PendingHeld' /\ PendingShape' /\ SendDue' /\ BitsAccounted'
      /\ OnIsSending'
  <2>1. pending' = {} /\ UNCHANGED <<uid, m_sendEvent, m_startStopEvent>>
    BY <1>1
  <2>2. /\ pending' \subseteq Event /\ IsFiniteSet(pending')
        /\ m_residualBits' \in 0 .. PktBits /\ on' \in BOOLEAN /\ interruptions' \in Nat
        /\ HeldEvents' /\ PendingHeld' /\ PendingShape' /\ SendDue' /\ BitsAccounted'
        /\ OnIsSending'
    BY <1>1, <2>1, PeriodEnds
  <2> QED
    BY <1>1, <1>2, <1>3, <2>2 DEF IInv, TypeOK
<1>5. Quiet' /\ LimitRespected' /\ FlowOver' /\ NotStarted'
  BY <1>1
  DEF IInv, Quiet, LimitRespected, FlowOver, NotStarted, LimitReached, Unlimited
<1> QED
  BY <1>4, <1>5 DEF IInv

LEMMA RestartInv ==
    ASSUME IInv, Restart
    PROVE  IInv'
<1>1. pending = {} /\ socket # "new"
  BY DEF Restart, IInv, Quiet, NotStarted
<1>2. ~ on
  BY <1>1 DEF IInv, OnIsSending, SendPending
<1>3. /\ on' = FALSE /\ ScheduleStartEvent({})
      /\ ~ stopped /\ paused' = FALSE
      /\ UNCHANGED <<now, m_residualBits, m_lastStartTime, m_totBytes, socket,
                     m_flowStart, m_flowStop, nPauses, stopped, onTicks, interruptions,
                     lastSent>>
  BY <1>1, <1>2 DEF Restart, IInv, TypeOK
<1>4. KeepResidual(pending, m_residualBits, m_lastStartTime)
  <2>1. interruptions \in Nat
    BY DEF IInv, TypeOK
  <2> QED
    BY <1>1, <1>3, <2>1 DEF KeepResidual, Residual, IsRunning
<1>5. paused' \in BOOLEAN /\ ~ paused'
  BY <1>3, Zenon
<1>6. TypeOK' /\ HeldEvents' /\ PendingHeld' /\ PendingShape' /\ SendDue' /\ BitsAccounted'
      /\ OnIsSending'
  BY <1>3, <1>4, <1>5, PeriodEnds DEF IInv, TypeOK
<1>7. Quiet' /\ LimitRespected' /\ FlowOver' /\ NotStarted'
  BY <1>1, <1>3, <1>5
  DEF IInv, Quiet, LimitRespected, FlowOver, NotStarted, LimitReached, Unlimited
<1> QED
  BY <1>6, <1>7 DEF IInv

\* A packet goes with the last of its bits: as many bits have passed since the
\* last one as the packet has, less the residual ones.
LEMMA SendPacketInv ==
    ASSUME IInv, NEW e \in pending, SendPacket(e)
    PROVE  IInv'
<1> DEFINE evs == pending \ {e}
<1>1. e.what = "Send" /\ e.at = now /\ e.uid = m_sendEvent /\ e \in Event
  BY DEF IInv, PendingHeld, SendPacket, IsNext, IsEarliest, TypeOK
<1>2. /\ PktBits \in Nat /\ Word \in Nat /\ Word > PktBits /\ PktBits > 0
      /\ MaxPackets \in Nat /\ now \in Nat /\ uid \in Nat \ {0} /\ m_totBytes \in Nat
      /\ m_residualBits \in 0 .. PktBits /\ m_lastStartTime \in 0 .. now
      /\ onTicks \in Nat
  BY EvalAppAssumption DEF IInv, TypeOK
<1>3. SendPending /\ IsRunning(pending, m_sendEvent)
  BY <1>1 DEF SendPending, IsRunning
<1>4. on /\ ~ LimitReached /\ m_flowStop = -1 /\ ~ paused /\ ~ stopped /\ socket # "new"
  BY <1>3 DEF IInv, OnIsSending, FlowOver, Quiet, NotStarted
<1>5. now - m_lastStartTime \in Truncated((PktBits - m_residualBits) * Second, BitRate)
  BY <1>1 DEF IInv, SendDue
<1>6. Within(Second * (PktBits * (m_totBytes + 1) + 0), 0, onTicks, m_totBytes + 1,
             interruptions)
  <2> DEFINE x == PktBits * m_totBytes
             delay == now - m_lastStartTime
  <2>1. Within(Second * (x + m_residualBits), BitRate * delay, onTicks, m_totBytes,
               interruptions)
    BY <1>3, AccountedIsWithin DEF IInv
  <2>2. x \in Nat /\ interruptions \in Nat
    BY <1>2 DEF IInv, TypeOK
  <2>3. PktBits * (m_totBytes + 1) + 0 = x + PktBits
    <3>1. PktBits * (m_totBytes + 1) = x + PktBits * 1 /\ PktBits * 1 = PktBits
      BY <1>2, Distributes
    <3> QED
      BY <1>2, <2>2, <3>1
  <2>4. Within(Second * (x + PktBits), 0, onTicks, m_totBytes + 1, interruptions)
    <3> HIDE DEF x, delay
    <3> QED
      BY <1>2, <1>5, <2>1, <2>2, SentBits DEF delay
  <2> QED
    BY <2>3, <2>4
<1>7. /\ m_totBytes' = m_totBytes + 1 /\ m_lastStartTime' = now /\ lastSent' = now
      /\ UNCHANGED <<now, m_startStopEvent, m_flowStart, nPauses, paused, stopped, onTicks>>
  BY DEF SendPacket
<1>8. \A f \in evs : f.what # "Send" /\ f \in Event /\ f.uid # m_sendEvent
  BY <1>1 DEF IInv, PendingShape, PendingHeld, TypeOK
<1>9. IsFiniteSet(evs)
  BY FS_RemoveElement DEF IInv, TypeOK
<1>10. ~ IsRunning(evs, m_sendEvent)
  BY <1>8 DEF IsRunning
<1>11. CASE MayScheduleNextTx(m_totBytes + 1)
  <2>1. PICK send \in NextTx(0) :
            /\ pending' = evs \cup {send} /\ m_sendEvent' = uid /\ uid' = uid + 1
            /\ m_residualBits' = 0
            /\ UNCHANGED <<interruptions, socket, m_flowStop, on>>
    BY <1>11 DEF SendPacket
  <2>2. /\ pending' = evs \cup {send}
        /\ send \in Event /\ send.what = "Send" /\ send.uid = uid /\ send.at >= now
        /\ send.at - now \in Truncated((PktBits - 0) * Second, BitRate)
    <3>1. 0 \in 0 .. PktBits
      BY <1>2
    <3> QED
      BY <2>1, <3>1, NextTxFacts DEF IInv
  <2>3. IsFiniteSet(pending')
    BY <1>9, <2>2, FS_AddElement
  <2>4. send \in Event
    BY <2>2
  <2>5. TypeOK'
    BY <1>2, <1>7, <1>8, <2>1, <2>2, <2>3, <2>4 DEF IInv, TypeOK
  <2>6. HeldEvents' /\ PendingHeld'
    BY <1>1, <1>2, <1>7, <1>8, <2>1, <2>2 DEF IInv, TypeOK, HeldEvents, PendingHeld
  <2>7. \A f \in evs : f.what # "Start"
    BY <1>1, <1>8 DEF IInv, PendingShape
  <2>8. PendingShape' /\ SendDue'
    <3>1. \A f \in evs : f.uid < uid
      BY <1>2, <1>8 DEF IInv, HeldEvents, PendingHeld, TypeOK
    <3>2. PendingShape'
      BY <1>2, <2>2, <2>7, <3>1 DEF IInv, PendingShape
    <3>3. SendDue'
      BY <1>2, <1>7, <1>8, <2>1, <2>2 DEF SendDue
    <3> QED
      BY <3>2, <3>3
  <2>9. ~ LimitReached'
    BY <1>2, <1>7, <1>11 DEF MayScheduleNextTx, LimitReached, Unlimited
  <2>10. OnIsSending' /\ FlowOver' /\ LimitRespected'
    <3>1. SendPending'
      <4>1. send \in pending' /\ send.what = "Send"
        BY <2>2
      <4> QED
        BY <4>1 DEF SendPending
    <3>2. on'
      BY <1>4, <2>1
    <3>3. m_flowStop' = -1
      BY <1>4, <2>1
    <3>4. LimitRespected'
      BY <1>2, <1>7, <2>9 DEF LimitRespected, LimitReached, Unlimited
    <3> QED
      BY <2>9, <3>1, <3>2, <3>3, <3>4 DEF OnIsSending, FlowOver
  <2>11. BitsAccounted'
    <3>1. Within(Second * (PktBits * m_totBytes' + m_residualBits'), 0, onTicks',
                 m_totBytes', interruptions')
      BY <1>6, <1>7, <2>1
    <3>2. now' \in Nat /\ m_lastStartTime' = now'
      BY <1>2, <1>7
    <3> QED
      BY <3>1, <3>2, AccountedNext
  <2>12. Quiet' /\ NotStarted'
    BY <1>4, <1>7, <2>1 DEF Quiet, NotStarted
  <2> QED
    BY <2>5, <2>6, <2>8, <2>10, <2>11, <2>12 DEF IInv
<1>12. CASE ~ MayScheduleNextTx(m_totBytes + 1)
  <2>1. /\ StopApp(evs, 0, now) /\ pending' = Cancelled(evs)
        /\ UNCHANGED <<uid, m_sendEvent>>
    BY <1>12 DEF SendPacket
  <2>2. /\ pending' = {} /\ m_residualBits' = 0 /\ socket' = "closed" /\ on' = FALSE
        /\ m_flowStop' = now /\ interruptions' = interruptions
    <3>1. interruptions \in Nat
      BY DEF IInv, TypeOK
    <3> QED
      BY <1>4, <1>10, <2>1, <3>1, AllCancelled DEF StopApp, KeepResidual, Residual
  <2>3. on' \in BOOLEAN
    BY <2>2, Zenon
  <2>4. IsFiniteSet(pending')
    BY <2>2, FS_EmptySet
  <2>5. TypeOK'
    BY <1>2, <1>7, <2>1, <2>2, <2>3, <2>4 DEF IInv, TypeOK
  <2>6. HeldEvents' /\ PendingHeld' /\ PendingShape' /\ SendDue' /\ Quiet' /\ NotStarted'
    BY <1>7, <2>1, <2>2
    DEF IInv, HeldEvents, PendingHeld, PendingShape, SendDue, Quiet, NotStarted
  <2>7. ~ SendPending' /\ ~ IsRunning(pending, m_sendEvent)'
    BY <2>2 DEF SendPending, IsRunning
  <2>8. OnIsSending' /\ BitsAccounted'
    <3>1. Within(Second * (PktBits * m_totBytes' + m_residualBits'), 0, onTicks',
                 m_totBytes', interruptions')
      BY <1>6, <1>7, <2>2
    <3> QED
      BY <2>2, <2>7, <3>1, AccountedNext DEF OnIsSending
  <2>9. LimitReached' /\ LimitRespected'
    BY <1>2, <1>4, <1>7, <1>12
    DEF MayScheduleNextTx, LimitReached, LimitRespected, Unlimited
  <2>10. FlowOver'
    BY <1>2, <1>7, <2>2, <2>9 DEF FlowOver
  <2> QED
    BY <2>5, <2>6, <2>8, <2>9, <2>10 DEF IInv
<1> QED
  BY <1>11, <1>12

\* No event becomes overdue, and a bit time of an on period is a bit of the
\* packet that is pending.
LEMMA TickInv ==
    ASSUME IInv, Tick
    PROVE  IInv'
<1>1. /\ now < Horizon /\ \A e \in pending : e.at > now
      /\ now' = now + 1 /\ onTicks' = onTicks + (IF on THEN 1 ELSE 0)
      /\ socket # "new"
      /\ UNCHANGED <<pending, uid, m_sendEvent, m_startStopEvent, m_residualBits,
                     m_lastStartTime, m_totBytes, socket, m_flowStart, m_flowStop,
                     nPauses, paused, stopped, on, interruptions, lastSent>>
  BY DEF Tick, eventVars
<1>2. TypeOK'
  BY <1>1, EvalAppAssumption DEF IInv, TypeOK
<1>3. PendingHeld'
  BY <1>1 DEF IInv, TypeOK, PendingHeld, Event
<1>4. HeldEvents' /\ PendingShape' /\ SendDue' /\ OnIsSending' /\ Quiet'
      /\ LimitRespected' /\ FlowOver' /\ NotStarted'
  BY <1>1 DEF IInv, HeldEvents, PendingShape, SendDue, OnIsSending, SendPending, Quiet,
              LimitRespected, FlowOver, NotStarted, LimitReached, Unlimited
<1>5. BitsAccounted'
  <2> DEFINE kept == Second * (PktBits * m_totBytes + m_residualBits)
             delta == now - m_lastStartTime
             running == IF IsRunning(pending, m_sendEvent) THEN BitRate * delta ELSE 0
  <2>1. /\ now \in Nat /\ m_lastStartTime \in Nat /\ onTicks \in Nat /\ m_totBytes \in Nat
        /\ interruptions \in Nat /\ m_residualBits \in Nat
        /\ BitRate \in Nat /\ Second \in Nat /\ PktBits \in Nat
    BY EvalAppAssumption DEF IInv, TypeOK
  <2>2. on <=> IsRunning(pending, m_sendEvent)
    BY RunningIsPending DEF IInv, OnIsSending, SendPending
  <2>3. IsRunning(pending, m_sendEvent)' <=> IsRunning(pending, m_sendEvent)
    BY <1>1 DEF IsRunning
  <2>4. Within(kept, running, onTicks, m_totBytes, interruptions)
    BY AccountedIsWithin DEF IInv
  <2>5. /\ BitRate * (delta + 1) = BitRate * delta + BitRate
        /\ BitRate * (onTicks + 1) = BitRate * onTicks + BitRate
        /\ now' - m_lastStartTime' = delta + 1
    <3>1. delta \in Int /\ BitRate * 1 = BitRate /\ now' - m_lastStartTime' = delta + 1
      BY <1>1, <2>1
    <3>2. /\ BitRate * (delta + 1) = BitRate * delta + BitRate * 1
          /\ BitRate * (onTicks + 1) = BitRate * onTicks + BitRate * 1
      BY <2>1, <3>1, Distributes
    <3> QED
      BY <3>1, <3>2
  <2>6. /\ PktBits * m_totBytes \in Int /\ BitRate * onTicks \in Int
        /\ BitRate * m_totBytes \in Int /\ Second * interruptions \in Int
        /\ BitRate * delta \in Int
    BY <2>1, ProductType
  <2>7. kept \in Int
    BY <2>1, <2>6, ProductType
  <2>8. CASE on
    <3>1. onTicks' = onTicks + 1
      BY <1>1, <2>1, <2>8
    <3>2. Within(kept, BitRate * delta, onTicks, m_totBytes, interruptions)
      BY <2>2, <2>4, <2>8
    <3>3. Within(kept, BitRate * (delta + 1), onTicks + 1, m_totBytes, interruptions)
      <4> HIDE DEF kept, delta
      <4> QED
        BY <2>1, <2>5, <2>6, <2>7, <3>2 DEF Within
    <3> QED
      BY <1>1, <2>2, <2>3, <2>5, <2>8, <3>1, <3>3 DEF BitsAccounted, Within
  <2>9. CASE ~ on
    <3>1. onTicks' = onTicks
      BY <1>1, <2>1, <2>9
    <3> QED
      BY <1>1, <2>2, <2>3, <2>4, <2>9, <3>1 DEF BitsAccounted, Within
  <2> QED
    BY <2>8, <2>9
<1> QED
  BY <1>2, <1>3, <1>4, <1>5 DEF IInv

LEMMA StepInv == IInv /\ [Next]_vars => IInv'
<1> SUFFICES ASSUME IInv, [Next]_vars PROVE IInv'
  OBVIOUS
<1>1. CASE UNCHANGED vars
  BY <1>1
  DEF vars, eventVars, IInv, TypeOK, HeldEvents, PendingHeld, PendingShape, SendDue,
      OnIsSending, SendPending, BitsAccounted, IsRunning, Quiet, LimitRespected, FlowOver,
      NotStarted, LimitReached, Unlimited
<1>2. ASSUME NEW e \in pending, StartSending(e) \/ StopSending(e) \/ SendPacket(e)
      PROVE  IInv'
  BY <1>2, StartSendingInv, StopSendingInv, SendPacketInv
<1>3. CASE StartApplication \/ StopApplication \/ Pause \/ Restart \/ Tick
  BY <1>3, StartApplicationInv, StopApplicationInv, PauseInv, RestartInv, TickInv
<1> QED
  BY <1>1, <1>2, <1>3 DEF Next

LEMMA Invariant == Spec => []IInv
BY InitInv, StepInv, PTL DEF Spec

-----------------------------------------------------------------------------
(* The properties *)

\* The residual bits never exceed a packet, so that the unsigned difference of
\* ScheduleNextTx never wraps; and the bits of the packets sent, the residual bits
\* and those of the pending packet are the bits of the on periods, up to a bit for
\* each packet that CancelEvents interrupted and a tick for each packet sent,
\* however the conversions between bits and time truncate.
THEOREM SendsAtItsRate == Spec => []Sending
<1>1. IInv => Sending
  BY DEF IInv, Sending
<1> QED
  BY <1>1, Invariant, PTL

\* No event escapes CancelEvents, and a flow that is paused or stopped has none.
THEOREM NoEventEscapes == Spec => []Stopping
<1>1. IInv => Stopping
  BY OnlyHeldEvents DEF IInv, Stopping
<1> QED
  BY <1>1, Invariant, PTL

\* No packet exceeds m_maxBytes, and the stop time the flow records is the time
\* of the packet that reached the limit, though StopApplication runs again.
THEOREM EndsAtItsLimit == Spec => []Ending
<1>1. IInv => Ending
  BY DEF IInv, Ending, FlowOver, CompletionTime, LimitReached
<1> QED
  BY <1>1, Invariant, PTL

-----------------------------------------------------------------------------
(* The driver: what is scheduled and what becomes of it *)

Trace == At(SimTime, Cardinality(Changes) + 1, "DestroyTrace")
End   == At(SimTime, Cardinality(Changes) + 2, "Stop")

Result == [aqm : Aqms, flowStop : [Flows -> -1 .. SimTime],
           rates : Seq([at : Nat, rate : {10, 100}])]

\* A pending event is one of CreateScenario and RunSimulation, or the stop of a flow.
EventsAsScheduled ==
    \A e \in pending : e \in Scheduled \/ (e.what = "FlowStop" /\ e.at = stops[e.flow])

\* One evaluation after the other: a simulation has its end ahead of it.
LoopInv ==
    /\ phase = "running" => End \in pending /\ i <= Len(m_AQM)
    /\ phase = "setup" => i = 1
    /\ phase = "done" => i = Len(m_AQM) + 1

\* An evaluation has its result once its traces are closed.
ResultsInOrder ==
    /\ phase = "running" => Len(results) = IF Trace \in pending THEN i - 1 ELSE i
    /\ phase # "running" => Len(results) = i - 1
    /\ \A j \in 1 .. Len(results) : results[j].aqm = m_AQM[j]

DriverInv ==
    /\ ScenarioTypeOK
    /\ stops \in [Flows -> StopTimes] /\ results \in Seq(Result)
    /\ EventsAsScheduled /\ LoopInv /\ ResultsInOrder

LEMMA ChangesCounted ==
    ASSUME NEW S \in SUBSET Changes
    PROVE  /\ IsFiniteSet(S) /\ Cardinality(S) \in Nat
           /\ Cardinality(S) <= Cardinality(Changes) /\ Cardinality(Changes) \in Nat
           /\ Cardinality(S) = Cardinality(Changes) => S = Changes
BY ScenarioAssumption, FS_Subset, FS_CardinalityType

LEMMA UidsOfChanges ==
    ASSUME NEW t \in Changes
    PROVE  ChangeUid(t) \in Nat /\ ChangeUid(t) <= Cardinality(Changes)
<1>1. {c \in Changes : c <= t} \in SUBSET Changes
  OBVIOUS
<1> QED
  BY <1>1, ChangesCounted DEF ChangeUid

LEMMA ScheduledEvents ==
    /\ Scheduled \subseteq ScenarioEvent
    /\ {At(0, 0, "Initialize"), Trace, End} \cup ChangeEvents = Scheduled
<1>1. Cardinality(Changes) \in Nat
  BY ChangesCounted
<1>2. ChangeEvents \subseteq ScenarioEvent
  BY UidsOfChanges, ScenarioAssumption DEF ChangeEvents, At, ScenarioEvent
<1> QED
  BY <1>1, <1>2, ScenarioAssumption DEF Scheduled, Trace, End, At, ScenarioEvent

\* What kind of event a pending event is, from what it does.
LEMMA EventShape ==
    ASSUME DriverInv, NEW e \in pending
    PROVE  /\ e \in ScenarioEvent /\ e.at \in Nat /\ e.uid \in Nat
           /\ e.what = "Initialize" => e = At(0, 0, "Initialize")
           /\ e.what = "Change" => e.at \in Changes /\ e = At(e.at, ChangeUid(e.at), "Change")
           /\ e.what = "DestroyTrace" => e = Trace
           /\ e.what = "Stop" => e = End
           /\ e.what = "FlowStop" => e.flow \in Flows /\ e.at = stops[e.flow]
<1>1. e \in ScenarioEvent
  BY DEF DriverInv, ScenarioTypeOK
<1>2. e.at \in Nat /\ e.uid \in Nat /\ (e.what = "FlowStop" => e.flow \in Flows)
  BY <1>1 DEF ScenarioEvent
<1>3. CASE e \in Scheduled
  <2>1. \/ e = At(0, 0, "Initialize") \/ e = Trace \/ e = End \/ e \in ChangeEvents
    BY <1>3, ScheduledEvents
  <2>2. CASE e \in ChangeEvents
    <3>1. PICK t \in Changes : e = At(t, ChangeUid(t), "Change")
      BY <2>2 DEF ChangeEvents
    <3>2. e.at = t /\ e.what = "Change"
      BY <3>1 DEF At
    <3> QED
      BY <1>1, <1>2, <3>1, <3>2
  <2>3. CASE e = At(0, 0, "Initialize") \/ e = Trace \/ e = End
    BY <1>1, <1>2, <2>3 DEF At, Trace, End
  <2> QED
    BY <2>1, <2>2, <2>3
<1>4. CASE e \notin Scheduled
  BY <1>1, <1>2, <1>4 DEF DriverInv, EventsAsScheduled
<1> QED
  BY <1>3, <1>4

\* The simulation does not run past its end, at which it closes its traces first
\* and stops last.
LEMMA EarliestEvent ==
    ASSUME DriverInv, phase = "running", NEW e, IsEarliest(e)
    PROVE  /\ e \in pending /\ e.at \in 0 .. SimTime
           /\ e.what = "Stop" => Trace \notin pending
<1>1. e \in pending
  BY DEF IsEarliest
<1>2. e.at \in Nat /\ (e.what = "Stop" => e = End)
  BY <1>1, EventShape
<1>3. End \in pending /\ Cardinality(Changes) \in Nat /\ SimTime \in Nat
  BY ChangesCounted, ScenarioAssumption DEF DriverInv, LoopInv
<1>4. End.at = SimTime /\ End.uid = Cardinality(Changes) + 2
      /\ Trace.at = SimTime /\ Trace.uid = Cardinality(Changes) + 1
  BY DEF End, Trace, At
<1>5. e.at <= SimTime
  BY <1>2, <1>3, <1>4 DEF IsEarliest
<1>6. ASSUME e = End, Trace \in pending
      PROVE  FALSE
  BY <1>3, <1>4, <1>6 DEF IsEarliest
<1> QED
  BY <1>1, <1>2, <1>3, <1>5, <1>6


LEMMA DriverInit == ScenarioInit => DriverInv
<1> SUFFICES ASSUME ScenarioInit PROVE DriverInv
  OBVIOUS
<1>1. m_AQM \in Seq(Aqms) /\ inside \in Additions /\ listed \in Seq(Aqms)
  <2>1. ToSet(Builtin) \subseteq Aqms
    BY DEF Aqms
  <2> QED
    BY <2>1, ScenarioAssumption DEF ScenarioInit
<1>2. flowStop \in [Flows -> -1 .. SimTime]
  BY ScenarioAssumption DEF ScenarioInit
<1>3. m_state \in BOOLEAN /\ rates \in Seq([at : Nat, rate : {10, 100}])
      /\ results \in Seq(Result) /\ results = <<>>
  BY DEF ScenarioInit
<1>4. ScenarioTypeOK
  BY <1>1, <1>2, <1>3, ScenarioAssumption DEF ScenarioInit, ScenarioTypeOK
<1> QED
  BY <1>1, <1>3, <1>4 DEF ScenarioInit, DriverInv, EventsAsScheduled, LoopInv, ResultsInOrder

LEMMA AddAqmInv ==
    ASSUME DriverInv, NEW b \in Extra, addAQM(b)
    PROVE  DriverInv'
<1>1. m_AQM' \in Seq(Aqms) /\ Len(m_AQM') = Len(m_AQM) + 1 /\ i = 1
      /\ \A j \in 1 .. Len(m_AQM) : m_AQM'[j] = m_AQM[j]
  BY DEF addAQM, Aqms, DriverInv, ScenarioTypeOK, LoopInv
<1>2. phase = "setup" /\ results = <<>>
  BY DEF addAQM, DriverInv, ResultsInOrder, LoopInv
<1>3. ScenarioTypeOK'
  BY <1>1 DEF addAQM, DriverInv, ScenarioTypeOK, ScenarioEvent, Flows
<1> QED
  BY <1>1, <1>2, <1>3
  DEF addAQM, DriverInv, EventsAsScheduled, LoopInv, ResultsInOrder

LEMMA RunSimulationInv ==
    ASSUME DriverInv, RunSimulation \/ RunReturns
    PROVE  DriverInv'
<1>1. /\ UNCHANGED <<m_AQM, inside, i, now, uid, pending, stops, flowStop, m_state,
                     linkRate, rates, results>>
      /\ listed' \in {listed, m_AQM}
      /\ \/ phase = "setup" /\ phase' = "loop"
         \/ phase = "loop" /\ i > Len(m_AQM) /\ phase' = "done"
  BY DEF RunSimulation, RunReturns, aqmVars
<1>2. ScenarioTypeOK'
  BY <1>1 DEF DriverInv, ScenarioTypeOK
<1>3. LoopInv'
  BY <1>1 DEF DriverInv, LoopInv, ScenarioTypeOK
<1> QED
  BY <1>1, <1>2, <1>3 DEF DriverInv, EventsAsScheduled, ResultsInOrder

\* What CreateScenario adds.
LEMMA AddedAqms ==
    ASSUME inside \in Additions
    PROVE  inside \in Seq(Aqms)
<1>1. inside \in Seq(ToSet(inside)) /\ ToSet(inside) \subseteq Aqms
  BY ScenarioAssumption DEF Aqms
<1> QED
  BY <1>1

LEMMA BeginEvaluationInv ==
    ASSUME DriverInv, BeginEvaluation
    PROVE  DriverInv'
<1>1. /\ m_AQM' \in Seq(Aqms) /\ Len(m_AQM') >= Len(m_AQM) /\ Len(m_AQM') \in Nat
      /\ \A j \in 1 .. Len(m_AQM) : m_AQM'[j] = m_AQM[j]
  <2>1. m_AQM \in Seq(Aqms)
    BY DEF DriverInv, ScenarioTypeOK
  <2>2. m_AQM' = m_AQM \o inside /\ inside \in Seq(Aqms)
    BY AddedAqms DEF BeginEvaluation, DriverInv, ScenarioTypeOK
  <2> QED
    BY <2>1, <2>2, ConcatProperties
<1>2. /\ Trace \in pending' /\ End \in pending' /\ pending' = Scheduled
      /\ pending' \subseteq ScenarioEvent
  BY ScheduledEvents DEF BeginEvaluation
<1>3. /\ phase = "loop" /\ i <= Len(m_AQM) /\ phase' = "running"
      /\ flowStop' = [f \in Flows |-> -1] /\ linkRate' = 100 /\ rates' = <<>>
      /\ UNCHANGED <<inside, listed, i, now, stops, m_state, results>>
      /\ uid' = Cardinality(Changes) + 3
  BY DEF BeginEvaluation
<1>4. flowStop' \in [Flows -> -1 .. SimTime] /\ uid' \in Nat
      /\ rates' \in Seq([at : Nat, rate : {10, 100}])
  BY <1>3, ScenarioAssumption, ChangesCounted
<1>5. i \in 1 .. Len(m_AQM) + 1 /\ Len(m_AQM) \in Nat
  BY DEF DriverInv, ScenarioTypeOK
<1>6. i' \in 1 .. Len(m_AQM') + 1 /\ i' <= Len(m_AQM')
  BY <1>1, <1>3, <1>5
<1>7. ScenarioTypeOK'
  BY <1>1, <1>2, <1>3, <1>4, <1>6 DEF DriverInv, ScenarioTypeOK
<1>8. ResultsInOrder'
  <2>1. Len(results) = i - 1 /\ \A j \in 1 .. Len(results) : results[j].aqm = m_AQM[j]
    BY <1>3 DEF DriverInv, ResultsInOrder
  <2>2. \A j \in 1 .. Len(results) : j \in 1 .. Len(m_AQM)
    BY <1>5, <2>1
  <2>3. \A j \in 1 .. Len(results) : results[j].aqm = m_AQM'[j]
    BY <1>1, <2>1, <2>2
  <2> QED
    BY <1>2, <1>3, <2>1, <2>3 DEF ResultsInOrder
<1> QED
  BY <1>2, <1>3, <1>6, <1>7, <1>8 DEF DriverInv, EventsAsScheduled, LoopInv

\* An event that neither closes the traces nor ends the simulation.
LEMMA EventInv ==
    ASSUME DriverInv, NEW e, Executes(e),
           Initialize(e) \/ ChangeDataRate(e) \/ FlowStops(e)
    PROVE  DriverInv'
<1>1. /\ phase = "running" /\ IsEarliest(e) /\ now' = e.at
      /\ UNCHANGED <<m_AQM, inside, listed, i, phase, stops, results>>
      /\ e.what \in {"Initialize", "Change", "FlowStop"}
  BY DEF Executes, Initialize, ChangeDataRate, FlowStops, aqmVars
<1>2. e \in pending /\ e.at \in 0 .. SimTime
  BY <1>1, EarliestEvent
<1>3. Trace # e /\ End # e
  BY <1>1 DEF Trace, End, At
<1>4. /\ \A d \in pending' : d \in pending \/
             (d \in ScenarioEvent /\ d.what = "FlowStop" /\ d.at = stops[d.flow])
      /\ pending \ {e} \subseteq pending'
      /\ uid' \in Nat
  <2>1. CASE Initialize(e)
    <3> DEFINE stopOf(f) == [at |-> stops[f], uid |-> uid + f - 1, what |-> "FlowStop",
                             flow |-> f]
    <3>1. pending' = (pending \ {e}) \cup {stopOf(f) : f \in Flows} /\ uid' = uid + nflow
      BY <2>1 DEF Initialize
    <3>2. uid \in Nat /\ nflow \in Nat
      BY ScenarioAssumption DEF DriverInv, ScenarioTypeOK
    <3>3. ASSUME NEW f \in Flows
          PROVE  stopOf(f) \in ScenarioEvent /\ stopOf(f).what = "FlowStop"
                 /\ stopOf(f).at = stops[stopOf(f).flow]
      <4>1. stops[f] \in Nat /\ uid + f - 1 \in Nat
        <5>1. stops[f] \in Nat
          BY ScenarioAssumption DEF DriverInv
        <5>2. f \in Nat /\ f >= 1
          BY <3>2 DEF Flows
        <5> QED
          BY <3>2, <5>1, <5>2
      <4> QED
        BY <4>1 DEF ScenarioEvent
    <3> HIDE DEF stopOf
    <3> QED
      BY <3>1, <3>2, <3>3
  <2>2. CASE ChangeDataRate(e) \/ FlowStops(e)
    BY <2>2 DEF ChangeDataRate, FlowStops, DriverInv, ScenarioTypeOK
  <2> QED
    BY <2>1, <2>2
<1>5. End \in pending' /\ (Trace \in pending' <=> Trace \in pending)
  <2>1. Trace.what = "DestroyTrace"
    BY DEF Trace, At
  <2> QED
    BY <1>1, <1>3, <1>4, <2>1 DEF DriverInv, LoopInv
<1>6. pending' \subseteq ScenarioEvent /\ EventsAsScheduled'
  <2>1. Scheduled' = Scheduled
    BY DEF Scheduled, ChangeEvents, ChangeUid, At
  <2> QED
    BY <1>1, <1>4, <2>1 DEF DriverInv, ScenarioTypeOK, EventsAsScheduled
<1>7. flowStop' \in [Flows -> -1 .. SimTime]
  <2>1. CASE FlowStops(e)
    <3>1. flowStop' = [flowStop EXCEPT ![e.flow] = e.at] /\ e.flow \in Flows
      BY <1>2, <2>1, EventShape DEF FlowStops
    <3>2. e.at \in -1 .. SimTime
      BY <1>2
    <3> QED
      BY <3>1, <3>2 DEF DriverInv, ScenarioTypeOK
  <2>2. CASE Initialize(e) \/ ChangeDataRate(e)
    BY <2>2 DEF Initialize, ChangeDataRate, DriverInv, ScenarioTypeOK
  <2> QED
    BY <2>1, <2>2
<1>8. /\ m_state' \in BOOLEAN /\ linkRate' \in {10, 100}
      /\ rates' \in Seq([at : Nat, rate : {10, 100}])
  <2>1. CASE ChangeDataRate(e)
    <3>1. m_state' \in BOOLEAN
      BY <2>1, Zenon DEF ChangeDataRate
    <3>2. linkRate' \in {10, 100} /\ rates' = Append(rates, [at |-> e.at, rate |-> linkRate'])
      BY <2>1 DEF ChangeDataRate
    <3>3. [at |-> e.at, rate |-> linkRate'] \in [at : Nat, rate : {10, 100}]
      BY <1>2, <3>2, ScenarioAssumption
    <3> QED
      BY <3>1, <3>2, <3>3 DEF DriverInv, ScenarioTypeOK
  <2>2. CASE Initialize(e) \/ FlowStops(e)
    BY <2>2 DEF Initialize, FlowStops, DriverInv, ScenarioTypeOK
  <2> QED
    BY <2>1, <2>2
<1>9. ScenarioTypeOK'
  BY <1>1, <1>2, <1>4, <1>6, <1>7, <1>8 DEF DriverInv, ScenarioTypeOK
<1> QED
  BY <1>1, <1>5, <1>6, <1>9 DEF DriverInv, LoopInv, ResultsInOrder

\* The traces are closed once in an evaluation, and make its result.
LEMMA DestroyTraceInv ==
    ASSUME DriverInv, NEW e, DestroyTrace(e)
    PROVE  /\ DriverInv'
           /\ results' = Append(results, [aqm |-> m_AQM[i], flowStop |-> flowStop, rates |-> rates])
           /\ Len(results) = i - 1 /\ Len(results') = i
<1> DEFINE r == [aqm |-> m_AQM[i], flowStop |-> flowStop, rates |-> rates]
<1>1. /\ phase = "running" /\ IsEarliest(e) /\ now' = e.at /\ e.what = "DestroyTrace"
      /\ results' = Append(results, r) /\ pending' = pending \ {e}
      /\ UNCHANGED <<m_AQM, inside, listed, i, phase, uid, stops, flowStop, m_state,
                     linkRate, rates>>
  BY DEF DestroyTrace, Executes, aqmVars
<1>2. e \in pending /\ e.at \in 0 .. SimTime /\ e = Trace
  BY <1>1, EarliestEvent, EventShape
<1>3. i \in 1 .. Len(m_AQM) /\ m_AQM \in Seq(Aqms)
  BY <1>1 DEF DriverInv, ScenarioTypeOK, LoopInv
<1>4. r \in Result /\ r.aqm = m_AQM[i]
  BY <1>3 DEF DriverInv, ScenarioTypeOK, Result
<1> HIDE DEF r
<1>5. results \in Seq(Result) /\ Len(results) = i - 1
  BY <1>1, <1>2 DEF DriverInv, ResultsInOrder
<1>6. /\ results' \in Seq(Result) /\ Len(results') = i
      /\ \A j \in 1 .. Len(results') : results'[j].aqm = m_AQM[j]
  <2>1. /\ results' \in Seq(Result) /\ Len(results') = i
        /\ \A j \in 1 .. i : results'[j] = IF j <= i - 1 THEN results[j] ELSE r
    BY <1>1, <1>3, <1>4, <1>5, AppendProperties
  <2>2. ASSUME NEW j \in 1 .. i
        PROVE  results'[j].aqm = m_AQM[j]
    <3>1. i \in Nat
      BY <1>3
    <3>2. CASE j = i
      <4>1. results'[j] = r
        BY <2>1, <3>1, <3>2
      <4> QED
        BY <1>4, <3>2, <4>1
    <3>3. CASE j # i
      <4>1. j <= i - 1 /\ j \in 1 .. Len(results)
        BY <1>5, <3>1, <3>3
      <4>2. results'[j] = results[j] /\ results[j].aqm = m_AQM[j]
        BY <2>1, <4>1 DEF DriverInv, ResultsInOrder
      <4> QED
        BY <4>2
    <3> QED
      BY <3>2, <3>3
  <2> QED
    BY <2>1, <2>2
<1>7. End \in pending' /\ Trace \notin pending'
  BY <1>1, <1>2 DEF DriverInv, LoopInv, End, Trace, At
<1>8. ScenarioTypeOK'
  BY <1>1, <1>2 DEF DriverInv, ScenarioTypeOK
<1>9. DriverInv'
  BY <1>1, <1>6, <1>7, <1>8 DEF DriverInv, EventsAsScheduled, LoopInv, ResultsInOrder
<1> QED
  BY <1>1, <1>5, <1>6, <1>9 DEF r

LEMMA StopInv ==
    ASSUME DriverInv, NEW e, Stop(e)
    PROVE  DriverInv'
<1>1. /\ phase = "running" /\ IsEarliest(e) /\ e.what = "Stop"
      /\ now' = 0 /\ pending' = {} /\ uid' = 0 /\ i' = i + 1 /\ phase' = "loop"
      /\ UNCHANGED <<m_AQM, inside, listed, stops, flowStop, m_state, linkRate, rates, results>>
  BY DEF Stop, aqmVars
<1>2. Trace \notin pending
  BY <1>1, EarliestEvent
<1>3. i \in 1 .. Len(m_AQM) /\ m_AQM \in Seq(Aqms) /\ Len(results) = i
  BY <1>1, <1>2 DEF DriverInv, ScenarioTypeOK, LoopInv, ResultsInOrder
<1>4. ScenarioTypeOK'
  BY <1>1, <1>3, ScenarioAssumption DEF DriverInv, ScenarioTypeOK
<1> QED
  BY <1>1, <1>3, <1>4 DEF DriverInv, EventsAsScheduled, LoopInv, ResultsInOrder

LEMMA DriverStep == DriverInv /\ [ScenarioNext]_scenarioVars => DriverInv'
<1> SUFFICES ASSUME DriverInv, [ScenarioNext]_scenarioVars PROVE DriverInv'
  OBVIOUS
<1>1. CASE UNCHANGED scenarioVars
  BY <1>1
  DEF scenarioVars, aqmVars, DriverInv, ScenarioTypeOK, EventsAsScheduled, LoopInv, ResultsInOrder
<1>2. ASSUME NEW e \in pending, Initialize(e) \/ ChangeDataRate(e) \/ FlowStops(e)
      PROVE  DriverInv'
  <2>1. Executes(e)
    BY <1>2 DEF Initialize, ChangeDataRate, FlowStops
  <2> QED
    BY <1>2, <2>1, EventInv
<1>3. ASSUME NEW e \in pending, DestroyTrace(e) \/ Stop(e)
      PROVE  DriverInv'
  BY <1>3, DestroyTraceInv, StopInv
<1>4. CASE RunSimulation \/ BeginEvaluation \/ RunReturns \/ \E b \in Extra : addAQM(b)
  BY <1>4, AddAqmInv, RunSimulationInv, BeginEvaluationInv
<1> QED
  BY <1>1, <1>2, <1>3, <1>4 DEF ScenarioNext

LEMMA DriverInvariant == ScenarioSpec => []DriverInv
BY DriverInit, DriverStep, PTL DEF ScenarioSpec

-----------------------------------------------------------------------------
(* The driver: each AQM is evaluated once *)

\* The list grows with each evaluation if CreateScenario adds to it, and it is the
\* one that RunSimulation was called with if not.
ListInv ==
    /\ Len(m_AQM) > 0
    /\ phase # "setup" /\ inside = <<>> => m_AQM = listed
    /\ phase # "running" /\ inside # <<>> => Len(m_AQM) >= i
    /\ phase = "running" /\ inside # <<>> => Len(m_AQM) >= i + 1

LEMMA ListInit == ScenarioInit => ListInv
BY ScenarioAssumption DEF ScenarioInit, ListInv

LEMMA ListStep ==
    ASSUME DriverInv, ListInv, [ScenarioNext]_scenarioVars
    PROVE  ListInv'
<1>1. /\ m_AQM \in Seq(Aqms) /\ inside \in Seq(Aqms) /\ Len(m_AQM) \in Nat
      /\ i \in Nat /\ (phase = "setup" => i = 1)
  BY AddedAqms DEF DriverInv, ScenarioTypeOK, LoopInv
<1>2. ASSUME NEW b \in Extra, addAQM(b)
      PROVE  ListInv'
  <2>1. phase = "setup" /\ phase' = "setup" /\ UNCHANGED <<inside, i>>
        /\ Len(m_AQM') = Len(m_AQM) + 1
    BY <1>1, <1>2 DEF addAQM
  <2> QED
    BY <1>1, <2>1 DEF ListInv
<1>3. CASE RunSimulation
  BY <1>1, <1>3 DEF RunSimulation, ListInv
<1>4. CASE BeginEvaluation
  <2>1. /\ phase = "loop" /\ phase' = "running" /\ m_AQM' = m_AQM \o inside
        /\ UNCHANGED <<inside, listed, i>>
    BY <1>4 DEF BeginEvaluation
  <2>2. CASE inside = <<>>
    <3>1. m_AQM' = m_AQM
      BY <1>1, <2>1, <2>2, ConcatEmptySeq
    <3> QED
      BY <2>1, <2>2, <3>1 DEF ListInv
  <2>3. CASE inside # <<>>
    <3>1. Len(m_AQM') = Len(m_AQM) + Len(inside) /\ Len(inside) \in Nat /\ Len(inside) # 0
      BY <1>1, <2>1, <2>3, ConcatProperties, EmptySeq
    <3>2. Len(m_AQM) >= i
      BY <2>1, <2>3 DEF ListInv
    <3>3. Len(m_AQM') >= i + 1 /\ Len(m_AQM') > 0
      BY <1>1, <3>1, <3>2 DEF ListInv
    <3> QED
      BY <2>1, <2>3, <3>3 DEF ListInv
  <2> QED
    BY <2>2, <2>3
<1>5. CASE RunReturns
  <2>1. phase = "loop" /\ phase' = "done" /\ UNCHANGED <<m_AQM, inside, listed, i>>
    BY <1>5 DEF RunReturns, aqmVars
  <2> QED
    BY <2>1 DEF ListInv
<1>6. ASSUME NEW e \in pending, Stop(e)
      PROVE  ListInv'
  <2>1. /\ phase = "running" /\ phase' = "loop" /\ i' = i + 1
        /\ UNCHANGED <<m_AQM, inside, listed>>
    BY <1>6 DEF Stop, aqmVars
  <2> QED
    BY <1>1, <2>1 DEF ListInv
<1>7. ASSUME UNCHANGED <<m_AQM, inside, listed, i, phase>>
      PROVE  ListInv'
  BY <1>7 DEF ListInv
<1>8. CASE UNCHANGED scenarioVars
  BY <1>7, <1>8 DEF scenarioVars, aqmVars
<1>9. ASSUME NEW e \in pending,
             Initialize(e) \/ ChangeDataRate(e) \/ FlowStops(e) \/ DestroyTrace(e)
      PROVE  ListInv'
  BY <1>7, <1>9
  DEF Executes, Initialize, ChangeDataRate, FlowStops, DestroyTrace, aqmVars
<1> QED
  BY <1>2, <1>3, <1>4, <1>5, <1>6, <1>8, <1>9 DEF ScenarioNext

\* RunSimulation evaluates the AQMs in the order of the list.  If CreateScenario
\* adds none it returns when each entry has been evaluated once; if it adds some,
\* the loop, which reads their number again each time, never catches up with the
\* list, and RunSimulation never returns.
THEOREM EachAqmIsEvaluatedOnce == ScenarioSpec => []EachAqmOnce
<1>1. DriverInv /\ ListInv /\ [ScenarioNext]_scenarioVars => ListInv'
  BY ListStep
<1>2. DriverInv /\ ListInv => EachAqmOnce
  <2> SUFFICES ASSUME DriverInv, ListInv PROVE EachAqmOnce
    OBVIOUS
  <2>1. Len(m_AQM) \in Nat /\ i \in Nat
    BY DEF DriverInv, ScenarioTypeOK
  <2>2. ASSUME phase = "done"
        PROVE  i = Len(m_AQM) + 1 /\ Len(results) = Len(m_AQM)
    BY <2>1, <2>2 DEF DriverInv, ResultsInOrder, LoopInv
  <2>3. ASSUME phase = "done"
        PROVE  inside = <<>> /\ m_AQM = listed
    BY <2>1, <2>2, <2>3 DEF ListInv
  <2> QED
    BY <2>2, <2>3 DEF EachAqmOnce, DriverInv, ResultsInOrder
<1> QED
  BY <1>1, <1>2, ListInit, DriverInvariant, PTL DEF ScenarioSpec

-----------------------------------------------------------------------------
(* The driver: the completion times are complete *)

\* Every flow is to stop before the simulation ends.
StopsInTime == \A t \in StopTimes : t < SimTime

StopPending(f) == \E d \in pending : d.what = "FlowStop" /\ d.flow = f

\* A flow has its completion time, or the event that sets it is still to come.
FlowsWillStop ==
    phase = "running" =>
        \A f \in Flows : \/ flowStop[f] = stops[f]
                         \/ StopPending(f)
                         \/ At(0, 0, "Initialize") \in pending

ResultsComplete ==
    \A j \in 1 .. Len(results) : \A f \in Flows : results[j].flowStop[f] = stops[f]

FlowsInv == FlowsWillStop /\ ResultsComplete

LEMMA FlowsInit == ScenarioInit => FlowsInv
BY DEF ScenarioInit, FlowsInv, FlowsWillStop, ResultsComplete

\* When the traces are closed nothing that was scheduled earlier is left.
LEMMA FlowsStoppedAtTrace ==
    ASSUME StopsInTime, DriverInv, FlowsInv, NEW e, DestroyTrace(e), NEW f \in Flows
    PROVE  flowStop[f] = stops[f]
<1>1. phase = "running" /\ IsEarliest(e) /\ e = Trace
  BY EarliestEvent, EventShape DEF DestroyTrace, Executes
<1>2. Trace.at = SimTime /\ Trace.uid = Cardinality(Changes) + 1
      /\ SimTime \in Nat /\ Cardinality(Changes) \in Nat
  BY ChangesCounted, ScenarioAssumption DEF Trace, At
<1>3. At(0, 0, "Initialize") \notin pending
  <2>1. At(0, 0, "Initialize").at = 0 /\ At(0, 0, "Initialize").uid = 0
    BY DEF At
  <2> QED
    BY <1>1, <1>2, <2>1 DEF IsEarliest
<1>4. ASSUME NEW d \in pending, d.what = "FlowStop", d.flow = f
      PROVE  FALSE
  <2>1. d.at = stops[f] /\ d.at \in Nat
    BY <1>4, EventShape
  <2>2. stops[f] < SimTime
    BY DEF StopsInTime, DriverInv
  <2> QED
    BY <1>1, <1>2, <2>1, <2>2 DEF IsEarliest
<1> QED
  BY <1>1, <1>3, <1>4 DEF FlowsInv, FlowsWillStop, StopPending

LEMMA FlowsStep ==
    ASSUME StopsInTime, DriverInv, FlowsInv, [ScenarioNext]_scenarioVars
    PROVE  FlowsInv'
<1>1. ASSUME NEW e, DestroyTrace(e)
      PROVE  FlowsInv'
  <2> DEFINE r == [aqm |-> m_AQM[i], flowStop |-> flowStop, rates |-> rates]
  <2>1. /\ results' = Append(results, r) /\ results \in Seq(Result)
        /\ Len(results) = i - 1 /\ Len(results') = i /\ i \in Nat
        /\ UNCHANGED <<phase, stops, flowStop>>
    BY <1>1, DestroyTraceInv DEF DestroyTrace, DriverInv, ScenarioTypeOK
  <2>2. \A f \in Flows : flowStop[f] = stops[f]
    BY <1>1, FlowsStoppedAtTrace
  <2>3. r.flowStop = flowStop
    OBVIOUS
  <2> HIDE DEF r
  <2>4. \A j \in 1 .. i : results'[j] = IF j <= i - 1 THEN results[j] ELSE r
    BY <2>1, AppendProperties
  <2>5. \A j \in 1 .. i : \A f \in Flows : results'[j].flowStop[f] = stops[f]
    BY <2>1, <2>2, <2>3, <2>4 DEF FlowsInv, ResultsComplete
  <2> QED
    BY <2>1, <2>2, <2>5 DEF FlowsInv, FlowsWillStop, ResultsComplete
<1>2. ASSUME UNCHANGED <<results, stops>>
      PROVE  ResultsComplete'
  BY <1>2 DEF FlowsInv, ResultsComplete
<1>3. ASSUME NEW e \in pending, Initialize(e)
      PROVE  FlowsInv'
  <2> DEFINE stopOf(f) == [at |-> stops[f], uid |-> uid + f - 1, what |-> "FlowStop",
                           flow |-> f]
  <2>1. pending' = (pending \ {e}) \cup {stopOf(f) : f \in Flows}
        /\ UNCHANGED <<results, stops>>
    BY <1>3 DEF Initialize
  <2>2. \A f \in Flows : stopOf(f) \in pending'
    BY <2>1
  <2>3. \A f \in Flows : StopPending(f)'
    BY <2>2 DEF StopPending
  <2> QED
    BY <1>2, <2>1, <2>3 DEF FlowsInv, FlowsWillStop
<1>4. ASSUME NEW e \in pending, ChangeDataRate(e) \/ FlowStops(e)
      PROVE  FlowsInv'
  <2>1. /\ phase = "running" /\ pending' = pending \ {e} /\ UNCHANGED <<results, stops>>
        /\ e.what # "Initialize"
    BY <1>4 DEF ChangeDataRate, FlowStops, Executes
  <2>2. ASSUME NEW f \in Flows
        PROVE  \/ flowStop'[f] = stops[f]
               \/ StopPending(f)'
               \/ At(0, 0, "Initialize") \in pending'
    <3>1. CASE At(0, 0, "Initialize") \in pending
      BY <2>1, <3>1 DEF At
    <3>2. CASE e.what = "FlowStop" /\ e.flow = f
      <4>1. flowStop' = [flowStop EXCEPT ![f] = e.at] /\ e.at = stops[f]
        BY <1>4, <3>2, EventShape DEF ChangeDataRate, FlowStops
      <4> QED
        BY <4>1 DEF DriverInv, ScenarioTypeOK
    <3>3. CASE StopPending(f) /\ ~ (e.what = "FlowStop" /\ e.flow = f)
      BY <2>1, <3>3 DEF StopPending
    <3>4. CASE flowStop[f] = stops[f] /\ ~ (e.what = "FlowStop" /\ e.flow = f)
      BY <1>4, <3>4 DEF ChangeDataRate, FlowStops, DriverInv, ScenarioTypeOK
    <3> QED
      BY <2>1, <3>1, <3>2, <3>3, <3>4 DEF FlowsInv, FlowsWillStop
  <2> QED
    BY <1>2, <2>1, <2>2 DEF FlowsInv, FlowsWillStop
<1>5. CASE BeginEvaluation
  <2>1. At(0, 0, "Initialize") \in pending' /\ UNCHANGED <<results, stops>>
    BY <1>5, ScheduledEvents DEF BeginEvaluation
  <2> QED
    BY <1>2, <2>1 DEF FlowsInv, FlowsWillStop
<1>6. CASE RunSimulation \/ RunReturns \/ (\E b \in Extra : addAQM(b)) \/ \E e \in pending : Stop(e)
  <2>1. phase' # "running" /\ UNCHANGED <<results, stops>>
    BY <1>6 DEF RunSimulation, RunReturns, addAQM, Stop
  <2> QED
    BY <1>2, <2>1 DEF FlowsInv, FlowsWillStop
<1>7. CASE UNCHANGED scenarioVars
  BY <1>7 DEF scenarioVars, FlowsInv, FlowsWillStop, ResultsComplete, StopPending
<1> QED
  BY <1>1, <1>3, <1>4, <1>5, <1>6, <1>7 DEF ScenarioNext

\* When every flow stops before the simulation ends, the metadata of every AQM hold
\* the completion time of every flow: DestroyTrace and Stop are scheduled for the
\* same time, and the first of them comes first.
THEOREM CompletionTimesAreRecorded == StopsInTime => (ScenarioSpec => []Recorded)
<1> SUFFICES ASSUME StopsInTime PROVE ScenarioSpec => []Recorded
  OBVIOUS
<1>1. DriverInv /\ FlowsInv /\ [ScenarioNext]_scenarioVars => FlowsInv'
  BY FlowsStep
<1>2. DriverInv /\ FlowsInv => Recorded
  <2> SUFFICES ASSUME DriverInv, FlowsInv PROVE Recorded
    OBVIOUS
  <2>1. Len(results) >= i - 1
    BY DEF DriverInv, ScenarioTypeOK, ResultsInOrder
  <2> QED
    BY <2>1 DEF DriverInv, FlowsInv, ResultsComplete, Recorded, CompletionTimesRecorded
<1> QED
  BY <1>1, <1>2, FlowsInit, DriverInvariant, PTL DEF ScenarioSpec

-----------------------------------------------------------------------------
(* The driver: the same capacities for every AQM *)

\* All changes come before the end, and an even number of them leaves m_state as
\* it was found.
ChangesInPairs ==
    /\ \A t \in Changes : t <= SimTime
    /\ Cardinality(Changes) % 2 = 0

\* The changes of the evaluation under way that have been made.
Ran == {c \in Changes : At(c, ChangeUid(c), "Change") \notin pending}

\* The k-th change of the rate is that of the k-th time.
AlternatesAsPlanned(s) ==
    \A k \in 1 .. Len(s) :
        /\ s[k].at \in Changes /\ ChangeUid(s[k].at) = k
        /\ s[k].rate = IF k % 2 = 1 THEN 10 ELSE 100

\* The changes run in their order, and m_state has the parity of their number.
ChangesInOrder ==
    phase = "running" =>
        /\ Len(rates) = Cardinality(Ran)
        /\ \A c \in Ran : \A d \in Changes \ Ran : c < d
        /\ AlternatesAsPlanned(rates)
        /\ m_state = (Len(rates) % 2 = 0)

RatesInv ==
    /\ ChangesInOrder
    /\ phase # "running" => m_state
    /\ \A j \in 1 .. Len(results) :
           /\ AlternatesAsPlanned(results[j].rates)
           /\ Len(results[j].rates) = Cardinality(Changes)

LEMMA ChangesAreTimes == \A t \in Changes : t \in Nat
BY ScenarioAssumption

LEMMA UidsIncrease ==
    ASSUME NEW c \in Changes, NEW d \in Changes, c < d
    PROVE  ChangeUid(c) < ChangeUid(d)
<1> DEFINE A == {t \in Changes : t <= c}
           B == {t \in Changes : t <= d}
<1>1. A \in SUBSET Changes /\ B \in SUBSET Changes /\ d \in B /\ d \notin A /\ A \subseteq B
  <2>1. c \in Nat /\ d \in Nat /\ d <= d /\ ~ d <= c
    BY ChangesAreTimes
  <2>2. \A t \in Changes : t <= c => t <= d
    BY <2>1, ChangesAreTimes
  <2> QED
    BY <2>1, <2>2
<1>2. A \cup {d} \in SUBSET B
  BY <1>1
<1> HIDE DEF A, B
<1>3. IsFiniteSet(A) /\ IsFiniteSet(B) /\ Cardinality(A) \in Nat /\ Cardinality(B) \in Nat
  BY <1>1, ChangesCounted
<1>4. Cardinality(A \cup {d}) = Cardinality(A) + 1
  BY <1>1, <1>3, FS_AddElement
<1>5. Cardinality(A \cup {d}) <= Cardinality(B)
  BY <1>2, <1>3, FS_Subset
<1>6. Cardinality(A) < Cardinality(B)
  BY <1>3, <1>4, <1>5
<1> QED
  BY <1>6 DEF A, B, ChangeUid

LEMMA UidsDiffer ==
    ASSUME NEW c \in Changes, NEW d \in Changes, ChangeUid(c) = ChangeUid(d)
    PROVE  c = d
<1>1. c \in Nat /\ d \in Nat /\ ChangeUid(c) \in Nat /\ ChangeUid(d) \in Nat
  BY ScenarioAssumption, UidsOfChanges
<1> QED
  BY <1>1, UidsIncrease

\* The times at which the rate changes say everything about it.
LEMMA OnePlan ==
    ASSUME NEW s, NEW u, s \in Seq([at : Nat, rate : {10, 100}]),
           u \in Seq([at : Nat, rate : {10, 100}]), Len(s) = Len(u),
           AlternatesAsPlanned(s), AlternatesAsPlanned(u)
    PROVE  s = u
<1>1. ASSUME NEW k \in 1 .. Len(s)
      PROVE  s[k] = u[k]
  <2>1. s[k] \in [at : Nat, rate : {10, 100}] /\ u[k] \in [at : Nat, rate : {10, 100}]
    <3> DEFINE T == [at : Nat, rate : {10, 100}]
    <3>1. s \in Seq(T) /\ u \in Seq(T) /\ k \in 1 .. Len(s) /\ k \in 1 .. Len(u)
      BY <1>1
    <3> HIDE DEF T
    <3>2. s[k] \in T /\ u[k] \in T
      BY <3>1, ElementOfSeq
    <3> QED
      BY <3>2 DEF T
  <2>2. s[k].rate = u[k].rate
    BY <1>1 DEF AlternatesAsPlanned
  <2>3. s[k].at \in Changes /\ u[k].at \in Changes /\ ChangeUid(s[k].at) = ChangeUid(u[k].at)
    BY <1>1 DEF AlternatesAsPlanned
  <2>4. s[k].at = u[k].at
    BY <2>3, UidsDiffer
  <2> QED
    BY <2>1, <2>2, <2>4
<1> QED
  BY <1>1

LEMMA RatesInit == ScenarioInit => RatesInv
BY DEF ScenarioInit, RatesInv, ChangesInOrder

\* At the end of a simulation no change is left.
LEMMA AllRanAtEnd ==
    ASSUME ChangesInPairs, DriverInv, phase = "running", NEW e, IsEarliest(e),
           e = Trace \/ e = End
    PROVE  Ran = Changes
<1>1. SimTime \in Nat /\ Cardinality(Changes) \in Nat
  BY ChangesCounted, ScenarioAssumption
<1>2. e.at = SimTime /\ e.uid \in Nat /\ e.uid > Cardinality(Changes)
  BY <1>1 DEF Trace, End, At
<1>3. ASSUME NEW c \in Changes, At(c, ChangeUid(c), "Change") \in pending
      PROVE  FALSE
  <2> DEFINE d == At(c, ChangeUid(c), "Change")
  <2>1. d.at = c /\ d.uid = ChangeUid(c) /\ c \in Nat /\ c <= SimTime
        /\ ChangeUid(c) \in Nat /\ ChangeUid(c) <= Cardinality(Changes)
    BY ScenarioAssumption, UidsOfChanges DEF At, ChangesInPairs
  <2>2. d.at > e.at \/ (d.at = e.at /\ d.uid >= e.uid)
    BY <1>3 DEF IsEarliest
  <2> HIDE DEF d
  <2> QED
    BY <1>1, <1>2, <2>1, <2>2
<1> QED
  BY <1>3 DEF Ran

\* A change that runs is the next one.
LEMMA ChangeRuns ==
    ASSUME DriverInv, RatesInv, NEW e, ChangeDataRate(e)
    PROVE  ChangesInOrder'
<1>1. /\ phase = "running" /\ IsEarliest(e) /\ e.what = "Change"
      /\ linkRate' = (IF m_state THEN 10 ELSE 100) /\ m_state' = ~ m_state
      /\ rates' = Append(rates, [at |-> e.at, rate |-> linkRate'])
      /\ pending' = pending \ {e}
  BY DEF ChangeDataRate, Executes
<1> DEFINE t == e.at
<1>2. e \in pending /\ t \in Changes /\ e = At(t, ChangeUid(t), "Change")
  BY <1>1, EarliestEvent, EventShape
<1>3. \A c \in Changes : At(c, ChangeUid(c), "Change") = e <=> c = t
  BY <1>2 DEF At
<1>4. \A c \in Changes \ Ran : c >= t
  <2> SUFFICES ASSUME NEW c \in Changes \ Ran PROVE c >= t
    OBVIOUS
  <2>1. At(c, ChangeUid(c), "Change") \in pending /\ At(c, ChangeUid(c), "Change").at = c
    BY DEF Ran, At
  <2> QED
    <3> DEFINE d == At(c, ChangeUid(c), "Change")
    <3>1. d \in pending /\ d.at = c
      BY <2>1
    <3> HIDE DEF d
    <3>2. c > t \/ c = t
      BY <1>1, <3>1 DEF IsEarliest
    <3> QED
      <4>1. c \in Nat /\ t \in Nat
        BY <1>2, ChangesAreTimes
      <4> QED
        BY <3>2, <4>1
<1> HIDE DEF t
<1>5. Ran' = Ran \cup {t} /\ t \notin Ran
  <2>1. Ran' = {c \in Changes : At(c, ChangeUid(c), "Change") \notin pending'}
    BY DEF Ran, At, ChangeUid
  <2> QED
    BY <1>1, <1>2, <1>3, <2>1 DEF Ran
<1>6. /\ Len(rates) = Cardinality(Ran) /\ AlternatesAsPlanned(rates)
      /\ \A c \in Ran : \A d \in Changes \ Ran : c < d
      /\ m_state = (Len(rates) % 2 = 0)
  BY <1>1 DEF RatesInv, ChangesInOrder
<1>7. Cardinality(Ran') = Cardinality(Ran) + 1
  <2>1. IsFiniteSet(Ran)
    BY ChangesCounted DEF Ran
  <2> QED
    BY <1>5, <2>1, FS_AddElement
<1>8. ChangeUid(t) = Cardinality(Ran')
  <2>1. \A c \in Changes : c <= t <=> c \in Ran \/ c = t
    <3> SUFFICES ASSUME NEW c \in Changes PROVE c <= t <=> c \in Ran \/ c = t
      OBVIOUS
    <3>1. c \in Nat /\ t \in Nat
      BY <1>2, ChangesAreTimes
    <3>2. CASE c \in Ran
      BY <1>2, <1>5, <1>6, <3>1, <3>2
    <3>3. CASE c \notin Ran
      BY <1>4, <3>1, <3>3
    <3> QED
      BY <3>2, <3>3
  <2>2. Ran \subseteq Changes
    BY DEF Ran
  <2>3. {c \in Changes : c <= t} = Ran \cup {t}
    BY <1>2, <2>1, <2>2
  <2> QED
    BY <1>5, <2>3 DEF ChangeUid
<1>9. \A c \in Ran' : \A d \in Changes \ Ran' : c < d
  BY <1>2, <1>4, <1>5, <1>6, ScenarioAssumption
<1>10. rates \in Seq([at : Nat, rate : {10, 100}]) /\ Len(rates) \in Nat /\ m_state \in BOOLEAN
  BY DEF DriverInv, ScenarioTypeOK
<1> DEFINE r == [at |-> t, rate |-> linkRate']
<1>11. /\ Len(rates') = Len(rates) + 1
       /\ \A k \in 1 .. Len(rates') : rates'[k] = IF k <= Len(rates) THEN rates[k] ELSE r
  <2>1. rates' = Append(rates, r)
    BY <1>1 DEF t
  <2>2. r \in [at : Nat, rate : {10, 100}]
    BY <1>1, <1>2, ScenarioAssumption
  <2> HIDE DEF r
  <2> QED
    BY <1>10, <2>1, <2>2, AppendProperties
<1>12. r.at = t /\ r.rate = IF m_state THEN 10 ELSE 100
  BY <1>1
<1> HIDE DEF r
<1>13. m_state <=> Len(rates') % 2 = 1
  <2> DEFINE even == (Len(rates) % 2 = 0)
  <2>1. m_state = even
    BY <1>6
  <2>2. Len(rates') % 2 = 1 <=> even
    BY <1>10, <1>11
  <2> HIDE DEF even
  <2> QED
    BY <2>1, <2>2, <1>10
<1>14. \A k \in 1 .. Len(rates') :
           /\ rates'[k].at \in Changes /\ ChangeUid(rates'[k].at) = k
           /\ rates'[k].rate = IF k % 2 = 1 THEN 10 ELSE 100
  <2> SUFFICES ASSUME NEW k \in 1 .. Len(rates')
               PROVE  /\ rates'[k].at \in Changes /\ ChangeUid(rates'[k].at) = k
                      /\ rates'[k].rate = IF k % 2 = 1 THEN 10 ELSE 100
    OBVIOUS
  <2>1. CASE k <= Len(rates)
    BY <1>6, <1>10, <1>11, <2>1 DEF AlternatesAsPlanned
  <2>2. CASE k = Len(rates')
    BY <1>2, <1>6, <1>7, <1>8, <1>10, <1>11, <1>12, <1>13, <2>2
  <2> QED
    BY <1>10, <1>11, <2>1, <2>2
<1>15. AlternatesAsPlanned(rates)'
  BY <1>14 DEF AlternatesAsPlanned, ChangeUid
<1>16. m_state' = (Len(rates') % 2 = 0)
  <2> DEFINE even == (Len(rates') % 2 = 0)
  <2>1. even <=> ~ m_state
    BY <1>10, <1>11, <1>13
  <2>2. even \in BOOLEAN
    OBVIOUS
  <2> HIDE DEF even
  <2>3. m_state' = even
    BY <1>1, <1>10, <2>1, <2>2, Zenon
  <2> QED
    BY <2>3 DEF even
<1>17. Len(rates') = Cardinality(Ran')
  BY <1>6, <1>7, <1>11
<1> QED
  BY <1>9, <1>15, <1>16, <1>17 DEF ChangesInOrder

LEMMA RatesStep ==
    ASSUME ChangesInPairs, DriverInv, RatesInv, [ScenarioNext]_scenarioVars
    PROVE  RatesInv'
<1> DEFINE Planned(s) == AlternatesAsPlanned(s) /\ Len(s) = Cardinality(Changes)
<1>1. ASSUME UNCHANGED results
      PROVE  (\A j \in 1 .. Len(results) : Planned(results[j].rates))'
  <2>1. \A j \in 1 .. Len(results') : Planned(results'[j].rates)
    BY <1>1 DEF RatesInv
  <2> QED
    BY <2>1 DEF AlternatesAsPlanned, ChangeUid
<1>2. ASSUME NEW e \in pending, ChangeDataRate(e)
      PROVE  RatesInv'
  <2>1. UNCHANGED results /\ phase' = "running"
    BY <1>2 DEF ChangeDataRate, Executes
  <2> QED
    BY <1>1, <1>2, <2>1, ChangeRuns DEF RatesInv
<1>3. ASSUME phase = "running", UNCHANGED <<phase, rates, m_state>>,
             \A d : d.what = "Change" => (d \in pending' <=> d \in pending)
      PROVE  ChangesInOrder'
  <2>1. \A c \in Changes : At(c, ChangeUid(c), "Change") \in pending'
                               <=> At(c, ChangeUid(c), "Change") \in pending
    BY <1>3 DEF At
  <2>2. Ran' = Ran
    BY <2>1 DEF Ran, At, ChangeUid
  <2> QED
    BY <1>3, <2>2 DEF RatesInv, ChangesInOrder, AlternatesAsPlanned, ChangeUid
<1>4. ASSUME NEW e \in pending, Initialize(e) \/ FlowStops(e)
      PROVE  RatesInv'
  <2>1. phase = "running" /\ e.what # "Change" /\ UNCHANGED <<phase, rates, m_state, results>>
    BY <1>4 DEF Initialize, FlowStops, Executes
  <2>2. \A d : d.what = "Change" => (d \in pending' <=> d \in pending)
    BY <1>4, <2>1 DEF Initialize, FlowStops
  <2> QED
    BY <1>1, <1>3, <2>1, <2>2 DEF RatesInv
<1>5. ASSUME NEW e \in pending, DestroyTrace(e)
      PROVE  RatesInv'
  <2> DEFINE r == [aqm |-> m_AQM[i], flowStop |-> flowStop, rates |-> rates]
  <2>1. /\ phase = "running" /\ IsEarliest(e) /\ e.what = "DestroyTrace" /\ e = Trace
        /\ pending' = pending \ {e} /\ UNCHANGED <<phase, rates, m_state>>
    BY <1>5, EventShape DEF DestroyTrace, Executes
  <2>2. ChangesInOrder'
    BY <1>3, <2>1
  <2>3. Planned(rates)
    BY <2>1, AllRanAtEnd DEF RatesInv, ChangesInOrder
  <2>4. /\ results' = Append(results, r) /\ results \in Seq(Result)
        /\ Len(results) = i - 1 /\ Len(results') = i /\ i \in Nat
    <3>1. results' = Append(results, r)
      BY <1>5 DEF DestroyTrace
    <3>2. results \in Seq(Result) /\ i \in Nat
      BY DEF DriverInv, ScenarioTypeOK
    <3>3. Len(results) = i - 1 /\ Len(results') = i
      BY <1>5, DestroyTraceInv
    <3> QED
      BY <3>1, <3>2, <3>3
  <2>5. r.rates = rates
    OBVIOUS
  <2> HIDE DEF r
  <2>6. \A j \in 1 .. i : results'[j] = IF j <= i - 1 THEN results[j] ELSE r
    BY <2>4, AppendProperties
  <2>7. \A j \in 1 .. Len(results') : Planned(results'[j].rates)
    BY <2>3, <2>4, <2>5, <2>6 DEF RatesInv
  <2>8. (\A j \in 1 .. Len(results) : Planned(results[j].rates))'
    BY <2>7 DEF AlternatesAsPlanned, ChangeUid
  <2> QED
    BY <2>1, <2>2, <2>8 DEF RatesInv
<1>6. ASSUME NEW e \in pending, Stop(e)
      PROVE  RatesInv'
  <2>1. /\ phase = "running" /\ IsEarliest(e) /\ e = End /\ phase' = "loop"
        /\ UNCHANGED <<m_state, results>>
    BY <1>6, EventShape DEF Stop
  <2>2. Len(rates) = Cardinality(Changes) /\ m_state = (Len(rates) % 2 = 0)
    BY <2>1, AllRanAtEnd DEF RatesInv, ChangesInOrder
  <2>3. m_state
    BY <2>2 DEF ChangesInPairs
  <2> QED
    BY <1>1, <2>1, <2>3 DEF RatesInv, ChangesInOrder
<1>7. CASE BeginEvaluation
  <2>1. /\ phase # "running" /\ rates' = <<>> /\ ChangeEvents \subseteq pending'
        /\ UNCHANGED <<m_state, results>> /\ phase' = "running"
    BY <1>7, ScheduledEvents DEF BeginEvaluation
  <2>2. Ran' = {}
    BY <2>1 DEF Ran, ChangeEvents, At, ChangeUid
  <2>3. Cardinality({}) = 0
    BY FS_EmptySet
  <2>4. m_state' = (Len(rates') % 2 = 0)
    <3> DEFINE even == (Len(rates') % 2 = 0)
    <3>1. even /\ m_state /\ m_state \in BOOLEAN
      BY <2>1 DEF RatesInv, DriverInv, ScenarioTypeOK
    <3>2. even \in BOOLEAN
      OBVIOUS
    <3> HIDE DEF even
    <3>3. m_state' = even
      BY <2>1, <3>1, <3>2, Zenon
    <3> QED
      BY <3>3 DEF even
  <2>5. ChangesInOrder'
    BY <2>1, <2>2, <2>3, <2>4 DEF ChangesInOrder, AlternatesAsPlanned
  <2> QED
    BY <1>1, <2>1, <2>5 DEF RatesInv
<1>8. CASE RunSimulation \/ RunReturns \/ \E b \in Extra : addAQM(b)
  <2>1. phase # "running" /\ phase' # "running" /\ UNCHANGED <<m_state, results>>
    BY <1>8 DEF RunSimulation, RunReturns, addAQM
  <2> QED
    BY <1>1, <2>1 DEF RatesInv, ChangesInOrder
<1>9. CASE UNCHANGED scenarioVars
  <2>1. UNCHANGED <<phase, pending, rates, m_state, results>>
    BY <1>9 DEF scenarioVars
  <2> QED
    BY <1>1, <1>3, <2>1 DEF RatesInv, ChangesInOrder
<1> QED
  BY <1>2, <1>4, <1>5, <1>6, <1>7, <1>8, <1>9 DEF ScenarioNext

\* With an even number of changes before the end of the simulation, the capacity of
\* the link changes at the same times to the same values in the evaluation of every
\* AQM, though m_state survives from one evaluation to the next.
THEOREM CapacitiesAreTheSame == ChangesInPairs => (ScenarioSpec => []SameCapacity)
<1> SUFFICES ASSUME ChangesInPairs PROVE ScenarioSpec => []SameCapacity
  OBVIOUS
<1>1. DriverInv /\ RatesInv /\ [ScenarioNext]_scenarioVars => RatesInv'
  BY RatesStep
<1>2. DriverInv /\ RatesInv => SameCapacity
  <2> SUFFICES ASSUME DriverInv, RatesInv, NEW j \in 1 .. Len(results), NEW k \in 1 .. Len(results)
               PROVE  results[j].rates = results[k].rates
    BY DEF SameCapacity
  <2>1. results[j] \in Result /\ results[k] \in Result
    BY DEF DriverInv
  <2>2. /\ results[j].rates \in Seq([at : Nat, rate : {10, 100}])
        /\ results[k].rates \in Seq([at : Nat, rate : {10, 100}])
    BY <2>1 DEF Result
  <2> QED
    BY <2>2, OnePlan DEF RatesInv
<1> QED
  BY <1>1, <1>2, RatesInit, DriverInvariant, PTL DEF ScenarioSpec

-----------------------------------------------------------------------------
(* The rows of the ellipse input *)

FilesInOrder ==
    /\ qdelay \in Ellipse!Trace(MaxSamples)
    /\ throughput \in Ellipse!Trace(MaxThroughput)

RowsBelow(v) == {u \in Ellipse!RowIntervals : u < v}

RowOf(v) == [samples |-> Ellipse!Counted(v), lines |-> Ellipse!LinesOf(v)]

\* The rows in the file are those of the intervals in S.
RowsAreThoseOf(S) ==
    /\ Len(rows) = Cardinality(S)
    /\ \A v \in S : Ellipse!Rank(v) \in 1 .. Len(rows) /\ rows[Ellipse!Rank(v)] = RowOf(v)

\* Where the pass over the samples is.
PassShape ==
    /\ next \in 1 .. Len(qdelay) + 1 /\ throughput_index \in 1 .. Len(throughput) + 1
    /\ last_time_interval = IF next = 1 THEN 0 ELSE qdelay[next - 1]
    /\ closed \in BOOLEAN
    /\ rows \in Seq([samples : SUBSET Nat, lines : SUBSET Nat])

\* All intervals before the current one have their rows and their lines, and the
\* samples of the current one have been added up so far.
PassUpTo ==
    /\ qdelay_ans = Ellipse!Counted(last_time_interval) \cap (1 .. next - 1)
    /\ \A k \in 1 .. Len(throughput) :
           k < throughput_index
               <=> \E u \in RowsBelow(last_time_interval) : Ellipse!Before(k, u)
    /\ RowsAreThoseOf(RowsBelow(last_time_interval))

EllipseInv ==
    /\ FilesInOrder /\ PassShape
    /\ ~ closed => PassUpTo
    /\ closed => next = Len(qdelay) + 1 /\ RowsAreThoseOf(Ellipse!RowIntervals)

LEMMA TraceShape ==
    ASSUME NEW max \in Nat, NEW s \in Ellipse!Trace(max)
    PROVE  /\ Len(s) \in Nat /\ DOMAIN s = 1 .. Len(s)
           /\ \A k \in 1 .. Len(s) : s[k] \in Nat /\ s[k] <= LastInterval
           /\ \A j, k \in 1 .. Len(s) : j <= k => s[j] <= s[k]
<1>1. PICK n \in 0 .. max : s \in [1 .. n -> 0 .. LastInterval]
  BY DEF Ellipse!Trace
<1>2. n \in Nat /\ Len(s) = n /\ DOMAIN s = 1 .. n
  BY <1>1
<1>3. \A k \in 1 .. n : s[k] \in Nat /\ s[k] <= LastInterval
  BY <1>1, ScriptsAssumption
<1>4. \A j, k \in 1 .. n : j < k => s[j] <= s[k]
  BY <1>2 DEF Ellipse!Trace
<1>5. \A j, k \in 1 .. n : j <= k => s[j] <= s[k]
  BY <1>2, <1>3, <1>4
<1> QED
  BY <1>2, <1>3, <1>5

LEMMA FilesShape ==
    ASSUME FilesInOrder
    PROVE  /\ Len(qdelay) \in Nat /\ DOMAIN qdelay = 1 .. Len(qdelay)
           /\ \A k \in 1 .. Len(qdelay) : qdelay[k] \in Nat /\ qdelay[k] <= LastInterval
           /\ \A j, k \in 1 .. Len(qdelay) : j <= k => qdelay[j] <= qdelay[k]
           /\ Len(throughput) \in Nat /\ DOMAIN throughput = 1 .. Len(throughput)
           /\ \A k \in 1 .. Len(throughput) : throughput[k] \in Nat
           /\ \A j, k \in 1 .. Len(throughput) : j <= k => throughput[j] <= throughput[k]
BY TraceShape, ScriptsAssumption DEF FilesInOrder

LEMMA FilesStay ==
    ASSUME UNCHANGED <<qdelay, throughput>>
    PROVE  /\ FilesInOrder' <=> FilesInOrder
           /\ Ellipse!RowIntervals' = Ellipse!RowIntervals
           /\ \A v : /\ Ellipse!Counted(v)' = Ellipse!Counted(v)
                     /\ RowsBelow(v)' = RowsBelow(v)
                     /\ RowOf(v)' = RowOf(v)
                     /\ Ellipse!Rank(v)' = Ellipse!Rank(v)
                     /\ \A k : Ellipse!Before(k, v)' <=> Ellipse!Before(k, v)
           /\ Ellipse!Counted(last_time_interval)' = Ellipse!Counted(last_time_interval')
           /\ RowsBelow(last_time_interval)' = RowsBelow(last_time_interval')
<1>1. \A v : Ellipse!Counted(v)' = Ellipse!Counted(v)
  BY DEF Ellipse!Counted, Ellipse!SamplesOf
<1>2. \A k, v : Ellipse!Before(k, v)' <=> Ellipse!Before(k, v)
  BY DEF Ellipse!Before
<1>3. Ellipse!RowIntervals' = Ellipse!RowIntervals
  BY <1>1 DEF Ellipse!RowIntervals
<1>4. \A v : Ellipse!LinesOf(v)' = Ellipse!LinesOf(v)
  BY <1>2, <1>3 DEF Ellipse!LinesOf
<1>5. Ellipse!Counted(last_time_interval)' = Ellipse!Counted(last_time_interval')
  BY DEF Ellipse!Counted, Ellipse!SamplesOf
<1>6. RowsBelow(last_time_interval)' = RowsBelow(last_time_interval')
  BY <1>3 DEF RowsBelow
<1> QED
  BY <1>1, <1>2, <1>3, <1>4, <1>5, <1>6
  DEF FilesInOrder, Ellipse!Trace, RowsBelow, RowOf, Ellipse!Rank

\* The intervals that have rows.
LEMMA IntervalsCounted ==
    ASSUME NEW S \in SUBSET Ellipse!RowIntervals
    PROVE  IsFiniteSet(S) /\ Cardinality(S) \in Nat
<1>1. IsFiniteSet(0 .. LastInterval)
  BY ScriptsAssumption, FS_Interval
<1>2. S \subseteq 0 .. LastInterval
  BY DEF Ellipse!RowIntervals
<1> QED
  BY <1>1, <1>2, FS_Subset, FS_CardinalityType

LEMMA RowIntervalsAreNumbers == \A v \in Ellipse!RowIntervals : v \in Nat
BY ScriptsAssumption DEF Ellipse!RowIntervals

\* The instance has the same cardinalities.
LEMMA EllipseCardinality == \A S : Ellipse!Cardinality(S) = Cardinality(S)
BY DEF Ellipse!Cardinality, Cardinality, Ellipse!IsFiniteSet, IsFiniteSet

LEMMA RanksFollow ==
    ASSUME NEW v \in Ellipse!RowIntervals
    PROVE  /\ Ellipse!Rank(v) = Cardinality(RowsBelow(v)) + 1
           /\ Cardinality(RowsBelow(v)) \in Nat
           /\ Cardinality(RowsBelow(v) \cup {v}) = Cardinality(RowsBelow(v)) + 1
<1>1. v \in Nat /\ v \notin RowsBelow(v) /\ RowsBelow(v) \subseteq Ellipse!RowIntervals
  BY RowIntervalsAreNumbers DEF RowsBelow
<1>2. {u \in Ellipse!RowIntervals : u <= v} = RowsBelow(v) \cup {v}
  <2>1. \A u \in Ellipse!RowIntervals : u <= v <=> u < v \/ u = v
    BY <1>1, RowIntervalsAreNumbers
  <2> QED
    BY <2>1 DEF RowsBelow
<1>3. IsFiniteSet(RowsBelow(v)) /\ Cardinality(RowsBelow(v)) \in Nat
  BY <1>1, IntervalsCounted
<1>4. Cardinality(RowsBelow(v) \cup {v}) = Cardinality(RowsBelow(v)) + 1
  BY <1>1, <1>3, FS_AddElement
<1>5. Ellipse!Rank(v) = Cardinality(RowsBelow(v) \cup {v})
  BY <1>2, EllipseCardinality DEF Ellipse!Rank
<1> QED
  BY <1>3, <1>4, <1>5

LEMMA RowsBelowGrow ==
    ASSUME NEW v \in Nat, NEW w \in Nat, v <= w
    PROVE  /\ Cardinality(RowsBelow(v)) <= Cardinality(RowsBelow(w))
           /\ Cardinality(RowsBelow(v)) \in Nat /\ Cardinality(RowsBelow(w)) \in Nat
<1>1. RowsBelow(v) \in SUBSET Ellipse!RowIntervals /\ RowsBelow(w) \in SUBSET Ellipse!RowIntervals
  BY DEF RowsBelow
<1>2. RowsBelow(v) \subseteq RowsBelow(w)
  BY RowIntervalsAreNumbers DEF RowsBelow
<1>3. IsFiniteSet(RowsBelow(w)) /\ Cardinality(RowsBelow(v)) \in Nat
      /\ Cardinality(RowsBelow(w)) \in Nat
  BY <1>1, IntervalsCounted
<1>4. Cardinality(RowsBelow(v)) <= Cardinality(RowsBelow(w))
  BY <1>2, <1>3, FS_Subset
<1> QED
  BY <1>3, <1>4

\* The samples that were read are not after the current interval, the others not
\* before it.
LEMMA SamplesRead ==
    ASSUME FilesInOrder, PassShape
    PROVE  /\ last_time_interval \in Nat
           /\ \A k \in 1 .. next - 1 : qdelay[k] <= last_time_interval
           /\ \A k \in next .. Len(qdelay) : qdelay[k] >= last_time_interval
<1>1. /\ Len(qdelay) \in Nat /\ next \in 1 .. Len(qdelay) + 1
      /\ \A k \in 1 .. Len(qdelay) : qdelay[k] \in Nat
      /\ \A j, k \in 1 .. Len(qdelay) : j <= k => qdelay[j] <= qdelay[k]
  BY FilesShape DEF PassShape
<1>2. CASE next = 1
  BY <1>1, <1>2 DEF PassShape
<1>3. CASE next # 1
  <2>1. last_time_interval = qdelay[next - 1] /\ next - 1 \in 1 .. Len(qdelay)
    BY <1>1, <1>3 DEF PassShape
  <2> QED
    BY <1>1, <2>1
<1> QED
  BY <1>2, <1>3

\* The samples of the current interval are complete when no sample that is left
\* belongs to it, and the rows so far go up to it.
LEMMA IntervalEnds ==
    ASSUME FilesInOrder, PassShape, PassUpTo,
           \A k \in next .. Len(qdelay) : qdelay[k] # last_time_interval
    PROVE  /\ qdelay_ans = Ellipse!Counted(last_time_interval)
           /\ last_time_interval \in Ellipse!RowIntervals <=> qdelay_ans # {}
<1>1. Len(qdelay) \in Nat /\ DOMAIN qdelay = 1 .. Len(qdelay) /\ next \in 1 .. Len(qdelay) + 1
  BY FilesShape DEF PassShape
<1>2. Ellipse!Counted(last_time_interval) \subseteq {k \in DOMAIN qdelay : qdelay[k] = last_time_interval}
  BY DEF Ellipse!Counted, Ellipse!SamplesOf
<1>3. \A k \in Ellipse!Counted(last_time_interval) : k \in 1 .. next - 1
  BY <1>1, <1>2
<1>4. qdelay_ans = Ellipse!Counted(last_time_interval)
  BY <1>3 DEF PassUpTo
<1>5. last_time_interval \in 0 .. LastInterval
  <2>1. CASE next = 1
    BY <2>1, ScriptsAssumption DEF PassShape
  <2>2. CASE next # 1
    BY <1>1, <2>2, FilesShape, ScriptsAssumption DEF PassShape
  <2> QED
    BY <2>1, <2>2
<1> QED
  BY <1>4, <1>5 DEF Ellipse!RowIntervals

\* What a sample of a new interval means.
LEMMA IntervalBegins ==
    ASSUME FilesInOrder, PassShape, PassUpTo, next <= Len(qdelay),
           qdelay[next] # last_time_interval
    PROVE  LET v == qdelay[next]
           IN  /\ v \in Nat /\ v > last_time_interval
               /\ \A k \in next .. Len(qdelay) : qdelay[k] >= v
               /\ Ellipse!Counted(v) \cap (1 .. next) = {}
               /\ RowsBelow(v) = {u \in Ellipse!RowIntervals : u <= last_time_interval}
               /\ \A k \in 1 .. Len(throughput) :
                      Ellipse!Before(k, last_time_interval) <=> throughput[k] < v
<1> DEFINE v == qdelay[next]
           L == last_time_interval
<1>1. /\ Len(qdelay) \in Nat /\ DOMAIN qdelay = 1 .. Len(qdelay) /\ next \in 1 .. Len(qdelay)
      /\ \A k \in 1 .. Len(qdelay) : qdelay[k] \in Nat
      /\ \A j, k \in 1 .. Len(qdelay) : j <= k => qdelay[j] <= qdelay[k]
      /\ \A k \in 1 .. Len(throughput) : throughput[k] \in Nat
  BY FilesShape DEF PassShape
<1>2. L \in Nat /\ \A k \in 1 .. next - 1 : qdelay[k] <= L
  BY SamplesRead
<1>3. v \in Nat /\ v > L
  <2>1. v \in Nat /\ v >= L
    BY <1>1, SamplesRead
  <2> QED
    BY <1>2, <2>1
<1>4. \A k \in next .. Len(qdelay) : qdelay[k] >= v
  BY <1>1
<1>5. \A k \in 1 .. Len(qdelay) : qdelay[k] > L <=> k >= next
  <2> SUFFICES ASSUME NEW k \in 1 .. Len(qdelay) PROVE qdelay[k] > L <=> k >= next
    OBVIOUS
  <2>1. CASE k >= next
    <3>1. qdelay[k] >= v /\ qdelay[k] \in Nat
      BY <1>1, <1>4, <2>1
    <3> QED
      BY <1>2, <1>3, <2>1, <3>1
  <2>2. CASE k < next
    <3>1. qdelay[k] <= L /\ qdelay[k] \in Nat
      BY <1>1, <1>2, <2>2
    <3> QED
      BY <1>1, <1>2, <2>2, <3>1
  <2> QED
    BY <1>1, <2>1, <2>2
<1>6. Ellipse!Counted(v) \cap (1 .. next) = {}
  <2> SUFFICES ASSUME NEW k \in Ellipse!Counted(v), k \in 1 .. next PROVE FALSE
    OBVIOUS
  <2>1. v # 0
    BY <1>2, <1>3
  <2>2. PICK j \in 1 .. Len(qdelay) : j < k /\ qdelay[j] = v
    BY <1>1, <2>1 DEF Ellipse!Counted, Ellipse!SamplesOf
  <2>3. j \in 1 .. next - 1
    BY <1>1, <2>2
  <2> QED
    BY <1>2, <1>3, <2>2, <2>3
<1>7. RowsBelow(v) = {u \in Ellipse!RowIntervals : u <= L}
  <2>1. ASSUME NEW u \in Ellipse!RowIntervals, u < v
        PROVE  u <= L
    <3>1. u \in Nat
      BY RowIntervalsAreNumbers
    <3>2. PICK k \in 1 .. Len(qdelay) : qdelay[k] = u
      BY <1>1 DEF Ellipse!RowIntervals, Ellipse!Counted, Ellipse!SamplesOf
    <3>3. ~ (k >= next)
      BY <1>1, <1>3, <1>4, <2>1, <3>1, <3>2
    <3> QED
      BY <1>2, <1>5, <3>1, <3>2, <3>3
  <2>2. ASSUME NEW u \in Ellipse!RowIntervals, u <= L
        PROVE  u < v
    BY <1>2, <1>3, <2>2, RowIntervalsAreNumbers
  <2> QED
    BY <2>1, <2>2 DEF RowsBelow
<1>8. ASSUME NEW m \in 1 .. Len(throughput)
      PROVE  Ellipse!Before(m, L) <=> throughput[m] < v
  <2>1. Ellipse!Before(m, L) <=> \A k \in 1 .. Len(qdelay) : qdelay[k] > L => throughput[m] < qdelay[k]
    BY <1>1 DEF Ellipse!Before
  <2>2. throughput[m] \in Nat
    BY <1>1
  <2>3. ASSUME throughput[m] < v, NEW k \in 1 .. Len(qdelay), qdelay[k] > L
        PROVE  throughput[m] < qdelay[k]
    <3>1. qdelay[k] >= v /\ qdelay[k] \in Nat
      BY <1>1, <1>4, <1>5, <2>3
    <3> QED
      BY <1>3, <2>2, <2>3, <3>1
  <2> QED
    BY <1>1, <1>3, <2>1, <2>3
<1> QED
  BY <1>3, <1>4, <1>6, <1>7, <1>8

\* Lines that come before the successor of an interval do so of any later one.
LEMMA BeforeLater ==
    ASSUME FilesInOrder, NEW u \in Nat, NEW w \in Nat, u <= w, NEW k, Ellipse!Before(k, u)
    PROVE  Ellipse!Before(k, w)
<1>1. \A j \in DOMAIN qdelay : qdelay[j] \in Nat
  BY FilesShape
<1>2. \A j \in DOMAIN qdelay : qdelay[j] > w => qdelay[j] > u
  BY <1>1
<1> QED
  BY <1>2 DEF Ellipse!Before


\* The row of the current interval has the lines that are left and come before the
\* next interval.
LEMMA RowWritten ==
    ASSUME FilesInOrder, PassShape, PassUpTo, NEW end \in 1 .. Len(throughput) + 1,
           last_time_interval \in Ellipse!RowIntervals,
           qdelay_ans = Ellipse!Counted(last_time_interval),
           \A k \in 1 .. Len(throughput) :
               Ellipse!Before(k, last_time_interval) <=> k < end,
           Ellipse!WriteRow(end),
           NEW S, S = RowsBelow(last_time_interval) \cup {last_time_interval}
    PROVE  /\ rows' \in Seq([samples : SUBSET Nat, lines : SUBSET Nat])
           /\ Len(rows') = Cardinality(S)
           /\ \A v \in S : /\ Ellipse!Rank(v) \in 1 .. Len(rows')
                           /\ rows'[Ellipse!Rank(v)] = RowOf(v)
<1> DEFINE L == last_time_interval
           r == [samples |-> qdelay_ans, lines |-> throughput_index .. end - 1]
           Row == [samples : SUBSET Nat, lines : SUBSET Nat]
<1>1. /\ Len(throughput) \in Nat /\ DOMAIN throughput = 1 .. Len(throughput)
      /\ throughput_index \in 1 .. Len(throughput) + 1 /\ rows \in Seq(Row)
      /\ DOMAIN qdelay = 1 .. Len(qdelay)
  BY FilesShape DEF PassShape
<1>2. Ellipse!LinesOf(L) = throughput_index .. end - 1
  <2>1. \A k \in 1 .. Len(throughput) :
            (\A u \in Ellipse!RowIntervals : u < L => ~ Ellipse!Before(k, u))
                <=> ~ (k < throughput_index)
    BY DEF PassUpTo, RowsBelow
  <2>2. Ellipse!LinesOf(L) = {k \in 1 .. Len(throughput) : k < end /\ ~ (k < throughput_index)}
    BY <1>1, <2>1 DEF Ellipse!LinesOf
  <2> QED
    BY <1>1, <2>2
<1>3. r = RowOf(L)
  BY <1>2 DEF RowOf
<1>4. r \in Row
  <2>1. Ellipse!Counted(L) \subseteq Nat
    BY <1>1 DEF Ellipse!Counted, Ellipse!SamplesOf
  <2>2. throughput_index .. end - 1 \subseteq Nat
    BY <1>1
  <2> QED
    BY <2>1, <2>2
<1>5. rows' = Append(rows, r)
  BY DEF Ellipse!WriteRow
<1> HIDE DEF r, Row
<1>6. /\ rows' \in Seq(Row) /\ Len(rows) \in Nat /\ Len(rows') = Len(rows) + 1
      /\ \A k \in 1 .. Len(rows) : rows'[k] = rows[k]
      /\ rows'[Len(rows) + 1] = r
  BY <1>1, <1>4, <1>5, AppendProperties
<1>7. Len(rows) = Cardinality(RowsBelow(L))
      /\ \A v \in RowsBelow(L) : Ellipse!Rank(v) \in 1 .. Len(rows) /\ rows[Ellipse!Rank(v)] = RowOf(v)
  BY DEF PassUpTo, RowsAreThoseOf
<1>8. Ellipse!Rank(L) = Len(rows) + 1 /\ Cardinality(S) = Len(rows) + 1
  BY <1>7, RanksFollow
<1>9. ASSUME NEW v \in S
      PROVE  Ellipse!Rank(v) \in 1 .. Len(rows') /\ rows'[Ellipse!Rank(v)] = RowOf(v)
  <2>1. CASE v = L
    BY <1>3, <1>6, <1>8, <2>1
  <2>2. CASE v \in RowsBelow(L)
    <3>1. Ellipse!Rank(v) \in 1 .. Len(rows) /\ rows[Ellipse!Rank(v)] = RowOf(v)
      BY <1>7, <2>2
    <3> QED
      BY <1>6, <3>1
  <2> QED
    BY <2>1, <2>2
<1> QED
  BY <1>6, <1>8, <1>9 DEF Row

LEMMA EllipseInit == ScriptsInit => EllipseInv
<1> SUFFICES ASSUME ScriptsInit PROVE EllipseInv
  OBVIOUS
<1>1. FilesInOrder /\ next = 1 /\ throughput_index = 1 /\ last_time_interval = 0
      /\ qdelay_ans = {} /\ rows = <<>> /\ closed = FALSE
  <2>1. CASE Ellipse!Init
    BY <2>1 DEF Ellipse!Init, FilesInOrder
  <2>2. CASE qdelay = <<>> /\ throughput = <<>> /\ next = 1 /\ last_time_interval = 0
             /\ qdelay_ans = {} /\ throughput_index = 1 /\ rows = <<>> /\ closed = FALSE
    <3>1. ASSUME NEW max \in Nat
          PROVE  <<>> \in Ellipse!Trace(max)
      <4>1. <<>> \in [1 .. 0 -> 0 .. LastInterval] /\ 0 \in 0 .. max
        BY <3>1
      <4>2. \A j, k \in DOMAIN <<>> : j < k => <<>>[j] <= <<>>[k]
        OBVIOUS
      <4> QED
        BY <4>1, <4>2 DEF Ellipse!Trace
    <3> QED
      BY <2>2, <3>1, ScriptsAssumption DEF FilesInOrder
  <2> QED
    BY <2>1, <2>2 DEF ScriptsInit
<1>2. PassShape
  <2>1. Len(qdelay) \in Nat /\ Len(throughput) \in Nat
    BY <1>1, FilesShape
  <2>2. closed \in BOOLEAN
    BY <1>1, Zenon
  <2>3. rows \in Seq([samples : SUBSET Nat, lines : SUBSET Nat])
    BY <1>1
  <2> QED
    BY <1>1, <2>1, <2>2, <2>3 DEF PassShape
<1>3. RowsBelow(0) = {}
  BY RowIntervalsAreNumbers DEF RowsBelow
<1>4. PassUpTo
  <2>1. Cardinality({}) = 0
    BY FS_EmptySet
  <2>2. RowsAreThoseOf(RowsBelow(0))
    BY <1>1, <1>3, <2>1 DEF RowsAreThoseOf
  <2> QED
    BY <1>1, <1>3, <2>2, FilesShape DEF PassUpTo
<1> QED
  BY <1>1, <1>2, <1>4 DEF EllipseInv

\* A sample within the current interval.
LEMMA AverageInv ==
    ASSUME EllipseInv, Ellipse!Average
    PROVE  EllipseInv'
<1>1. /\ next <= Len(qdelay) /\ last_time_interval = qdelay[next] /\ next' = next + 1
      /\ qdelay_ans' = qdelay_ans \cup {next}
      /\ UNCHANGED <<qdelay, throughput, last_time_interval, throughput_index, rows, closed>>
  BY DEF Ellipse!Average, Ellipse!Sample, Ellipse!fileVars
<1>2. /\ Len(qdelay) \in Nat /\ DOMAIN qdelay = 1 .. Len(qdelay) /\ next \in 1 .. Len(qdelay)
      /\ \A k \in 1 .. Len(qdelay) : qdelay[k] \in Nat
  BY <1>1, FilesShape DEF EllipseInv, PassShape
<1>3. ~ closed /\ PassUpTo
  BY <1>2 DEF EllipseInv
<1>4. next \in Ellipse!Counted(last_time_interval)
  <2>1. next \in Ellipse!SamplesOf(last_time_interval)
    BY <1>1, <1>2 DEF Ellipse!SamplesOf
  <2>2. CASE last_time_interval = 0
    BY <2>1, <2>2 DEF Ellipse!Counted
  <2>3. CASE last_time_interval # 0
    <3>1. next # 1 /\ last_time_interval = qdelay[next - 1]
      BY <1>2, <2>3 DEF EllipseInv, PassShape
    <3>2. next - 1 \in Ellipse!SamplesOf(last_time_interval) /\ next - 1 < next
      BY <1>2, <3>1 DEF Ellipse!SamplesOf
    <3> QED
      BY <2>1, <2>3, <3>2 DEF Ellipse!Counted
  <2> QED
    BY <2>2, <2>3
<1>5. qdelay_ans' = Ellipse!Counted(last_time_interval) \cap (1 .. next' - 1)
  BY <1>1, <1>2, <1>3, <1>4 DEF PassUpTo
<1>6. PassUpTo'
  BY <1>1, <1>3, <1>5, FilesStay DEF PassUpTo, RowsAreThoseOf
<1>7. PassShape'
  <2>1. next' \in 1 .. Len(qdelay) + 1 /\ next' # 1 /\ next' - 1 = next
    BY <1>1, <1>2
  <2> QED
    BY <1>1, <2>1 DEF EllipseInv, PassShape
<1>8. FilesInOrder'
  BY <1>1, FilesStay DEF EllipseInv
<1> QED
  BY <1>1, <1>3, <1>6, <1>7, <1>8 DEF EllipseInv

\* A sample that opens a new interval, with or without a row for the one before.
LEMMA IntervalInv ==
    ASSUME EllipseInv, Ellipse!NextInterval \/ Ellipse!SkipInterval
    PROVE  EllipseInv'
<1> DEFINE L == last_time_interval
<1>1. /\ next <= Len(qdelay) /\ qdelay[next] # L /\ next' = next + 1
      /\ last_time_interval' = qdelay[next] /\ qdelay_ans' = {}
      /\ UNCHANGED <<qdelay, throughput, closed>>
  BY DEF Ellipse!NextInterval, Ellipse!SkipInterval, Ellipse!Sample, Ellipse!fileVars,
         Ellipse!WriteRow
<1>2. /\ FilesInOrder /\ PassShape /\ Len(qdelay) \in Nat /\ next \in 1 .. Len(qdelay)
      /\ L \in Nat /\ Len(throughput) \in Nat
      /\ throughput_index \in 1 .. Len(throughput) + 1
  BY <1>1, FilesShape, SamplesRead DEF EllipseInv, PassShape
<1>3. ~ closed /\ PassUpTo
  BY <1>2 DEF EllipseInv
<1>4. PICK v : v = qdelay[next]
  OBVIOUS
<1>5. /\ v \in Nat /\ v > L /\ \A k \in next .. Len(qdelay) : qdelay[k] >= v
      /\ Ellipse!Counted(v) \cap (1 .. next) = {}
      /\ RowsBelow(v) = {u \in Ellipse!RowIntervals : u <= L}
      /\ \A k \in 1 .. Len(throughput) : Ellipse!Before(k, L) <=> throughput[k] < v
  BY <1>1, <1>2, <1>3, <1>4, IntervalBegins
<1>6. qdelay_ans = Ellipse!Counted(L) /\ (L \in Ellipse!RowIntervals <=> qdelay_ans # {})
  <2>1. \A k \in next .. Len(qdelay) : qdelay[k] # L
    <3> SUFFICES ASSUME NEW k \in next .. Len(qdelay) PROVE qdelay[k] # L
      OBVIOUS
    <3>1. qdelay[k] >= v /\ v > L
      BY <1>5
    <3> QED
      BY <1>2, <1>5, <3>1
  <2> QED
    BY <1>2, <1>3, <2>1, IntervalEnds
<1>7. \A u \in RowsBelow(v) : u \in Nat /\ (u # L => u \in RowsBelow(L))
  BY <1>2, <1>5, RowIntervalsAreNumbers DEF RowsBelow
<1>8. RowsBelow(L) \subseteq RowsBelow(v)
  BY <1>2, <1>5, RowIntervalsAreNumbers DEF RowsBelow
<1>9. /\ throughput_index' \in 1 .. Len(throughput) + 1
      /\ rows' \in Seq([samples : SUBSET Nat, lines : SUBSET Nat])
      /\ Len(rows') = Cardinality(RowsBelow(v))
      /\ \A u \in RowsBelow(v) : /\ Ellipse!Rank(u) \in 1 .. Len(rows')
                                 /\ rows'[Ellipse!Rank(u)] = RowOf(u)
      /\ \A k \in 1 .. Len(throughput) :
             k < throughput_index' <=> \E u \in RowsBelow(v) : Ellipse!Before(k, u)
  <2>1. CASE Ellipse!SkipInterval
    <3>1. qdelay_ans = {} /\ UNCHANGED <<throughput_index, rows>>
      BY <2>1 DEF Ellipse!SkipInterval
    <3>2. RowsBelow(v) = RowsBelow(L)
      BY <1>5, <1>6, <1>7, <1>8, <3>1 DEF RowsBelow
    <3> QED
      BY <1>2, <1>3, <3>1, <3>2 DEF PassUpTo, PassShape, RowsAreThoseOf
  <2>2. CASE Ellipse!NextInterval
    <3>1. qdelay_ans # {} /\ \E end \in throughput_index .. Len(throughput) + 1 :
              Ellipse!StopsAt(end, v) /\ Ellipse!WriteRow(end)
      BY <1>4, <2>2 DEF Ellipse!NextInterval, Ellipse!Sample
    <3>2. PICK end \in throughput_index .. Len(throughput) + 1 :
              Ellipse!StopsAt(end, v) /\ Ellipse!WriteRow(end)
      BY <3>1
    <3>3. end \in 1 .. Len(throughput) + 1 /\ end >= throughput_index
      BY <1>2, <3>2
    <3>4. L \in Ellipse!RowIntervals
      BY <1>6, <3>1
    <3>5. ASSUME NEW k \in 1 .. Len(throughput), k < throughput_index
          PROVE  Ellipse!Before(k, L)
      <4>1. PICK u \in RowsBelow(L) : Ellipse!Before(k, u)
        BY <1>3, <3>5 DEF PassUpTo
      <4>2. u \in Nat /\ u <= L
        BY <1>2, RowIntervalsAreNumbers DEF RowsBelow
      <4> QED
        BY <1>2, <4>1, <4>2, BeforeLater
    <3>6. \A k \in throughput_index .. end - 1 : throughput[k] < v
      BY <3>2 DEF Ellipse!StopsAt, Ellipse!TakesUpTo
    <3>7. ASSUME NEW k \in 1 .. Len(throughput), k >= end
          PROVE  ~ (throughput[k] < v)
      <4>1. end \in 1 .. Len(throughput)
        BY <1>2, <3>3, <3>7
      <4>2. ~ (throughput[end] < v)
        BY <3>2, <4>1 DEF Ellipse!StopsAt, Ellipse!TakesUpTo
      <4>3. throughput[end] \in Nat /\ throughput[k] \in Nat /\ throughput[end] <= throughput[k]
        BY <1>2, <3>7, <4>1, FilesShape
      <4> QED
        BY <1>5, <4>2, <4>3
    <3>8. ASSUME NEW k \in 1 .. Len(throughput)
          PROVE  Ellipse!Before(k, L) <=> k < end
      <4>1. CASE k >= end
        BY <1>2, <1>5, <3>3, <3>7, <4>1
      <4>2. CASE k < throughput_index
        BY <1>2, <3>3, <3>5, <4>2
      <4>3. CASE k >= throughput_index /\ k < end
        <5>1. throughput[k] < v
          BY <1>2, <3>3, <3>6, <4>3
        <5> QED
          BY <1>5, <4>3, <5>1
      <4> QED
        BY <1>2, <3>3, <4>1, <4>2, <4>3
    <3>9. RowsBelow(v) = RowsBelow(L) \cup {L}
      BY <1>2, <1>5, <1>7, <1>8, <3>4
    <3>10. /\ rows' \in Seq([samples : SUBSET Nat, lines : SUBSET Nat])
           /\ Len(rows') = Cardinality(RowsBelow(v))
           /\ \A u \in RowsBelow(v) : /\ Ellipse!Rank(u) \in 1 .. Len(rows')
                                      /\ rows'[Ellipse!Rank(u)] = RowOf(u)
      BY <1>2, <1>3, <1>6, <3>2, <3>3, <3>4, <3>8, <3>9, RowWritten
    <3>11. throughput_index' = end
      BY <3>2 DEF Ellipse!WriteRow
    <3>12. ASSUME NEW k \in 1 .. Len(throughput), NEW u \in RowsBelow(v), Ellipse!Before(k, u)
           PROVE  Ellipse!Before(k, L)
      <4>1. u \in Nat /\ u <= L
        BY <1>5, <1>7
      <4> QED
        BY <1>2, <3>12, <4>1, BeforeLater
    <3> QED
      BY <3>3, <3>8, <3>9, <3>10, <3>11, <3>12
  <2> QED
    BY <2>1, <2>2
<1>10. next' - 1 = next /\ next' \in 1 .. Len(qdelay) + 1 /\ next' # 1
  BY <1>1, <1>2
<1>11. PassUpTo'
  <2>1. qdelay_ans' = Ellipse!Counted(last_time_interval)' \cap (1 .. next' - 1)
    <3>1. Ellipse!Counted(last_time_interval)' = Ellipse!Counted(v)
      BY <1>1, <1>4, FilesStay
    <3> QED
      BY <1>1, <1>5, <1>10, <3>1
  <2>2. RowsBelow(last_time_interval)' = RowsBelow(v)
    BY <1>1, <1>4, FilesStay
  <2>3. RowsAreThoseOf(RowsBelow(last_time_interval))'
    BY <1>1, <1>9, <2>2, FilesStay DEF RowsAreThoseOf
  <2>4. (\A k \in 1 .. Len(throughput) :
             k < throughput_index
                 <=> \E u \in RowsBelow(last_time_interval) : Ellipse!Before(k, u))'
    BY <1>1, <1>9, <2>2, FilesStay
  <2> QED
    BY <2>1, <2>3, <2>4 DEF PassUpTo
<1>12. PassShape'
  BY <1>1, <1>2, <1>9, <1>10 DEF PassShape
<1>13. FilesInOrder'
  BY <1>1, <1>2, FilesStay
<1> QED
  BY <1>1, <1>3, <1>11, <1>12, <1>13 DEF EllipseInv

\* The lines that are left go into the last row.
LEMMA CloseInv ==
    ASSUME EllipseInv, Ellipse!Close
    PROVE  EllipseInv'
<1> DEFINE L == last_time_interval
<1>1. /\ next > Len(qdelay) /\ ~ closed /\ closed' = TRUE
      /\ UNCHANGED <<qdelay, throughput, next, last_time_interval>>
  BY DEF Ellipse!Close, Ellipse!fileVars
<1>2. /\ FilesInOrder /\ PassShape /\ PassUpTo /\ Len(qdelay) \in Nat
      /\ next = Len(qdelay) + 1 /\ L \in Nat /\ Len(throughput) \in Nat
      /\ throughput_index \in 1 .. Len(throughput) + 1
      /\ DOMAIN qdelay = 1 .. Len(qdelay)
      /\ \A k \in 1 .. Len(qdelay) : qdelay[k] \in Nat /\ qdelay[k] <= L
  BY <1>1, FilesShape, SamplesRead DEF EllipseInv, PassShape
<1>3. qdelay_ans = Ellipse!Counted(L) /\ (L \in Ellipse!RowIntervals <=> qdelay_ans # {})
  BY <1>2, IntervalEnds
<1>4. \A u \in Ellipse!RowIntervals : u \in Nat /\ u <= L
  <2> SUFFICES ASSUME NEW u \in Ellipse!RowIntervals PROVE u \in Nat /\ u <= L
    OBVIOUS
  <2>1. PICK k \in 1 .. Len(qdelay) : qdelay[k] = u
    BY <1>2 DEF Ellipse!RowIntervals, Ellipse!Counted, Ellipse!SamplesOf
  <2> QED
    BY <1>2, <2>1
<1>5. RowsBelow(L) \subseteq Ellipse!RowIntervals
      /\ \A u \in Ellipse!RowIntervals : u = L \/ u \in RowsBelow(L)
  BY <1>2, <1>4 DEF RowsBelow
<1>6. /\ throughput_index' \in 1 .. Len(throughput) + 1
      /\ rows' \in Seq([samples : SUBSET Nat, lines : SUBSET Nat])
      /\ Len(rows') = Cardinality(Ellipse!RowIntervals)
      /\ \A u \in Ellipse!RowIntervals : /\ Ellipse!Rank(u) \in 1 .. Len(rows')
                                         /\ rows'[Ellipse!Rank(u)] = RowOf(u)
  <2>1. CASE qdelay_ans = {} /\ UNCHANGED <<throughput_index, rows>>
    <3>1. Ellipse!RowIntervals = RowsBelow(L)
      BY <1>3, <1>5, <2>1
    <3> QED
      BY <1>2, <2>1, <3>1 DEF PassUpTo, PassShape, RowsAreThoseOf
  <2>2. CASE qdelay_ans # {} /\ Ellipse!WriteRow(Len(throughput) + 1)
    <3>1. Ellipse!RowIntervals = RowsBelow(L) \cup {L} /\ L \in Ellipse!RowIntervals
      BY <1>3, <1>5, <2>2
    <3>2. ASSUME NEW k \in 1 .. Len(throughput)
          PROVE  Ellipse!Before(k, L) <=> k < Len(throughput) + 1
      <4>1. \A j \in DOMAIN qdelay : ~ (qdelay[j] > L)
        BY <1>2
      <4>2. Ellipse!Before(k, L)
        BY <4>1 DEF Ellipse!Before
      <4> QED
        BY <1>2, <4>2
    <3>3. Len(throughput) + 1 \in 1 .. Len(throughput) + 1
      BY <1>2
    <3>4. throughput_index' = Len(throughput) + 1
      BY <2>2 DEF Ellipse!WriteRow
    <3> QED
      BY <1>2, <1>3, <2>2, <3>1, <3>2, <3>3, <3>4, RowWritten
  <2> QED
    BY <2>1, <2>2 DEF Ellipse!Close
<1>7. RowsAreThoseOf(Ellipse!RowIntervals)'
  BY <1>1, <1>6, FilesStay DEF RowsAreThoseOf
<1>8. PassShape'
  BY <1>1, <1>2, <1>6 DEF PassShape
<1>9. FilesInOrder'
  BY <1>1, <1>2, FilesStay
<1> QED
  BY <1>1, <1>2, <1>7, <1>8, <1>9 DEF EllipseInv

LEMMA EllipseStutters ==
    ASSUME EllipseInv, UNCHANGED ellipseVars
    PROVE  EllipseInv'
<1>1. UNCHANGED <<qdelay, throughput, next, last_time_interval, qdelay_ans,
                  throughput_index, rows, closed>>
  BY DEF ellipseVars
<1>2. PassUpTo' <=> PassUpTo
  BY <1>1, FilesStay DEF PassUpTo, RowsAreThoseOf
<1>3. RowsAreThoseOf(Ellipse!RowIntervals)' <=> RowsAreThoseOf(Ellipse!RowIntervals)
  BY <1>1, FilesStay DEF RowsAreThoseOf
<1> QED
  BY <1>1, <1>2, <1>3, FilesStay DEF EllipseInv, PassShape

LEMMA EllipseStep ==
    EllipseInv /\ [ScriptsNext]_<<program, ellipseVars, seriesVars>> => EllipseInv'
BY AverageInv, IntervalInv, CloseInv, EllipseStutters DEF ScriptsNext, Ellipse!Next

\* No interval that is not yet written has a rank within the rows of the file.
LEMMA EllipseRowsHold == EllipseInv => EllipseRows
<1> SUFFICES ASSUME EllipseInv PROVE Ellipse!RowsAsDefined
  BY DEF EllipseRows
<1>1. CASE closed
  <2>1. RowsAreThoseOf(Ellipse!RowIntervals)
    BY <1>1 DEF EllipseInv
  <2> QED
    BY <2>1, EllipseCardinality DEF Ellipse!RowsAsDefined, RowsAreThoseOf, RowOf
<1>2. CASE ~ closed
  <2>1. RowsAreThoseOf(RowsBelow(last_time_interval)) /\ last_time_interval \in Nat
    BY <1>2, SamplesRead DEF EllipseInv, PassUpTo
  <2>2. ASSUME NEW v \in Ellipse!RowIntervals, Ellipse!Rank(v) <= Len(rows)
        PROVE  v \in RowsBelow(last_time_interval)
    <3>1. v \in Nat
      BY RowIntervalsAreNumbers
    <3>2. CASE v < last_time_interval
      BY <3>2 DEF RowsBelow
    <3>3. CASE last_time_interval <= v
      <4>1. /\ Cardinality(RowsBelow(last_time_interval)) <= Cardinality(RowsBelow(v))
            /\ Cardinality(RowsBelow(last_time_interval)) \in Nat
        BY <2>1, <3>1, <3>3, RowsBelowGrow
      <4>2. Ellipse!Rank(v) = Cardinality(RowsBelow(v)) + 1 /\ Cardinality(RowsBelow(v)) \in Nat
        BY RanksFollow
      <4>3. Len(rows) = Cardinality(RowsBelow(last_time_interval))
        BY <2>1 DEF RowsAreThoseOf
      <4> QED
        BY <2>2, <4>1, <4>2, <4>3
    <3> QED
      BY <2>1, <3>1, <3>2, <3>3
  <2> QED
    BY <1>2, <2>1, <2>2 DEF Ellipse!RowsAsDefined, RowsAreThoseOf, RowOf
<1>3. closed \in BOOLEAN
  BY DEF EllipseInv, PassShape
<1> QED
  BY <1>1, <1>2, <1>3

\* For files of any length: the rows of the ellipse input are those of the
\* intervals in which a sample counts, in their order; the mean delay of a row is
\* over the samples of its interval, and its mean throughput over the lines that come
\* before the next interval and in no earlier row.
THEOREM EllipseRowsAreThoseOfIntervals == ScriptsSpec => []EllipseRows
BY EllipseInit, EllipseStep, EllipseRowsHold, PTL DEF ScriptsSpec

-----------------------------------------------------------------------------
(* The series: least numbers and lists in order *)

LEMMA LeastNumber ==
    ASSUME NEW T \in SUBSET Nat, T # {}
    PROVE  \E n \in T : \A m \in T : n <= m
<1> DEFINE lt == OpToRel(<, Nat)
<1>1. IsWellFoundedOn(lt, Nat)
  BY NatLessThanWellFounded, Zenon
<1>2. \A m, n \in Nat : m < n => <<m, n>> \in lt
  BY Zenon DEF OpToRel
<1> HIDE DEF lt
<1>3. PICK n \in T : \A m \in T : ~ (<<m, n>> \in lt)
  BY <1>1, WFMin
<1>4. ASSUME NEW m \in T PROVE n <= m
  <2>1. m \in Nat /\ n \in Nat
    OBVIOUS
  <2>2. ~ (m < n)
    BY <1>2, <1>3, <2>1
  <2> QED
    BY <2>1, <2>2
<1> QED
  BY <1>4

\* A strict total order of the members of S.
Orders(S, order) ==
    /\ \A x \in S : <<x, x>> \notin order
    /\ \A x, y \in S : x = y \/ <<x, y>> \in order \/ <<y, x>> \in order
    /\ \A x, y, z \in S : <<x, y>> \in order /\ <<y, z>> \in order => <<x, z>> \in order

\* The members of S that come before x, and the number of them.
Preceding(S, order, x) == {y \in S : <<y, x>> \in order}
PlaceOf(S, order, x) == Cardinality(Preceding(S, order, x))

LEMMA PlacesFollow ==
    ASSUME NEW S, IsFiniteSet(S), NEW order, Orders(S, order),
           NEW x \in S
    PROVE  /\ PlaceOf(S, order, x) \in 0 .. Cardinality(S) - 1
           /\ \A y \in S : <<y, x>> \in order => PlaceOf(S, order, y) < PlaceOf(S, order, x)
<1>1. ASSUME NEW A \in SUBSET S, NEW B \in SUBSET S, A \subseteq B, NEW z \in B, z \notin A
      PROVE  /\ Cardinality(A) \in Nat /\ Cardinality(B) \in Nat
             /\ Cardinality(A) < Cardinality(B)
  <2>1. IsFiniteSet(A) /\ IsFiniteSet(B) /\ Cardinality(A) \in Nat /\ Cardinality(B) \in Nat
    BY FS_Subset, FS_CardinalityType
  <2>2. A \cup {z} \in SUBSET B /\ Cardinality(A \cup {z}) = Cardinality(A) + 1
    BY <1>1, <2>1, FS_AddElement
  <2>3. Cardinality(A \cup {z}) <= Cardinality(B)
    BY <2>1, <2>2, FS_Subset
  <2> QED
    BY <2>1, <2>2, <2>3
<1>2. PlaceOf(S, order, x) \in 0 .. Cardinality(S) - 1
  <2>1. Preceding(S, order, x) \in SUBSET S /\ x \notin Preceding(S, order, x)
    BY DEF Preceding, Orders
  <2>2. /\ Cardinality(Preceding(S, order, x)) \in Nat /\ Cardinality(S) \in Nat
        /\ Cardinality(Preceding(S, order, x)) < Cardinality(S)
    BY <1>1, <2>1
  <2> QED
    BY <2>2 DEF PlaceOf
<1>3. ASSUME NEW y \in S, <<y, x>> \in order
      PROVE  PlaceOf(S, order, y) < PlaceOf(S, order, x)
  <2>1. Preceding(S, order, y) \in SUBSET S /\ Preceding(S, order, x) \in SUBSET S
    BY DEF Preceding
  <2>2. y \in Preceding(S, order, x) /\ y \notin Preceding(S, order, y)
    BY <1>3 DEF Preceding, Orders
  <2>3. Preceding(S, order, y) \subseteq Preceding(S, order, x)
    BY <1>3 DEF Preceding, Orders
  <2> QED
    BY <1>1, <2>1, <2>2, <2>3 DEF PlaceOf
<1> QED
  BY <1>2, <1>3

\* Every place is taken, since there are as many places as members.
LEMMA PlacesAreTaken ==
    ASSUME NEW S, IsFiniteSet(S), NEW order, Orders(S, order)
    PROVE  /\ \A x, y \in S : PlaceOf(S, order, x) = PlaceOf(S, order, y) => x = y
           /\ \A k \in 0 .. Cardinality(S) - 1 : \E x \in S : PlaceOf(S, order, x) = k
<1> DEFINE places == 0 .. Cardinality(S) - 1
           place == [x \in S |-> PlaceOf(S, order, x)]
<1>1. Cardinality(S) \in Nat
  BY FS_CardinalityType
<1>2. \A x \in S : PlaceOf(S, order, x) \in Int
  BY PlacesFollow
<1>3. ASSUME NEW x \in S, NEW y \in S, PlaceOf(S, order, x) = PlaceOf(S, order, y)
      PROVE  x = y
  <2>1. ~ PlaceOf(S, order, x) < PlaceOf(S, order, y)
        /\ ~ PlaceOf(S, order, y) < PlaceOf(S, order, x)
    BY <1>2, <1>3
  <2>2. <<x, y>> \notin order /\ <<y, x>> \notin order
    BY <2>1, PlacesFollow
  <2> QED
    BY <2>2 DEF Orders
<1>4. IsFiniteSet(places) /\ Cardinality(places) = Cardinality(S)
  BY <1>1, FS_Interval
<1>5. place \in Injection(S, places)
  <2>1. place \in [S -> places]
    BY PlacesFollow
  <2>2. \A x, y \in S : place[x] = place[y] => x = y
    BY <1>3
  <2> HIDE DEF place, places
  <2> QED
    BY <2>1, <2>2 DEF Injection, IsInjective
<1> HIDE DEF places, place
<1>6. place \in Surjection(S, places)
  BY <1>4, <1>5, FS_Injection
<1>7. \A k \in places : \E x \in S : place[x] = k
  BY <1>6 DEF Surjection
<1> QED
  BY <1>3, <1>7 DEF places, place

\* A list in order has each member once, each after those that come before it.
LEMMA ListedInOrder ==
    ASSUME NEW S, IsFiniteSet(S), NEW order, Orders(S, order)
    PROVE  /\ InOrder(S, order) \in Seq(S) /\ Len(InOrder(S, order)) = Cardinality(S)
           /\ \A x \in S : \E k \in 1 .. Cardinality(S) : InOrder(S, order)[k] = x
           /\ \A j, k \in 1 .. Cardinality(S) :
                  j < k => <<InOrder(S, order)[j], InOrder(S, order)[k]>> \in order
<1> DEFINE s == InOrder(S, order)
           member(k) == CHOOSE x \in S : Cardinality({y \in S : <<y, x>> \in order}) = k - 1
<1>1. Cardinality(S) \in Nat
  BY FS_CardinalityType
<1>2. ASSUME NEW k \in 1 .. Cardinality(S)
      PROVE  s[k] \in S /\ PlaceOf(S, order, s[k]) = k - 1
  <2>1. PICK x \in S : PlaceOf(S, order, x) = k - 1
    <3>1. k - 1 \in 0 .. Cardinality(S) - 1
      BY <1>1
    <3> QED
      BY <3>1, PlacesAreTaken
  <2>2. Cardinality({y \in S : <<y, x>> \in order}) = k - 1
    BY <2>1 DEF PlaceOf, Preceding
  <2>3. member(k) \in S /\ Cardinality({y \in S : <<y, member(k)>> \in order}) = k - 1
    BY <2>2
  <2>4. s[k] = member(k)
    BY DEF InOrder
  <2> HIDE DEF s, member
  <2> QED
    BY <2>3, <2>4 DEF PlaceOf, Preceding
<1>3. s = [k \in 1 .. Cardinality(S) |-> member(k)]
  BY DEF InOrder
<1> HIDE DEF s, member
<1>4. s \in Seq(S) /\ Len(s) = Cardinality(S)
  <2>1. s \in [1 .. Cardinality(S) -> S]
    BY <1>2, <1>3
  <2> QED
    BY <1>1, <2>1
<1>5. ASSUME NEW x \in S
      PROVE  \E k \in 1 .. Cardinality(S) : s[k] = x
  <2>1. PlaceOf(S, order, x) + 1 \in 1 .. Cardinality(S)
    BY <1>1, PlacesFollow
  <2>2. /\ s[PlaceOf(S, order, x) + 1] \in S
        /\ PlaceOf(S, order, s[PlaceOf(S, order, x) + 1]) = PlaceOf(S, order, x)
    BY <1>2, <2>1, PlacesFollow
  <2> QED
    BY <2>1, <2>2, PlacesAreTaken
<1>6. ASSUME NEW j \in 1 .. Cardinality(S), NEW k \in 1 .. Cardinality(S), j < k
      PROVE  <<s[j], s[k]>> \in order
  <2>1. s[j] \in S /\ s[k] \in S /\ PlaceOf(S, order, s[j]) < PlaceOf(S, order, s[k])
    BY <1>1, <1>2, <1>6
  <2>2. s[j] # s[k] /\ <<s[k], s[j]>> \notin order
    <3>1. PlaceOf(S, order, s[j]) \in Int /\ PlaceOf(S, order, s[k]) \in Int
      BY <2>1, PlacesFollow
    <3> QED
      BY <2>1, <3>1, PlacesFollow
  <2> QED
    BY <2>1, <2>2 DEF Orders
<1> QED
  BY <1>4, <1>5, <1>6 DEF s

LEMMA EntryFacts ==
    /\ IsFiniteSet(Entries)
    /\ \A e \in Entries :
           /\ e.time \in Nat /\ e.time > 0 /\ e.size \in Nat /\ e.copy \in Nat
           /\ TextRank(e.time) \in Int /\ TextRank(e.size) \in Int
    /\ \A d, e \in Entries :
           /\ TextRank(d.time) = TextRank(e.time) <=> d.time = e.time
           /\ TextRank(d.size) = TextRank(e.size) <=> d.size = e.size
           /\ d.time = e.time /\ d.size = e.size /\ d.copy = e.copy => d = e
<1>1. IsFiniteSet(Entries) /\ Entries \subseteq [time : Nat \ {0}, size : Nat, copy : Nat]
  BY SeriesAssumption
<1>2. ASSUME NEW e \in Entries
      PROVE  /\ e.time \in Nat /\ e.time > 0 /\ e.size \in Nat /\ e.copy \in Nat
             /\ e.time \in Numbers /\ e.size \in Numbers
             /\ e = [time |-> e.time, size |-> e.size, copy |-> e.copy]
  <2>1. e \in [time : Nat \ {0}, size : Nat, copy : Nat]
    BY <1>1
  <2> QED
    BY <2>1 DEF Numbers
<1>3. \A m, n \in Numbers :
          TextRank(n) \in Int /\ (TextRank(m) = TextRank(n) <=> m = n)
  BY SeriesAssumption
<1> QED
  BY <1>1, <1>2, <1>3

\* Both orders of the entries are strict and total.
LEMMA EntryOrders ==
    ASSUME NEW d \in Entries, NEW e \in Entries, NEW f \in Entries
    PROVE  /\ ~ Before(d, d) /\ ~ TextBefore(d, d)
           /\ d = e \/ Before(d, e) \/ Before(e, d)
           /\ d = e \/ TextBefore(d, e) \/ TextBefore(e, d)
           /\ Before(d, e) /\ Before(e, f) => Before(d, f)
           /\ TextBefore(d, e) /\ TextBefore(e, f) => TextBefore(d, f)
           /\ Before(d, e) => d.time <= e.time
BY EntryFacts DEF Before, TextBefore

LEMMA EntriesListed ==
    ASSUME NEW S \in SUBSET Entries
    PROVE  /\ IsFiniteSet(S) /\ Cardinality(S) \in Nat
           /\ InOrder(S, TimeOrder) \in Seq(S) /\ Len(InOrder(S, TimeOrder)) = Cardinality(S)
           /\ \A e \in S : \E k \in 1 .. Cardinality(S) : InOrder(S, TimeOrder)[k] = e
           /\ \A j, k \in 1 .. Cardinality(S) :
                  j < k => Before(InOrder(S, TimeOrder)[j], InOrder(S, TimeOrder)[k])
<1>1. IsFiniteSet(S) /\ Cardinality(S) \in Nat
  BY EntryFacts, FS_Subset, FS_CardinalityType
<1>2. \A d, e : <<d, e>> \in TimeOrder <=> d \in Entries /\ e \in Entries /\ Before(d, e)
  BY DEF TimeOrder
<1>3. Orders(S, TimeOrder)
  <2>1. \A d \in S : <<d, d>> \notin TimeOrder
    BY <1>2, EntryOrders
  <2>2. \A d, e \in S : d = e \/ <<d, e>> \in TimeOrder \/ <<e, d>> \in TimeOrder
    BY <1>2, EntryOrders
  <2>3. \A d, e, f \in S :
            <<d, e>> \in TimeOrder /\ <<e, f>> \in TimeOrder => <<d, f>> \in TimeOrder
    BY <1>2, EntryOrders
  <2> QED
    BY <2>1, <2>2, <2>3 DEF Orders
<1> DEFINE list == InOrder(S, TimeOrder)
<1>4. /\ list \in Seq(S) /\ Len(list) = Cardinality(S)
      /\ \A e \in S : \E k \in 1 .. Cardinality(S) : list[k] = e
      /\ \A j, k \in 1 .. Cardinality(S) : j < k => <<list[j], list[k]>> \in TimeOrder
  BY <1>1, <1>3, ListedInOrder
<1> HIDE DEF list
<1>5. \A j, k \in 1 .. Cardinality(S) : j < k => Before(list[j], list[k])
  BY <1>2, <1>4
<1> QED
  BY <1>1, <1>4, <1>5 DEF list

LEMMA LinesListed ==
    ASSUME NEW S \in SUBSET Line
    PROVE  /\ IsFiniteSet(S)
           /\ InOrder(S, TextOrder) \in Seq(Line)
           /\ \A j, k \in 1 .. Len(InOrder(S, TextOrder)) :
                  j < k => <<InOrder(S, TextOrder)[j], InOrder(S, TextOrder)[k]>> \in TextOrder
<1>1. IsFiniteSet(S)
  <2>1. IsFiniteSet(SeriesFlows \X Entries)
    BY SeriesAssumption, FS_Product
  <2> DEFINE pair == [r \in Line |-> <<r.flow, r.entry>>]
  <2>2. pair \in Injection(Line, SeriesFlows \X Entries)
    <3>1. pair \in [Line -> SeriesFlows \X Entries]
      BY DEF Line
    <3>2. ASSUME NEW r \in Line, NEW s \in Line, pair[r] = pair[s]
          PROVE  r = s
      <4>1. r.flow = s.flow /\ r.entry = s.entry
        BY <3>2
      <4> QED
        BY <4>1 DEF Line
    <3> HIDE DEF pair
    <3> QED
      BY <3>1, <3>2 DEF Injection, IsInjective
  <2>3. IsFiniteSet(Line)
    BY <2>1, <2>2, FS_Injection
  <2> QED
    BY <2>3, FS_Subset
<1>2. \A r, s : <<r, s>> \in TextOrder
                  <=> /\ r \in Line /\ s \in Line
                      /\ \/ r.flow < s.flow
                         \/ r.flow = s.flow /\ TextBefore(r.entry, s.entry)
  BY DEF TextOrder
<1>3. \A r \in Line : r.flow \in Int /\ r.entry \in Entries
  BY SeriesAssumption DEF Line
<1>4. \A r, s \in Line : r.flow = s.flow /\ r.entry = s.entry => r = s
  BY DEF Line
<1>5. Orders(S, TextOrder)
  <2>1. \A r \in S : <<r, r>> \notin TextOrder
    BY <1>2, <1>3, EntryOrders
  <2>2. \A r, s \in S : r = s \/ <<r, s>> \in TextOrder \/ <<s, r>> \in TextOrder
    <3> SUFFICES ASSUME NEW r \in S, NEW s \in S, r # s
                 PROVE  <<r, s>> \in TextOrder \/ <<s, r>> \in TextOrder
      OBVIOUS
    <3>1. r \in Line /\ s \in Line
      OBVIOUS
    <3>2. CASE r.flow = s.flow
      <4>1. r.entry # s.entry
        BY <1>4, <3>1, <3>2
      <4>2. TextBefore(r.entry, s.entry) \/ TextBefore(s.entry, r.entry)
        BY <1>3, <3>1, <4>1, EntryOrders
      <4> QED
        BY <1>2, <3>1, <3>2, <4>2
    <3>3. CASE r.flow # s.flow
      <4>1. r.flow < s.flow \/ s.flow < r.flow
        BY <1>3, <3>1, <3>3
      <4> QED
        BY <1>2, <3>1, <4>1
    <3> QED
      BY <3>2, <3>3
  <2>3. ASSUME NEW r \in S, NEW s \in S, NEW u \in S,
               <<r, s>> \in TextOrder, <<s, u>> \in TextOrder
        PROVE  <<r, u>> \in TextOrder
    <3>1. r \in Line /\ s \in Line /\ u \in Line
      OBVIOUS
    <3>2. /\ r.flow \in Int /\ s.flow \in Int /\ u.flow \in Int
          /\ r.entry \in Entries /\ s.entry \in Entries /\ u.entry \in Entries
      BY <1>3, <3>1
    <3>3. TextBefore(r.entry, s.entry) /\ TextBefore(s.entry, u.entry)
              => TextBefore(r.entry, u.entry)
      BY <3>2, EntryOrders
    <3>4. /\ r.flow < s.flow \/ (r.flow = s.flow /\ TextBefore(r.entry, s.entry))
          /\ s.flow < u.flow \/ (s.flow = u.flow /\ TextBefore(s.entry, u.entry))
      BY <1>2, <2>3
    <3>5. r.flow < u.flow \/ (r.flow = u.flow /\ TextBefore(r.entry, u.entry))
      BY <3>2, <3>3, <3>4
    <3> QED
      BY <1>2, <3>1, <3>5
  <2> QED
    BY <2>1, <2>2, <2>3 DEF Orders
<1>6. /\ InOrder(S, TextOrder) \in Seq(S) /\ Len(InOrder(S, TextOrder)) = Cardinality(S)
      /\ \A j, k \in 1 .. Cardinality(S) :
             j < k => <<InOrder(S, TextOrder)[j], InOrder(S, TextOrder)[k]>> \in TextOrder
  BY <1>1, <1>5, ListedInOrder
<1>7. InOrder(S, TextOrder) \in Seq(Line)
  BY <1>6
<1> QED
  BY <1>1, <1>6, <1>7

-----------------------------------------------------------------------------
(* The series: the rounds over the records of a flow *)

FirstRound == [counted |-> {}, last_recorded |-> 0, points |-> <<>>]

\* A recursive function on the numbers up to n exists.
LEMMA RoundsFollow ==
    ASSUME NEW list, Len(list) \in Nat
    PROVE  /\ Rounds(list)[0] = FirstRound
           /\ \A k \in 1 .. Len(list) : Rounds(list)[k] = AddRecord(Rounds(list)[k - 1], list[k])
<1> DEFINE follows(f, n) ==
               f = [k \in 0 .. n |-> IF k = 0 THEN FirstRound ELSE AddRecord(f[k - 1], list[k])]
           without == {n \in Nat : ~ \E f : follows(f, n)}
<1>1. \E f : follows(f, 0)
  <2> DEFINE f == [k \in 0 .. 0 |-> FirstRound]
  <2>1. f = [k \in 0 .. 0 |-> IF k = 0 THEN FirstRound ELSE AddRecord(f[k - 1], list[k])]
    OBVIOUS
  <2> QED
    BY <2>1
<1>2. ASSUME NEW n \in Nat, NEW f, follows(f, n)
      PROVE  \E g : follows(g, n + 1)
  <2> DEFINE g == [k \in 0 .. n + 1 |-> IF k = n + 1 THEN AddRecord(f[n], list[k]) ELSE f[k]]
  <2>1. \A k \in 0 .. n : f[k] = IF k = 0 THEN FirstRound ELSE AddRecord(f[k - 1], list[k])
    BY <1>2
  <2>2. ASSUME NEW k \in 0 .. n + 1
        PROVE  g[k] = IF k = 0 THEN FirstRound ELSE AddRecord(g[k - 1], list[k])
    <3>1. CASE k = n + 1
      BY <3>1
    <3>2. CASE k # n + 1
      <4>1. k \in 0 .. n /\ (k # 0 => k - 1 \in 0 .. n /\ k - 1 # n + 1 /\ k - 1 \in 0 .. n + 1)
        BY <3>2
      <4> QED
        BY <2>1, <3>2, <4>1
    <3> QED
      BY <3>1, <3>2
  <2>3. g = [k \in 0 .. n + 1 |-> g[k]]
    OBVIOUS
  <2> HIDE DEF g
  <2>4. follows(g, n + 1)
    BY <2>2, <2>3
  <2> QED
    BY <2>4
<1>3. without = {}
  <2>1. SUFFICES ASSUME without # {} PROVE FALSE
    OBVIOUS
  <2> HIDE DEF follows
  <2>2. PICK n \in without : \A m \in without : n <= m
    BY <2>1, LeastNumber
  <2>3. n \in Nat /\ n # 0 /\ n - 1 \in Nat /\ n - 1 \notin without
    BY <1>1, <2>2
  <2>4. PICK f : follows(f, n - 1)
    BY <2>3
  <2>5. \E g : follows(g, (n - 1) + 1)
    BY <1>2, <2>3, <2>4
  <2> QED
    BY <2>2, <2>3, <2>5
<1>4. \E f : follows(f, Len(list))
  BY <1>3
<1>5. Rounds(list) = CHOOSE f : follows(f, Len(list))
  BY DEF Rounds, FirstRound
<1>6. follows(Rounds(list), Len(list))
  <2> HIDE DEF follows
  <2> QED
    BY <1>4, <1>5
<1> QED
  BY <1>6

Point == [time : Nat, counted : SUBSET Entries]
Round == [counted : SUBSET Entries, last_recorded : Nat, points : Seq(Point)]

\* Each point has the records added up before it, and follows the point before.
PointsInOrder(points, counted) ==
    /\ \A k \in 1 .. Len(points) : points[k].counted = {e \in counted : e.time < points[k].time}
    /\ \A j, k \in 1 .. Len(points) : j <= k => points[j].time <= points[k].time

\* What the rounds have done when the records in S have passed: those added up are
\* within a window, and the time of the last one that is not is remembered.
RoundInv(acc, S) ==
    /\ acc \in Round
    /\ acc.counted \subseteq S /\ Windowed(S, acc.counted)
    /\ acc.last_recorded \in {0} \cup {o.time : o \in S \ acc.counted}
    /\ \A o \in S \ acc.counted : o.time <= acc.last_recorded
    /\ PointsInOrder(acc.points, acc.counted)
    /\ \A k \in 1 .. Len(acc.points) : \E e \in S : acc.points[k].time = e.time
    /\ acc.counted = {} => acc.points = <<>>

LEMMA RoundsBegin == RoundInv(FirstRound, {})
<1>1. FirstRound \in Round
  BY DEF FirstRound, Round
<1> QED
  BY <1>1 DEF FirstRound, RoundInv, Windowed, PointsInOrder

\* The records that have passed come before the one that follows.
LEMMA RoundFacts ==
    ASSUME NEW S \in SUBSET Entries, NEW t \in Entries, \A u \in S : Before(u, t),
           NEW acc, RoundInv(acc, S)
    PROVE  /\ \A u \in S \cup {t} : u \in Entries /\ u.time \in Nat /\ u.time > 0
           /\ \A u \in S : u.time <= t.time /\ ~ Before(t, u)
           /\ t \notin S /\ ~ Before(t, t) /\ acc.counted \subseteq S
           /\ acc.last_recorded \in Nat /\ acc.last_recorded <= t.time /\ Window \in Int
           /\ \A e \in S : e \in acc.counted
                  <=> \/ e.time < Window
                      \/ \E o \in S \ acc.counted : Before(o, e) /\ e.time - o.time < Window
           /\ \A e \in acc.counted : e.time - acc.last_recorded < Window
<1>1. \A u \in S \cup {t} : u \in Entries /\ u.time \in Nat /\ u.time > 0
  BY EntryFacts
<1>2. \A u \in S : u.time <= t.time /\ ~ Before(t, u)
  <2> SUFFICES ASSUME NEW u \in S PROVE u.time <= t.time /\ ~ Before(t, u)
    OBVIOUS
  <2>1. u \in Entries /\ Before(u, t)
    OBVIOUS
  <2> QED
    BY <2>1, EntryOrders
<1>3. t \notin S /\ ~ Before(t, t)
  BY EntryOrders
<1>4. acc.counted \subseteq S /\ acc.last_recorded \in Nat /\ Window \in Int
  BY SeriesAssumption DEF RoundInv, Round
<1>5. acc.last_recorded <= t.time
  <2>1. acc.last_recorded = 0 \/ \E o \in S : acc.last_recorded = o.time
    BY DEF RoundInv
  <2> QED
    BY <1>1, <1>2, <2>1
<1>6. \A e \in S : e \in acc.counted
          <=> \/ e.time < Window
              \/ \E o \in S \ acc.counted : Before(o, e) /\ e.time - o.time < Window
  BY DEF RoundInv, Windowed
<1>7. ASSUME NEW e \in acc.counted
      PROVE  e.time - acc.last_recorded < Window
  <2>1. e.time \in Nat
    BY <1>1, <1>4
  <2>2. CASE e.time < Window
    BY <1>4, <2>1, <2>2
  <2>3. ASSUME NEW o \in S \ acc.counted, e.time - o.time < Window
        PROVE  e.time - acc.last_recorded < Window
    <3>1. o.time \in Nat /\ o.time <= acc.last_recorded
      BY <1>1 DEF RoundInv
    <3> QED
      BY <1>4, <2>1, <2>3, <3>1
  <2> QED
    BY <1>4, <1>6, <2>2, <2>3
<1> QED
  BY <1>1, <1>2, <1>3, <1>4, <1>5, <1>6, <1>7

LEMMA RoundOpens ==
    ASSUME NEW S \in SUBSET Entries, NEW t \in Entries, \A u \in S : Before(u, t),
           NEW acc, RoundInv(acc, S), t.time - acc.last_recorded >= Window
    PROVE  Windowed(S \cup {t}, acc.counted)
<1>1. /\ \A u \in S \cup {t} : u.time \in Nat
      /\ \A u \in S : ~ Before(t, u)
      /\ t \notin S /\ ~ Before(t, t) /\ acc.counted \subseteq S
      /\ acc.last_recorded \in Nat /\ Window \in Int
      /\ \A e \in S : e \in acc.counted
             <=> \/ e.time < Window
                 \/ \E o \in S \ acc.counted : Before(o, e) /\ e.time - o.time < Window
  BY RoundFacts
<1>2. \A o \in S \ acc.counted : o.time <= acc.last_recorded
  BY DEF RoundInv
<1>3. ASSUME NEW e \in S \cup {t}
      PROVE  e \in acc.counted
                <=> \/ e.time < Window
                    \/ \E o \in (S \cup {t}) \ acc.counted : Before(o, e) /\ e.time - o.time < Window
  <2>1. CASE e = t
    <3>1. ~ t.time < Window
      BY <1>1
    <3>2. ASSUME NEW o \in (S \cup {t}) \ acc.counted, Before(o, t)
          PROVE  ~ t.time - o.time < Window
      <4>1. o \in S \ acc.counted
        BY <1>1, <3>2
      <4> QED
        BY <1>1, <1>2, <4>1
    <3> QED
      BY <1>1, <2>1, <3>1, <3>2
  <2>2. CASE e # t
    BY <1>1, <2>2
  <2> QED
    BY <2>1, <2>2
<1> QED
  BY <1>1, <1>3 DEF Windowed

LEMMA RoundAdds ==
    ASSUME NEW S \in SUBSET Entries, NEW t \in Entries, \A u \in S : Before(u, t),
           NEW acc, RoundInv(acc, S), t.time - acc.last_recorded < Window
    PROVE  Windowed(S \cup {t}, acc.counted \cup {t})
<1>1. /\ t \notin S /\ acc.counted \subseteq S /\ t.time \in Nat
      /\ acc.last_recorded \in Nat /\ Window \in Int
      /\ \A e \in S : e \in acc.counted
             <=> \/ e.time < Window
                 \/ \E o \in S \ acc.counted : Before(o, e) /\ e.time - o.time < Window
  BY RoundFacts
<1>2. (S \cup {t}) \ (acc.counted \cup {t}) = S \ acc.counted
  BY <1>1
<1>3. \/ t.time < Window
      \/ \E o \in S \ acc.counted : Before(o, t) /\ t.time - o.time < Window
  <2>1. acc.last_recorded = 0 \/ \E o \in S \ acc.counted : acc.last_recorded = o.time
    BY DEF RoundInv
  <2>2. acc.last_recorded = 0 => t.time < Window
    BY <1>1
  <2> QED
    BY <2>1, <2>2
<1>4. ASSUME NEW e \in S \cup {t}
      PROVE  e \in acc.counted \cup {t}
                <=> \/ e.time < Window
                    \/ \E o \in S \ acc.counted : Before(o, e) /\ e.time - o.time < Window
  <2>1. CASE e = t
    BY <1>3, <2>1
  <2>2. CASE e # t
    BY <1>1, <2>2
  <2> QED
    BY <2>1, <2>2
<1> QED
  BY <1>1, <1>2, <1>4 DEF Windowed

LEMMA RoundStep ==
    ASSUME NEW S \in SUBSET Entries, NEW t \in Entries, \A u \in S : Before(u, t),
           NEW acc, RoundInv(acc, S)
    PROVE  RoundInv(AddRecord(acc, t), S \cup {t})
<1>1. /\ \A u \in S \cup {t} : u.time \in Nat /\ u.time <= t.time
      /\ \A e \in acc.counted : e.time - acc.last_recorded < Window
      /\ t.time \in Nat /\ acc.last_recorded <= t.time /\ Window \in Int
  <2>1. /\ \A u \in S \cup {t} : u.time \in Nat
        /\ \A u \in S : u.time <= t.time
        /\ \A e \in acc.counted : e.time - acc.last_recorded < Window
        /\ acc.last_recorded <= t.time /\ Window \in Int
    BY RoundFacts
  <2>2. t.time \in Nat
    BY <2>1
  <2>3. t.time <= t.time
    BY <2>2
  <2> QED
    BY <2>1, <2>2, <2>3
<1>2. /\ acc = [counted |-> acc.counted, last_recorded |-> acc.last_recorded,
                points |-> acc.points]
      /\ acc.counted \in SUBSET Entries /\ acc.last_recorded \in Nat /\ acc.points \in Seq(Point)
      /\ Len(acc.points) \in Nat /\ acc.counted \subseteq S /\ t \notin S
  <2>1. acc \in Round /\ acc.counted \subseteq S /\ t \notin S
    BY RoundFacts DEF RoundInv
  <2>2. acc.points \in Seq(Point) => Len(acc.points) \in Nat
    OBVIOUS
  <2> QED
    BY <2>1, <2>2 DEF Round
<1>3. CASE t.time - acc.last_recorded < Window
  <2> DEFINE new == [counted |-> acc.counted \cup {t}, last_recorded |-> acc.last_recorded,
                     points |-> acc.points]
  <2>1. AddRecord(acc, t) = new
    BY <1>2, <1>3 DEF AddRecord
  <2>2. new \in Round
    BY <1>2 DEF Round
  <2>3. Windowed(S \cup {t}, new.counted) /\ new.counted \subseteq S \cup {t}
    BY <1>2, <1>3, RoundAdds
  <2>4. (S \cup {t}) \ new.counted = S \ acc.counted
    BY <1>2
  <2>5. PointsInOrder(new.points, new.counted)
    <3>1. \A k \in 1 .. Len(acc.points) :
              {u \in acc.counted : u.time < acc.points[k].time}
                  = {u \in acc.counted \cup {t} : u.time < acc.points[k].time}
      <4> TAKE k \in 1 .. Len(acc.points)
      <4>1. \E e \in S : acc.points[k].time = e.time
        BY DEF RoundInv
      <4>2. ~ t.time < acc.points[k].time
        BY <1>1, <4>1
      <4> QED
        BY <4>2
    <3> QED
      BY <3>1 DEF RoundInv, PointsInOrder
  <2>6. \A k \in 1 .. Len(new.points) : \E e \in S \cup {t} : new.points[k].time = e.time
    BY DEF RoundInv
  <2>7. /\ new.last_recorded \in {0} \cup {o.time : o \in (S \cup {t}) \ new.counted}
        /\ \A o \in (S \cup {t}) \ new.counted : o.time <= new.last_recorded
        /\ new.counted # {}
    BY <2>4 DEF RoundInv
  <2> HIDE DEF new
  <2> QED
    BY <2>1, <2>2, <2>3, <2>5, <2>6, <2>7 DEF RoundInv
<1>4. CASE ~ t.time - acc.last_recorded < Window
  <2> DEFINE point == [time |-> t.time, counted |-> acc.counted]
             points == IF acc.counted = {} THEN acc.points ELSE Append(acc.points, point)
             new == [counted |-> acc.counted, last_recorded |-> t.time, points |-> points]
  <2>1. AddRecord(acc, t) = new
    BY <1>2, <1>4 DEF AddRecord
  <2>2. point \in Point /\ point.time = t.time /\ point.counted = {u \in acc.counted : u.time < t.time}
    <3>1. ASSUME NEW u \in acc.counted
          PROVE  u.time < t.time
      <4>1. u.time \in Nat /\ u.time <= t.time /\ u.time # t.time
        BY <1>1, <1>2, <1>4
      <4> QED
        BY <1>1, <4>1
    <3> QED
      BY <1>1, <1>2, <3>1 DEF Point
  <2>3. points \in Seq(Point)
    BY <1>2, <2>2
  <2>4. new \in Round
    BY <1>1, <1>2, <2>3 DEF Round
  <2>5. Windowed(S \cup {t}, new.counted) /\ new.counted \subseteq S \cup {t}
    <3>1. t.time - acc.last_recorded >= Window
      BY <1>1, <1>2, <1>4
    <3> QED
      BY <1>2, <3>1, RoundOpens
  <2>6. /\ new.last_recorded \in {0} \cup {o.time : o \in (S \cup {t}) \ new.counted}
        /\ \A o \in (S \cup {t}) \ new.counted : o.time <= new.last_recorded
    BY <1>1, <1>2
  <2>7. /\ PointsInOrder(points, acc.counted)
        /\ \A k \in 1 .. Len(points) : \E e \in S \cup {t} : points[k].time = e.time
    <3>1. CASE acc.counted = {}
      BY <3>1 DEF RoundInv
    <3>2. CASE acc.counted # {}
      <4>1. /\ points = Append(acc.points, point) /\ Len(points) = Len(acc.points) + 1
            /\ points[Len(points)] = point
            /\ \A k \in 1 .. Len(acc.points) : points[k] = acc.points[k]
        BY <1>2, <2>2, <3>2
      <4>2. \A k \in 1 .. Len(acc.points) :
                /\ \E e \in S : points[k].time = e.time
                /\ points[k].counted = {u \in acc.counted : u.time < points[k].time}
        BY <4>1 DEF RoundInv, PointsInOrder
      <4>3. \A j, k \in 1 .. Len(acc.points) : j <= k => points[j].time <= points[k].time
        BY <4>1 DEF RoundInv, PointsInOrder
      <4> HIDE DEF points, point
      <4>4. \A k \in 1 .. Len(points) : k \in 1 .. Len(acc.points) \/ k = Len(points)
        BY <1>2, <4>1
      <4>5. \A j, k \in 1 .. Len(points) : j <= k => points[j].time <= points[k].time
        <5> SUFFICES ASSUME NEW j \in 1 .. Len(points), NEW k \in 1 .. Len(points), j <= k
                     PROVE  points[j].time <= points[k].time
          OBVIOUS
        <5>1. CASE k \in 1 .. Len(acc.points)
          BY <1>2, <4>3, <5>1
        <5>2. CASE k = Len(points)
          <6>1. points[k].time = t.time
            BY <2>2, <4>1, <5>2
          <6>2. \E e \in S \cup {t} : points[j].time = e.time
            BY <2>2, <4>1, <4>2, <4>4
          <6> QED
            BY <1>1, <6>1, <6>2
        <5> QED
          BY <4>4, <5>1, <5>2
      <4>6. \A k \in 1 .. Len(points) :
                /\ points[k].counted = {u \in acc.counted : u.time < points[k].time}
                /\ \E e \in S \cup {t} : points[k].time = e.time
        BY <2>2, <4>1, <4>2, <4>4
      <4> QED
        BY <4>5, <4>6 DEF PointsInOrder
    <3> QED
      BY <3>1, <3>2
  <2>8. acc.counted = {} => points = <<>>
    BY DEF RoundInv
  <2> HIDE DEF points
  <2> QED
    BY <2>1, <2>4, <2>5, <2>6, <2>7, <2>8 DEF RoundInv
<1> QED
  BY <1>3, <1>4

Passed(list, k) == {list[j] : j \in 1 .. k}

LEMMA RoundsInv ==
    ASSUME NEW list \in Seq(Entries),
           \A j, k \in 1 .. Len(list) : j < k => Before(list[j], list[k]),
           NEW n \in 0 .. Len(list)
    PROVE  RoundInv(Rounds(list)[n], Passed(list, n))
<1> DEFINE wrong == {k \in 0 .. Len(list) : ~ RoundInv(Rounds(list)[k], Passed(list, k))}
<1>1. /\ Len(list) \in Nat /\ \A k \in 1 .. Len(list) : list[k] \in Entries
      /\ Rounds(list)[0] = FirstRound
      /\ \A k \in 1 .. Len(list) : Rounds(list)[k] = AddRecord(Rounds(list)[k - 1], list[k])
  <2>1. Len(list) \in Nat /\ \A k \in 1 .. Len(list) : list[k] \in Entries
    BY ElementOfSeq
  <2> QED
    BY <2>1, RoundsFollow
<1>2. 0 \notin wrong
  <2>1. Passed(list, 0) = {}
    BY DEF Passed
  <2> QED
    BY <1>1, <2>1, RoundsBegin
<1>3. ASSUME NEW k \in 1 .. Len(list), k - 1 \notin wrong
      PROVE  k \notin wrong
  <2>1. k - 1 \in 0 .. Len(list) /\ RoundInv(Rounds(list)[k - 1], Passed(list, k - 1))
    BY <1>1, <1>3
  <2>2. Passed(list, k - 1) \in SUBSET Entries /\ list[k] \in Entries
    BY <1>1 DEF Passed
  <2>3. \A u \in Passed(list, k - 1) : Before(u, list[k])
    <3>1. \A j \in 1 .. k - 1 : Before(list[j], list[k])
      <4> SUFFICES ASSUME NEW j \in 1 .. k - 1 PROVE Before(list[j], list[k])
        OBVIOUS
      <4>1. j \in 1 .. Len(list) /\ j < k
        BY <1>1
      <4> QED
        BY <4>1
    <3> QED
      BY <3>1 DEF Passed
  <2>4. Passed(list, k) = Passed(list, k - 1) \cup {list[k]}
    <3>1. \A j : j \in 1 .. k <=> j \in 1 .. k - 1 \/ j = k
      BY <1>1
    <3> QED
      BY <3>1 DEF Passed
  <2> QED
    BY <1>1, <2>1, <2>2, <2>3, <2>4, RoundStep
<1>4. wrong = {}
  <2>1. SUFFICES ASSUME wrong # {} PROVE FALSE
    OBVIOUS
  <2>2. wrong \in SUBSET Nat
    BY <1>1
  <2>3. PICK k \in wrong : \A j \in wrong : k <= j
    BY <2>1, <2>2, LeastNumber
  <2>4. k \in 0 .. Len(list) /\ k # 0
    BY <1>2, <2>3
  <2> HIDE DEF wrong
  <2>5. k \in 1 .. Len(list) /\ k - 1 \notin wrong
    BY <1>1, <2>3, <2>4
  <2> QED
    BY <1>3, <2>3, <2>5
<1> QED
  BY <1>4

\* The last record of a flow that has none is that of a flow before: any number.
LEMMA SummedIsGoodput ==
    ASSUME NEW S \in SUBSET Entries, NEW last,
           S # {} => last = InOrder(S, TimeOrder)[Cardinality(S)].time
    PROVE  /\ Summed(InOrder(S, TimeOrder), last) \in Seq(Point)
           /\ GoodputOf(S, Summed(InOrder(S, TimeOrder), last))
<1> DEFINE list == InOrder(S, TimeOrder)
           n == Cardinality(S)
           acc == Rounds(list)[n]
<1>1. /\ n \in Nat /\ IsFiniteSet(S) /\ list \in Seq(S) /\ Len(list) = n
      /\ \A e \in S : \E k \in 1 .. n : list[k] = e
      /\ \A j, k \in 1 .. n : j < k => Before(list[j], list[k])
  BY EntriesListed
<1> HIDE DEF list, n
<1>2. list \in Seq(Entries) /\ \A k \in 1 .. n : list[k] \in S
  BY <1>1, ElementOfSeq
<1>3. \A e \in S : e.time \in Nat
  BY EntryFacts
<1>4. RoundInv(acc, S)
  <2>1. Passed(list, n) = S
    BY <1>1, <1>2 DEF Passed
  <2> QED
    BY <1>1, <1>2, <2>1, RoundsInv
<1>5. /\ acc.counted \subseteq S /\ acc.points \in Seq(Point) /\ Windowed(S, acc.counted)
      /\ PointsInOrder(acc.points, acc.counted)
      /\ \A k \in 1 .. Len(acc.points) : \E e \in S : acc.points[k].time = e.time
      /\ acc.counted = {} => acc.points = <<>>
  BY <1>4 DEF RoundInv, Round
<1> HIDE DEF acc
<1>6. CASE acc.counted = {}
  <2>1. Summed(list, last) = <<>>
    BY <1>1, <1>5, <1>6 DEF Summed, acc
  <2> QED
    BY <1>5, <1>6, <2>1 DEF GoodputOf, list
<1>7. CASE acc.counted # {}
  <2> DEFINE point == [time |-> last, counted |-> acc.counted]
             series == Append(acc.points, point)
  <2>1. Summed(list, last) = series
    BY <1>1, <1>7 DEF Summed, acc
  <2>2. last = list[n].time /\ n \in 1 .. n /\ S # {}
    <3>1. S # {} /\ n # 0
      BY <1>1, <1>5, <1>7, FS_EmptySet DEF n
    <3> QED
      BY <1>1, <3>1 DEF list, n
  <2>3. (\E e \in S : last = e.time) /\ last \in Nat /\ \A e \in S : e.time <= last
    <3>1. list[n] \in S /\ last \in Nat
      BY <1>2, <1>3, <2>2
    <3>2. \A k \in 1 .. n : list[k].time <= list[n].time
      <4> SUFFICES ASSUME NEW k \in 1 .. n PROVE list[k].time <= list[n].time
        OBVIOUS
      <4>1. list[k] \in Entries /\ list[n] \in Entries /\ list[n].time \in Nat
        BY <1>2, <1>3, <2>2
      <4>2. k = n \/ Before(list[k], list[n])
        <5>1. k = n \/ k < n
          BY <1>1
        <5> QED
          BY <1>1, <2>2, <5>1
      <4> QED
        BY <4>1, <4>2, EntryOrders
    <3> QED
      BY <1>1, <2>2, <3>1, <3>2
  <2>4. last = Latest(S)
    <3> DEFINE times == {e.time : e \in S}
    <3>1. last \in times /\ \A t \in times : t \in Nat /\ t <= last
      BY <1>3, <2>3
    <3>2. \A t \in times : (\A e \in S : e.time <= t) => t = last
      BY <2>3, <3>1
    <3>3. Latest(S) = CHOOSE t \in times : \A e \in S : e.time <= t
      BY DEF Latest
    <3> HIDE DEF times
    <3> QED
      BY <2>3, <3>1, <3>2, <3>3
  <2>5. point \in Point /\ point.time = last /\ point.counted = acc.counted
    BY <1>5, <2>3 DEF Point
  <2>6. /\ series \in Seq(Point) /\ Len(series) = Len(acc.points) + 1 /\ Len(acc.points) \in Nat
        /\ series[Len(series)] = point
        /\ \A k \in 1 .. Len(acc.points) : series[k] = acc.points[k]
        /\ DOMAIN series = 1 .. Len(series) /\ series # <<>>
    <3>1. acc.points \in Seq(Point) /\ Len(acc.points) \in Nat
      BY <1>5
    <3>2. /\ series \in Seq(Point) /\ Len(series) = Len(acc.points) + 1
          /\ \A k \in 1 .. Len(acc.points) : series[k] = acc.points[k]
          /\ series[Len(acc.points) + 1] = point
      BY <2>5, <3>1
    <3> HIDE DEF series
    <3>3. DOMAIN series = 1 .. Len(series) /\ series # <<>>
      BY <3>1, <3>2
    <3> QED
      BY <3>1, <3>2, <3>3
  <2> HIDE DEF point, series
  <2>7. ASSUME NEW k \in 1 .. Len(series)
        PROVE  /\ \E e \in S : series[k].time = e.time
               /\ k < Len(series) =>
                      /\ series[k].counted = {e \in acc.counted : e.time < series[k].time}
                      /\ series[k].time <= series[k + 1].time
    <3>1. CASE k = Len(series)
      BY <2>3, <2>5, <2>6, <3>1
    <3>2. CASE k < Len(series)
      <4>1. k \in 1 .. Len(acc.points) /\ series[k] = acc.points[k] /\ k + 1 \in 1 .. Len(series)
        BY <2>6, <3>2
      <4>2. /\ \E e \in S : series[k].time = e.time
            /\ series[k].counted = {e \in acc.counted : e.time < series[k].time}
        BY <1>5, <4>1 DEF PointsInOrder
      <4>3. series[k].time <= series[k + 1].time
        <5>1. CASE k + 1 = Len(series)
          BY <2>3, <2>5, <2>6, <4>2, <5>1
        <5>2. CASE k + 1 # Len(series)
          <6>1. k + 1 \in 1 .. Len(acc.points)
            BY <2>6, <4>1, <5>2
          <6>2. series[k + 1] = acc.points[k + 1] /\ k <= k + 1
            BY <2>6, <6>1
          <6> QED
            BY <1>5, <4>1, <6>1, <6>2 DEF PointsInOrder
        <5> QED
          BY <5>1, <5>2
      <4> QED
        BY <4>2, <4>3
    <3>3. k <= Len(series) /\ Len(series) \in Nat
      BY <2>6
    <3> QED
      BY <3>1, <3>2, <3>3
  <2>8. GoodputOf(S, series)
    <3>1. series[Len(series)].counted = acc.counted /\ series[Len(series)].time = Latest(S)
      BY <2>4, <2>5, <2>6
    <3> QED
      BY <1>5, <2>6, <2>7, <3>1 DEF GoodputOf
  <2> QED
    BY <2>1, <2>6, <2>8 DEF list
<1> QED
  BY <1>6, <1>7

-----------------------------------------------------------------------------
(* The series: one pass over the lines of all flows *)

\* The lines are those of a sorted file.
LinesInOrder ==
    /\ lines_read \in Seq(Line)
    /\ \A j, k \in 1 .. Len(lines_read) : j < k => <<lines_read[j], lines_read[k]>> \in TextOrder

CurrentFlow == lines_read[line + 1].flow

FlowsBelow(f) == {g \in Present : g < f}

\* The entries of the current flow in the lines that have been passed.
Collected == {lines_read[j].entry : j \in {j \in 1 .. line : lines_read[j].flow = CurrentFlow}}

SeriesAreDone ==
    \A k \in 1 .. Len(File) :
        IF script = "goodput" THEN GoodputOf(Kept(FlowOf(k)), File[k]) ELSE DropsOf(k, File[k])

\* Each flow before the current one has its series; the variables that survive a
\* flow say which flows there were.
PassInv ==
    /\ line \in Nat /\ (line = 0 \/ line < Len(lines_read))
    /\ data \in Seq(Entries) /\ ToSet(data) = Collected
    /\ Len(File) = Cardinality(FlowsBelow(CurrentFlow))
    /\ script = "drop" => inst_data = IF File = <<>> THEN <<>> ELSE File[Len(File)]
    /\ script = "goodput" => /\ a = None <=> File = <<>>
                             /\ File # <<>> => Kept(FlowOf(1)) # {}

SeriesInv ==
    /\ LinesInOrder
    /\ state \in {"none", "loop", "done", "error"}
    /\ state # "none" => script \in {"goodput", "drop"}
    /\ File \in Seq(IF script = "goodput" THEN Seq(Point) ELSE Seq(Int))
    /\ Present # {} => SeriesAreDone
    /\ state = "loop" => PassInv
    /\ state = "done" => /\ script = "goodput" => ~ NothingFirst
                         /\ Present # {} => Len(File) = Cardinality(Present)
    /\ state = "error" => script = "goodput" /\ NothingFirst

\* What is defined by the lines stays as they do.
LEMMA LinesStay ==
    ASSUME UNCHANGED <<script, lines_read>>
    PROVE  /\ LinesInOrder' <=> LinesInOrder
           /\ Present' = Present
           /\ \A f : Kept(f)' = Kept(f) /\ FlowsBelow(f)' = FlowsBelow(f)
           /\ \A k : Kept(FlowOf(k))' = Kept(FlowOf(k))
           /\ FlowsBelow(CurrentFlow)' = FlowsBelow(CurrentFlow')
           /\ NothingFirst' <=> NothingFirst
<1>1. \A f : EntriesOf(f)' = EntriesOf(f)
  BY DEF EntriesOf
<1>2. Present' = Present
  BY <1>1 DEF Present
<1>3. \A f : Kept(f)' = Kept(f)
  BY <1>1 DEF Kept
<1>4. \A k : FlowOf(k)' = FlowOf(k)
  BY <1>2 DEF FlowOf
<1>5. \A k : Kept(FlowOf(k))' = Kept(FlowOf(k))
  BY <1>1, <1>4 DEF Kept
<1>6. FlowsBelow(CurrentFlow)' = FlowsBelow(CurrentFlow')
  BY <1>2 DEF FlowsBelow
<1> QED
  BY <1>2, <1>3, <1>4, <1>5, <1>6 DEF LinesInOrder, FlowsBelow, NothingFirst

LEMMA LinesShape ==
    ASSUME LinesInOrder
    PROVE  /\ Len(lines_read) \in Nat
           /\ \A k \in 1 .. Len(lines_read) :
                  /\ lines_read[k] \in Line
                  /\ lines_read[k].flow \in SeriesFlows /\ lines_read[k].flow \in Int
                  /\ lines_read[k].entry \in Entries
           /\ \A j, k \in 1 .. Len(lines_read) :
                  j <= k => lines_read[j].flow <= lines_read[k].flow
           /\ \A j, k \in 1 .. Len(lines_read) :
                  lines_read[j].flow = lines_read[k].flow
                      => (j < k <=> TextBefore(lines_read[j].entry, lines_read[k].entry))
<1>1. Len(lines_read) \in Nat /\ \A k \in 1 .. Len(lines_read) : lines_read[k] \in Line
  BY ElementOfSeq DEF LinesInOrder
<1>2. \A r \in Line : r.flow \in SeriesFlows /\ r.flow \in Int /\ r.entry \in Entries
  BY SeriesAssumption DEF Line
<1>3. \A j, k \in 1 .. Len(lines_read) :
          j < k => \/ lines_read[j].flow < lines_read[k].flow
                   \/ /\ lines_read[j].flow = lines_read[k].flow
                      /\ TextBefore(lines_read[j].entry, lines_read[k].entry)
  <2>1. \A r, s : <<r, s>> \in TextOrder
            => \/ r.flow < s.flow
               \/ r.flow = s.flow /\ TextBefore(r.entry, s.entry)
    BY DEF TextOrder
  <2> QED
    BY <2>1 DEF LinesInOrder
<1>4. ASSUME NEW j \in 1 .. Len(lines_read), NEW k \in 1 .. Len(lines_read), j <= k
      PROVE  lines_read[j].flow <= lines_read[k].flow
  <2>1. lines_read[j].flow \in Int /\ lines_read[k].flow \in Int /\ (j = k \/ j < k)
    BY <1>1, <1>2, <1>4
  <2> QED
    BY <1>3, <2>1
<1>5. ASSUME NEW j \in 1 .. Len(lines_read), NEW k \in 1 .. Len(lines_read),
             lines_read[j].flow = lines_read[k].flow
      PROVE  j < k <=> TextBefore(lines_read[j].entry, lines_read[k].entry)
  <2>1. /\ lines_read[j].flow \in Int /\ lines_read[k].flow \in Int
        /\ lines_read[j].entry \in Entries /\ lines_read[k].entry \in Entries
    BY <1>1, <1>2
  <2>2. CASE j < k
    BY <1>3, <1>5, <2>1, <2>2
  <2>3. ~ /\ TextBefore(lines_read[j].entry, lines_read[k].entry)
          /\ TextBefore(lines_read[k].entry, lines_read[j].entry)
    BY <2>1, EntryOrders
  <2>4. ~ TextBefore(lines_read[j].entry, lines_read[j].entry)
    BY <2>1, EntryOrders
  <2>5. CASE k < j
    BY <1>3, <1>5, <2>1, <2>3, <2>5
  <2>6. CASE j = k
    BY <2>4, <2>6
  <2> QED
    BY <2>2, <2>5, <2>6
<1>6. \A k \in 1 .. Len(lines_read) :
          /\ lines_read[k] \in Line
          /\ lines_read[k].flow \in SeriesFlows /\ lines_read[k].flow \in Int
          /\ lines_read[k].entry \in Entries
  BY <1>1, <1>2
<1> QED
  BY <1>1, <1>4, <1>5, <1>6

\* The entries of a flow and the flows, by the places of their lines.
LEMMA ByPlaces ==
    ASSUME LinesInOrder
    PROVE  /\ \A f, e : e \in EntriesOf(f)
                 <=> \E k \in 1 .. Len(lines_read) : lines_read[k].flow = f /\ lines_read[k].entry = e
           /\ \A f : f \in Present <=> \E k \in 1 .. Len(lines_read) : lines_read[k].flow = f
           /\ IsFiniteSet(Present) /\ \A f \in Present : f \in Int
<1>1. DOMAIN lines_read = 1 .. Len(lines_read)
  BY DEF LinesInOrder
<1>2. \A f, e : e \in EntriesOf(f)
          <=> \E k \in 1 .. Len(lines_read) : lines_read[k].flow = f /\ lines_read[k].entry = e
  BY <1>1 DEF EntriesOf, ToSet
<1>3. \A f : f \in Present <=> \E k \in 1 .. Len(lines_read) : lines_read[k].flow = f
  <2>1. \A f : f \in Present <=> f \in SeriesFlows /\ \E e : e \in EntriesOf(f)
    BY DEF Present
  <2>2. \A k \in 1 .. Len(lines_read) : lines_read[k].flow \in SeriesFlows
    BY LinesShape
  <2>3. ASSUME NEW f, NEW k \in 1 .. Len(lines_read), lines_read[k].flow = f
        PROVE  f \in Present
    <3>1. lines_read[k].entry \in EntriesOf(f)
      BY <1>2, <2>3
    <3> QED
      BY <2>1, <2>2, <2>3, <3>1
  <2>4. ASSUME NEW f \in Present
        PROVE  \E k \in 1 .. Len(lines_read) : lines_read[k].flow = f
    <3>1. PICK e : e \in EntriesOf(f)
      BY <2>1
    <3> QED
      BY <1>2, <3>1
  <2> QED
    BY <2>3, <2>4
<1>4. IsFiniteSet(Present) /\ \A f \in Present : f \in Int
  <2>1. Present \in SUBSET SeriesFlows
    BY DEF Present
  <2> QED
    BY <2>1, SeriesAssumption, FS_Subset
<1> QED
  BY <1>2, <1>3, <1>4

FlowEnds == \/ line + 1 = Len(lines_read)
            \/ line + 1 < Len(lines_read) /\ ~ SameFlow

\* At the last line of a flow its entries have been collected, but for that line.
LEMMA CollectedIsKept ==
    ASSUME LinesInOrder, line \in Nat, FlowEnds
    PROVE  /\ Kept(CurrentFlow) = Collected /\ Collected \subseteq Entries
           /\ CurrentFlow \in Present
           /\ \A g \in Present : g <= CurrentFlow \/ (line + 1 < Len(lines_read)
                                                       /\ lines_read[line + 2].flow <= g)
           /\ line + 1 < Len(lines_read) => CurrentFlow < lines_read[line + 2].flow
<1>1. Len(lines_read) \in Nat /\ line + 1 \in 1 .. Len(lines_read)
  BY LinesShape DEF FlowEnds
<1>2. line + 1 < Len(lines_read)
          => line + 2 \in 1 .. Len(lines_read) /\ CurrentFlow < lines_read[line + 2].flow
  <2> SUFFICES ASSUME line + 1 < Len(lines_read)
               PROVE  line + 2 \in 1 .. Len(lines_read) /\ CurrentFlow < lines_read[line + 2].flow
    OBVIOUS
  <2>1. line + 2 \in 1 .. Len(lines_read) /\ line + 1 <= line + 2
    BY <1>1
  <2>2. lines_read[line + 1].flow # lines_read[line + 2].flow
    BY <1>1 DEF FlowEnds, SameFlow
  <2>3. lines_read[line + 1].flow \in Int /\ lines_read[line + 2].flow \in Int
        /\ lines_read[line + 1].flow <= lines_read[line + 2].flow
    BY <1>1, <2>1, LinesShape
  <2> QED
    BY <2>1, <2>2, <2>3 DEF CurrentFlow
<1>3. ASSUME NEW k \in 1 .. Len(lines_read)
      PROVE  \/ k <= line + 1 /\ lines_read[k].flow <= CurrentFlow
             \/ /\ line + 1 < k /\ line + 1 < Len(lines_read)
                /\ lines_read[line + 2].flow <= lines_read[k].flow
                /\ CurrentFlow < lines_read[k].flow
  <2>1. CASE k <= line + 1
    BY <1>1, <2>1, LinesShape DEF CurrentFlow
  <2>2. CASE line + 1 < k
    <3>1. line + 1 < Len(lines_read) /\ line + 2 <= k
      BY <1>1, <2>2
    <3>2. lines_read[line + 2].flow <= lines_read[k].flow
      BY <1>2, <3>1, LinesShape
    <3>3. CurrentFlow \in Int /\ lines_read[line + 2].flow \in Int /\ lines_read[k].flow \in Int
      BY <1>1, <1>2, <3>1, LinesShape DEF CurrentFlow
    <3> QED
      BY <1>2, <2>2, <3>1, <3>2, <3>3
  <2> QED
    BY <1>1, <2>1, <2>2
<1>4. ASSUME NEW t
      PROVE  t \in Kept(CurrentFlow) <=> t \in Collected
  <2>1. ASSUME t \in Kept(CurrentFlow)
        PROVE  t \in Collected
    <3>1. PICK u \in EntriesOf(CurrentFlow) : t \in EntriesOf(CurrentFlow) /\ TextBefore(t, u)
      BY <2>1 DEF Kept
    <3>2. PICK j \in 1 .. Len(lines_read) : lines_read[j].flow = CurrentFlow /\ lines_read[j].entry = t
      BY <3>1, ByPlaces
    <3>3. PICK k \in 1 .. Len(lines_read) : lines_read[k].flow = CurrentFlow /\ lines_read[k].entry = u
      BY <3>1, ByPlaces
    <3>4. j < k
      BY <3>1, <3>2, <3>3, LinesShape
    <3>5. CurrentFlow \in Int
      BY <1>1, LinesShape DEF CurrentFlow
    <3>6. k <= line + 1
      BY <1>3, <3>3, <3>5
    <3>7. j \in 1 .. line
      BY <1>1, <3>4, <3>6
    <3> QED
      BY <3>2, <3>7 DEF Collected
  <2>2. ASSUME t \in Collected
        PROVE  t \in Kept(CurrentFlow)
    <3>1. PICK j \in 1 .. line : lines_read[j].flow = CurrentFlow /\ lines_read[j].entry = t
      BY <2>2 DEF Collected
    <3>2. j \in 1 .. Len(lines_read) /\ j < line + 1
      BY <1>1
    <3>3. lines_read[line + 1].flow = CurrentFlow
      BY DEF CurrentFlow
    <3>4. TextBefore(t, lines_read[line + 1].entry)
      BY <1>1, <3>1, <3>2, <3>3, LinesShape
    <3>5. t \in EntriesOf(CurrentFlow) /\ lines_read[line + 1].entry \in EntriesOf(CurrentFlow)
      BY <1>1, <3>1, <3>2, <3>3, ByPlaces
    <3> QED
      BY <3>4, <3>5 DEF Kept
  <2> QED
    BY <2>1, <2>2
<1>5. Collected \subseteq Entries
  <2>1. \A j \in 1 .. line : lines_read[j].entry \in Entries
    BY <1>1, LinesShape
  <2> QED
    BY <2>1 DEF Collected
<1>6. CurrentFlow \in Present
  BY <1>1, ByPlaces DEF CurrentFlow
<1>7. ASSUME NEW g \in Present
      PROVE  g <= CurrentFlow \/ (line + 1 < Len(lines_read) /\ lines_read[line + 2].flow <= g)
  <2>1. PICK k \in 1 .. Len(lines_read) : lines_read[k].flow = g
    BY ByPlaces
  <2> QED
    BY <1>3, <2>1
<1>8. Kept(CurrentFlow) = Collected
  BY <1>4
<1> QED
  BY <1>2, <1>5, <1>6, <1>7, <1>8

\* The place of a flow among those that are present is one more than the number of
\* flows below it.
LEMMA FlowsCounted ==
    ASSUME LinesInOrder, NEW f \in Present
    PROVE  /\ IsFiniteSet(FlowsBelow(f)) /\ Cardinality(FlowsBelow(f)) \in Nat
           /\ Cardinality(FlowsBelow(f) \cup {f}) = Cardinality(FlowsBelow(f)) + 1
           /\ FlowOf(Cardinality(FlowsBelow(f)) + 1) = f
<1>1. IsFiniteSet(Present) /\ \A g \in Present : g \in Int
  BY ByPlaces
<1>2. ASSUME NEW g \in Present
      PROVE  /\ FlowsBelow(g) \in SUBSET Present /\ g \notin FlowsBelow(g)
             /\ {h \in Present : h <= g} = FlowsBelow(g) \cup {g}
  <2>1. \A h \in Present : h <= g <=> h < g \/ h = g
    BY <1>1
  <2>2. ~ g < g
    BY <1>1
  <2> QED
    BY <2>1, <2>2 DEF FlowsBelow
<1>3. ASSUME NEW g \in Present
      PROVE  /\ IsFiniteSet(FlowsBelow(g)) /\ Cardinality(FlowsBelow(g)) \in Nat
             /\ Cardinality(FlowsBelow(g) \cup {g}) = Cardinality(FlowsBelow(g)) + 1
  <2>1. IsFiniteSet(FlowsBelow(g)) /\ Cardinality(FlowsBelow(g)) \in Nat
    BY <1>1, <1>2, FS_Subset, FS_CardinalityType
  <2> QED
    BY <1>2, <2>1, FS_AddElement
<1>4. ASSUME NEW g \in Present, NEW h \in Present, g < h
      PROVE  Cardinality(FlowsBelow(g) \cup {g}) < Cardinality(FlowsBelow(h) \cup {h})
  <2>1. FlowsBelow(g) \cup {g} \in SUBSET FlowsBelow(h)
    <3>1. \A k \in Present : k < g => k < h
      BY <1>1, <1>4
    <3> QED
      BY <1>4, <3>1 DEF FlowsBelow
  <2>2. Cardinality(FlowsBelow(g) \cup {g}) <= Cardinality(FlowsBelow(h))
    BY <1>3, <2>1, FS_Subset
  <2> QED
    BY <1>3, <2>2
<1>5. ASSUME NEW g \in Present,
             Cardinality({h \in Present : h <= g}) = Cardinality(FlowsBelow(f)) + 1
      PROVE  g = f
  <2>1. Cardinality(FlowsBelow(g) \cup {g}) = Cardinality(FlowsBelow(f) \cup {f})
    BY <1>2, <1>3, <1>5
  <2>2. Cardinality(FlowsBelow(g) \cup {g}) \in Nat /\ Cardinality(FlowsBelow(f) \cup {f}) \in Nat
    BY <1>3
  <2>3. ~ g < f /\ ~ f < g
    BY <1>4, <2>1, <2>2
  <2> QED
    BY <1>1, <2>3
<1>6. Cardinality({h \in Present : h <= f}) = Cardinality(FlowsBelow(f)) + 1
  BY <1>2, <1>3
<1>7. FlowOf(Cardinality(FlowsBelow(f)) + 1) = f
  <2> DEFINE n == Cardinality(FlowsBelow(f)) + 1
  <2>1. \A g \in Present : Cardinality({h \in Present : h <= g}) = n <=> g = f
    BY <1>5, <1>6
  <2> HIDE DEF n
  <2>2. FlowOf(n) = f
    BY <2>1 DEF FlowOf
  <2> QED
    BY <2>2 DEF n
<1> QED
  BY <1>3, <1>7

LEMMA SortedEntries ==
    ASSUME data \in Seq(Entries)
    PROVE  /\ Sorted(data) = InOrder(ToSet(data), TimeOrder) /\ ToSet(data) \in SUBSET Entries
           /\ Sorted(data) \in Seq(Entries)
           /\ Sorted(data) = <<>> <=> ToSet(data) = {}
           /\ Sorted(data) # <<>> =>
                  /\ Last(Sorted(data)) = Sorted(data)[Cardinality(ToSet(data))]
                  /\ Last(Sorted(data)).time # None
<1>1. ToSet(data) \in SUBSET Entries
  BY DEF ToSet
<1>2. /\ IsFiniteSet(ToSet(data)) /\ Sorted(data) \in Seq(ToSet(data))
      /\ Len(Sorted(data)) = Cardinality(ToSet(data)) /\ Cardinality(ToSet(data)) \in Nat
  BY <1>1, EntriesListed DEF Sorted
<1>3. Sorted(data) \in Seq(Entries)
  BY <1>1, <1>2
<1>4. Sorted(data) = <<>> <=> ToSet(data) = {}
  <2>1. Sorted(data) = <<>> <=> Len(Sorted(data)) = 0
    BY <1>3
  <2> QED
    BY <1>2, <2>1, FS_EmptySet
<1>5. ASSUME Sorted(data) # <<>>
      PROVE  /\ Last(Sorted(data)) = Sorted(data)[Cardinality(ToSet(data))]
             /\ Last(Sorted(data)).time # None
  <2>1. Last(Sorted(data)) = Sorted(data)[Len(Sorted(data))] /\ Last(Sorted(data)) \in Entries
    BY <1>3, <1>5 DEF Last
  <2>2. Last(Sorted(data)).time \in Nat
    BY <2>1, EntryFacts
  <2> QED
    BY <1>2, <2>1, <2>2 DEF None
<1> QED
  BY <1>1, <1>3, <1>4, <1>5 DEF Sorted

LEMMA GapsAreNumbers ==
    ASSUME NEW list \in Seq(Entries)
    PROVE  Gaps(list) \in Seq(Int)
<1>1. Len(list) \in Nat /\ \A k \in 1 .. Len(list) : list[k].time \in Int
  <2>1. \A e \in Entries : e.time \in Int
    BY EntryFacts
  <2>2. Len(list) \in Nat /\ \A k \in 1 .. Len(list) : list[k] \in Entries
    BY ElementOfSeq
  <2> QED
    BY <2>1, <2>2
<1>2. CASE Len(list) = 0
  <2>1. 1 .. Len(list) - 1 = {}
    BY <1>2
  <2>2. Gaps(list) \in [{} -> Int]
    BY <2>1 DEF Gaps
  <2>3. 1 .. 0 = {} /\ 0 \in Nat
    OBVIOUS
  <2> QED
    BY <2>2, <2>3
<1>3. CASE Len(list) # 0
  <2>1. Len(list) - 1 \in Nat
    BY <1>1, <1>3
  <2>2. \A k \in 1 .. Len(list) - 1 : list[k + 1].time - list[k].time \in Int
    BY <1>1
  <2>3. Gaps(list) \in [1 .. Len(list) - 1 -> Int]
    BY <2>2 DEF Gaps
  <2> QED
    BY <2>1, <2>3
<1> QED
  BY <1>2, <1>3

Series == IF script = "goodput" THEN Seq(Point) ELSE Seq(Int)

\* What the end of a flow makes of its entries.
SeriesMade ==
    /\ File' \in Seq(Series) /\ Len(File') = Len(File) + 1 /\ File' # <<>>
    /\ SeriesAreDone'
    /\ script = "drop" => inst_data' = File'[Len(File')]
    /\ script = "goodput" => a' # None /\ Kept(FlowOf(1)) # {}

LEMMA SeriesOfFlow ==
    ASSUME SeriesInv, state = "loop", FlowEnds, NEW more, MakeSeries(more), UNCHANGED inputVars
    PROVE  \/ SeriesMade /\ state' = more
           \/ script = "goodput" /\ NothingFirst /\ state' = "error" /\ UNCHANGED <<File, a>>
<1> DEFINE list == Sorted(data)
           S == ToSet(data)
           last == IF list = <<>> THEN a ELSE Last(list).time
           n == Len(File) + 1
<1>1. /\ PassInv /\ LinesInOrder /\ script \in {"goodput", "drop"}
      /\ Present # {} => SeriesAreDone
      /\ UNCHANGED <<script, lines_read>>
  BY DEF SeriesInv, inputVars
<1>2. File \in Seq(Series) /\ Len(File) \in Nat /\ (File = <<>> <=> Len(File) = 0)
  BY DEF SeriesInv, Series
<1>3. Kept(CurrentFlow) = S /\ CurrentFlow \in Present /\ FlowOf(n) = CurrentFlow
  BY <1>1, CollectedIsKept, FlowsCounted DEF PassInv
<1>4. /\ list = InOrder(S, TimeOrder) /\ S \in SUBSET Entries /\ list \in Seq(Entries)
      /\ list = <<>> <=> S = {}
      /\ list # <<>> => Last(list) = list[Cardinality(S)] /\ Last(list).time # None
  BY <1>1, SortedEntries DEF PassInv
<1>5. \A k : Kept(FlowOf(k))' = Kept(FlowOf(k))
  BY <1>1, LinesStay
<1> HIDE DEF list, S
<1>6. ASSUME NEW s \in Series, File' = Append(File, s),
             IF script = "goodput" THEN GoodputOf(S, s)
             ELSE s = (IF File = <<>> THEN <<>> ELSE File[Len(File)]) \o Gaps(list)
      PROVE  /\ File' \in Seq(Series) /\ Len(File') = Len(File) + 1 /\ File' # <<>>
             /\ SeriesAreDone' /\ File'[Len(File')] = s
  <2>1. /\ File' \in Seq(Series) /\ Len(File') = n /\ File' # <<>> /\ File'[n] = s
        /\ \A k \in 1 .. Len(File) : File'[k] = File[k]
    BY <1>2, <1>6
  <2>2. ASSUME NEW k \in 1 .. n
        PROVE  /\ script = "goodput" => GoodputOf(Kept(FlowOf(k)), File'[k])
               /\ script = "drop" =>
                      File'[k] = (IF k = 1 THEN <<>> ELSE File'[k - 1])
                                     \o Gaps(InOrder(Kept(FlowOf(k)), TimeOrder))
    <3>1. CASE k = n
      <4>1. Kept(FlowOf(k)) = S /\ File'[k] = s
        BY <1>3, <2>1, <3>1
      <4>2. (IF k = 1 THEN <<>> ELSE File'[k - 1])
                = IF File = <<>> THEN <<>> ELSE File[Len(File)]
        <5>1. k = 1 <=> File = <<>>
          BY <1>2, <3>1
        <5>2. k # 1 => k - 1 = Len(File) /\ k - 1 \in 1 .. Len(File)
          BY <1>2, <3>1
        <5> QED
          BY <2>1, <5>1, <5>2
      <4>3. script = "goodput" => GoodputOf(S, s)
        BY <1>6
      <4>4. script = "drop" =>
                s = (IF File = <<>> THEN <<>> ELSE File[Len(File)]) \o Gaps(list)
        BY <1>6
      <4> QED
        BY <1>4, <4>1, <4>2, <4>3, <4>4
    <3>2. CASE k # n
      <4>1. /\ k \in 1 .. Len(File) /\ File'[k] = File[k]
            /\ k # 1 => k - 1 \in 1 .. Len(File) /\ File'[k - 1] = File[k - 1]
        BY <1>2, <2>1, <3>2
      <4>2. IF script = "goodput" THEN GoodputOf(Kept(FlowOf(k)), File[k]) ELSE DropsOf(k, File[k])
        BY <1>1, <1>3, <4>1 DEF SeriesAreDone
      <4> QED
        BY <4>1, <4>2 DEF DropsOf
    <3> QED
      BY <3>1, <3>2
  <2>3. SeriesAreDone'
    <3> SUFFICES ASSUME NEW k \in 1 .. Len(File')
                 PROVE  IF script' = "goodput" THEN GoodputOf(Kept(FlowOf(k)), File[k])'
                        ELSE DropsOf(k, File[k])'
      BY DEF SeriesAreDone
    <3>1. Kept(FlowOf(k))' = Kept(FlowOf(k)) /\ script' = script /\ k \in 1 .. n
      BY <1>1, <1>5, <2>1
    <3>2. CASE script = "goodput"
      <4>1. GoodputOf(Kept(FlowOf(k)), File'[k])
        BY <2>2, <3>1, <3>2
      <4>2. GoodputOf(Kept(FlowOf(k)), File[k])' <=> GoodputOf(Kept(FlowOf(k)), File'[k])
        BY <3>1 DEF GoodputOf, Windowed, Latest
      <4> QED
        BY <3>1, <3>2, <4>1, <4>2
    <3>3. CASE script = "drop"
      <4>1. InOrder(Kept(FlowOf(k)), TimeOrder)' = InOrder(Kept(FlowOf(k)), TimeOrder)
        BY <3>1
      <4>2. Gaps(InOrder(Kept(FlowOf(k)), TimeOrder))' = Gaps(InOrder(Kept(FlowOf(k)), TimeOrder))
        BY <4>1
      <4> QED
        BY <2>2, <3>1, <3>3, <4>2 DEF DropsOf
    <3> QED
      BY <1>1, <3>2, <3>3
  <2> QED
    BY <2>1, <2>3
<1>7. CASE script = "goodput" /\ last # None
  <2>1. File' = Append(File, Summed(list, last)) /\ a' = last /\ state' = more
    BY <1>7 DEF MakeSeries, list
  <2>2. S # {} => last = InOrder(S, TimeOrder)[Cardinality(S)].time
    BY <1>4
  <2>3. Summed(list, last) \in Seq(Point) /\ GoodputOf(S, Summed(list, last))
    BY <1>4, <2>2, SummedIsGoodput
  <2>4. Summed(list, last) \in Series
    BY <1>7, <2>3 DEF Series
  <2>5. Kept(FlowOf(1)) # {}
    <3>1. CASE File = <<>>
      <4>1. a = None /\ FlowOf(1) = CurrentFlow
        BY <1>1, <1>2, <1>3, <1>7, <3>1 DEF PassInv
      <4> QED
        BY <1>3, <1>4, <1>7, <4>1
    <3>2. CASE File # <<>>
      BY <1>1, <1>7, <3>2 DEF PassInv
    <3> QED
      BY <3>1, <3>2
  <2>6. File' \in Seq(Series) /\ Len(File') = Len(File) + 1 /\ File' # <<>> /\ SeriesAreDone'
    BY <1>6, <1>7, <2>1, <2>3, <2>4
  <2> QED
    BY <1>7, <2>1, <2>5, <2>6 DEF SeriesMade
<1>8. CASE script = "goodput" /\ last = None
  <2>1. state' = "error" /\ UNCHANGED <<File, a>>
    BY <1>8 DEF MakeSeries, list
  <2>2. S = {} /\ a = None
    BY <1>4, <1>8
  <2>3. FlowOf(1) = CurrentFlow
    BY <1>1, <1>2, <1>3, <1>8, <2>2 DEF PassInv
  <2> QED
    BY <1>3, <1>8, <2>1, <2>2, <2>3 DEF NothingFirst
<1>9. CASE script = "drop"
  <2>1. File' = Append(File, inst_data') /\ inst_data' = inst_data \o Gaps(list) /\ state' = more
    BY <1>9 DEF MakeSeries, list
  <2>2. inst_data = IF File = <<>> THEN <<>> ELSE File[Len(File)]
    BY <1>1, <1>9 DEF PassInv
  <2>3. inst_data \in Seq(Int)
    <3>1. CASE File = <<>>
      BY <2>2, <3>1
    <3>2. CASE File # <<>>
      <4>1. Len(File) \in 1 .. Len(File)
        BY <1>2, <3>2
      <4>2. File[Len(File)] \in Series
        BY <1>2, <4>1, ElementOfSeq
      <4> QED
        BY <1>9, <2>2, <3>2, <4>2 DEF Series
    <3> QED
      BY <3>1, <3>2
  <2>4. inst_data' \in Series
    BY <1>4, <1>9, <2>1, <2>3, GapsAreNumbers DEF Series
  <2>5. /\ File' \in Seq(Series) /\ Len(File') = Len(File) + 1 /\ File' # <<>> /\ SeriesAreDone'
        /\ File'[Len(File')] = inst_data'
    BY <1>6, <1>9, <2>1, <2>2, <2>4
  <2> QED
    BY <1>9, <2>1, <2>5 DEF SeriesMade
<1> QED
  BY <1>1, <1>7, <1>8, <1>9

LEMMA DoneStay ==
    ASSUME UNCHANGED <<script, lines_read, File>>
    PROVE  SeriesAreDone' <=> SeriesAreDone
<1>1. ASSUME NEW k
      PROVE  DropsOf(k, File[k])' <=> DropsOf(k, File[k])
  <2>1. Kept(FlowOf(k))' = Kept(FlowOf(k))
    BY LinesStay
  <2>2. InOrder(Kept(FlowOf(k)), TimeOrder)' = InOrder(Kept(FlowOf(k)), TimeOrder)
    BY <2>1
  <2>3. Gaps(InOrder(Kept(FlowOf(k)), TimeOrder))' = Gaps(InOrder(Kept(FlowOf(k)), TimeOrder))
    BY <2>2
  <2> QED
    BY <2>3 DEF DropsOf
<1>2. ASSUME NEW k
      PROVE  GoodputOf(Kept(FlowOf(k)), File[k])' <=> GoodputOf(Kept(FlowOf(k)), File[k])
  <2>1. Kept(FlowOf(k))' = Kept(FlowOf(k)) /\ File[k]' = File[k]
    BY LinesStay
  <2> QED
    BY <2>1
<1> QED
  BY <1>1, <1>2 DEF SeriesAreDone

LEMMA SeriesStutters ==
    ASSUME SeriesInv, UNCHANGED seriesVars
    PROVE  SeriesInv'
<1>1. UNCHANGED <<script, lines_read, line, data, inst_data, File, a, state>>
  BY DEF seriesVars, inputVars
<1>2. /\ LinesInOrder' <=> LinesInOrder
      /\ Present' = Present /\ (NothingFirst' <=> NothingFirst)
      /\ SeriesAreDone' <=> SeriesAreDone
      /\ Kept(FlowOf(1))' = Kept(FlowOf(1))
  BY <1>1, LinesStay, DoneStay
<1>3. CurrentFlow' = CurrentFlow
  BY <1>1 DEF CurrentFlow
<1>4. FlowsBelow(CurrentFlow)' = FlowsBelow(CurrentFlow)
  BY <1>1, <1>3, LinesStay DEF FlowsBelow
<1>5. Collected' = Collected
  BY <1>1, <1>3 DEF Collected
<1>6. PassInv' <=> PassInv
  BY <1>1, <1>2, <1>4, <1>5 DEF PassInv
<1> QED
  BY <1>1, <1>2, <1>6 DEF SeriesInv

LEMMA SeriesBegin == ScriptsInit => SeriesInv
<1>1. ASSUME program = "generate-ellipseinput", script = "none", lines_read = <<>>, File = <<>>,
             state = "none"
      PROVE  SeriesInv
  <2>1. LinesInOrder
    BY <1>1 DEF LinesInOrder
  <2> QED
    BY <1>1, <2>1 DEF SeriesInv, SeriesAreDone
<1>2. ASSUME SeriesInit
      PROVE  SeriesInv
  <2>1. /\ script \in {"goodput", "drop"} /\ line = 0 /\ data = <<>> /\ inst_data = <<>>
        /\ File = <<>> /\ a = None /\ state = "loop"
    BY <1>2 DEF SeriesInit
  <2>2. LinesInOrder
    <3>1. PICK records \in SUBSET Line : lines_read = InOrder(records, TextOrder)
      BY <1>2 DEF SeriesInit
    <3> QED
      BY <3>1, LinesListed DEF LinesInOrder
  <2>3. FlowsBelow(CurrentFlow) = {}
    <3>1. SUFFICES ASSUME NEW g \in Present PROVE ~ g < CurrentFlow
      BY DEF FlowsBelow
    <3>2. PICK k \in 1 .. Len(lines_read) : lines_read[k].flow = g
      BY <2>2, ByPlaces
    <3>3. 1 \in 1 .. Len(lines_read) /\ 1 <= k /\ CurrentFlow = lines_read[1].flow
      BY <2>1, <2>2, LinesShape DEF CurrentFlow
    <3>4. CurrentFlow <= g /\ CurrentFlow \in Int /\ g \in Int
      BY <2>2, <3>2, <3>3, LinesShape
    <3> QED
      BY <3>4
  <2>4. ToSet(data) = Collected
    BY <2>1 DEF ToSet, Collected
  <2>5. PassInv
    BY <2>1, <2>3, <2>4, FS_EmptySet DEF PassInv
  <2> QED
    BY <2>1, <2>2, <2>5 DEF SeriesInv, SeriesAreDone
<1> QED
  BY <1>1, <1>2 DEF ScriptsInit

LEMMA CollectInv ==
    ASSUME SeriesInv, Collect
    PROVE  SeriesInv'
<1>1. /\ UNCHANGED <<script, lines_read, inst_data, File, a, state>>
      /\ line' = line + 1 /\ data' = Append(data, lines_read[line + 1].entry)
      /\ state = "loop" /\ line + 1 < Len(lines_read)
      /\ lines_read[line + 1].flow = lines_read[line + 2].flow
  BY DEF Collect, HasNext, SameFlow, inputVars
<1>2. /\ LinesInOrder' <=> LinesInOrder
      /\ Present' = Present
      /\ SeriesAreDone' <=> SeriesAreDone
      /\ Kept(FlowOf(1))' = Kept(FlowOf(1))
      /\ FlowsBelow(CurrentFlow)' = FlowsBelow(CurrentFlow')
  BY <1>1, LinesStay, DoneStay
<1>3. PassInv /\ LinesInOrder
  BY <1>1 DEF SeriesInv
<1>4. /\ line \in Nat /\ line + 1 \in 1 .. Len(lines_read) /\ Len(lines_read) \in Nat
      /\ (line + 1) + 1 = line + 2 /\ lines_read[line + 1].entry \in Entries
  <2>1. line \in Nat /\ Len(lines_read) \in Nat
    BY <1>3, LinesShape DEF PassInv
  <2>2. line + 1 \in 1 .. Len(lines_read) /\ (line + 1) + 1 = line + 2
    BY <1>1, <2>1
  <2> QED
    BY <1>3, <2>1, <2>2, LinesShape
<1>5. CurrentFlow' = CurrentFlow /\ CurrentFlow = lines_read[line + 1].flow
  BY <1>1, <1>4 DEF CurrentFlow
<1>6. ToSet(data)' = Collected'
  <2>1. \A j : j \in 1 .. line' <=> j \in 1 .. line \/ j = line + 1
    BY <1>1, <1>4
  <2>2. Collected' = Collected \cup {lines_read[line + 1].entry}
    BY <1>1, <1>5, <2>1 DEF Collected
  <2>3. ToSet(data') = ToSet(data) \cup {lines_read[line + 1].entry}
    <3>1. data \in Seq(Entries) /\ Len(data) \in Nat
      BY <1>3 DEF PassInv
    <3>2. /\ DOMAIN data = 1 .. Len(data) /\ DOMAIN data' = 1 .. Len(data) + 1
          /\ data'[Len(data) + 1] = lines_read[line + 1].entry
          /\ \A j \in 1 .. Len(data) : data'[j] = data[j]
      BY <1>1, <1>4, <3>1
    <3>3. \A j : j \in 1 .. Len(data) + 1 <=> j \in 1 .. Len(data) \/ j = Len(data) + 1
      BY <3>1
    <3> QED
      BY <3>2, <3>3 DEF ToSet
  <2>4. ToSet(data)' = ToSet(data')
    BY DEF ToSet
  <2> QED
    BY <1>3, <2>2, <2>3, <2>4 DEF PassInv
<1>7. PassInv'
  <2>1. data' \in Seq(Entries)
    BY <1>1, <1>3, <1>4 DEF PassInv
  <2>2. line' \in Nat /\ line' < Len(lines_read')
    BY <1>1, <1>4
  <2>3. FlowsBelow(CurrentFlow)' = FlowsBelow(CurrentFlow)
    BY <1>2, <1>5
  <2> QED
    BY <1>1, <1>2, <1>3, <1>6, <2>1, <2>2, <2>3 DEF PassInv
<1> QED
  BY <1>1, <1>2, <1>7 DEF SeriesInv

LEMMA FlowsFollow ==
    ASSUME LinesInOrder, line \in Nat, FlowEnds
    PROVE  /\ line + 1 = Len(lines_read) => Present = FlowsBelow(CurrentFlow) \cup {CurrentFlow}
           /\ line + 1 < Len(lines_read) =>
                  FlowsBelow(lines_read[line + 2].flow) = FlowsBelow(CurrentFlow) \cup {CurrentFlow}
<1>1. /\ CurrentFlow \in Present /\ \A g \in Present : g \in Int
      /\ \A g \in Present : g <= CurrentFlow \/ (line + 1 < Len(lines_read)
                                                  /\ lines_read[line + 2].flow <= g)
      /\ line + 1 < Len(lines_read) => CurrentFlow < lines_read[line + 2].flow
      /\ Len(lines_read) \in Nat
  BY CollectedIsKept, ByPlaces, LinesShape
<1>2. FlowsBelow(CurrentFlow) \cup {CurrentFlow} = {g \in Present : g <= CurrentFlow}
  <2>1. \A g \in Present : g <= CurrentFlow <=> g < CurrentFlow \/ g = CurrentFlow
    BY <1>1
  <2> QED
    BY <1>1, <2>1 DEF FlowsBelow
<1>3. ASSUME line + 1 = Len(lines_read)
      PROVE  Present = {g \in Present : g <= CurrentFlow}
  BY <1>1, <1>3
<1>4. ASSUME line + 1 < Len(lines_read)
      PROVE  FlowsBelow(lines_read[line + 2].flow) = {g \in Present : g <= CurrentFlow}
  <2>1. line + 2 \in 1 .. Len(lines_read)
    BY <1>1, <1>4
  <2>2. lines_read[line + 2].flow \in Int
    BY <2>1, LinesShape
  <2>3. \A g \in Present : g < lines_read[line + 2].flow <=> g <= CurrentFlow
    BY <1>1, <1>4, <2>2
  <2> QED
    BY <2>3 DEF FlowsBelow
<1> QED
  BY <1>2, <1>3, <1>4

LEMMA EndFlowInv ==
    ASSUME SeriesInv, EndFlow
    PROVE  SeriesInv'
<1>1. /\ UNCHANGED inputVars /\ UNCHANGED <<script, lines_read>>
      /\ line' = line + 1 /\ data' = <<>> /\ MakeSeries("loop")
      /\ state = "loop" /\ line + 1 < Len(lines_read) /\ ~ SameFlow
  BY DEF EndFlow, HasNext, inputVars
<1>2. /\ LinesInOrder' <=> LinesInOrder
      /\ Present' = Present /\ (NothingFirst' <=> NothingFirst)
      /\ Kept(FlowOf(1))' = Kept(FlowOf(1))
      /\ FlowsBelow(CurrentFlow)' = FlowsBelow(CurrentFlow')
  BY <1>1, LinesStay
<1>3. PassInv /\ LinesInOrder /\ script \in {"goodput", "drop"}
  BY <1>1 DEF SeriesInv
<1>4. FlowEnds /\ line \in Nat /\ Len(lines_read) \in Nat
  BY <1>1, <1>3, LinesShape DEF FlowEnds, PassInv
<1>5. CASE SeriesMade /\ state' = "loop"
  <2>1. CurrentFlow' = lines_read[line + 2].flow
    <3>1. (line + 1) + 1 = line + 2
      BY <1>4
    <3> QED
      BY <1>1, <3>1 DEF CurrentFlow
  <2>2. Len(File') = Cardinality(FlowsBelow(CurrentFlow)')
    <3>1. FlowsBelow(CurrentFlow') = FlowsBelow(CurrentFlow) \cup {CurrentFlow}
      BY <1>1, <1>3, <1>4, <2>1, FlowsFollow
    <3>2. CurrentFlow \in Present
      BY <1>3, <1>4, CollectedIsKept
    <3>3. Cardinality(FlowsBelow(CurrentFlow) \cup {CurrentFlow})
              = Cardinality(FlowsBelow(CurrentFlow)) + 1
      BY <1>3, <3>2, FlowsCounted
    <3> QED
      BY <1>2, <1>3, <1>5, <3>1, <3>3 DEF PassInv, SeriesMade
  <2>3. Collected' = {} /\ ToSet(data)' = {}
    <3>1. ASSUME NEW j \in 1 .. line + 1
          PROVE  lines_read[j].flow # lines_read[line + 2].flow
      <4>1. j \in 1 .. Len(lines_read) /\ j <= line + 1 /\ line + 1 \in 1 .. Len(lines_read)
            /\ line + 2 \in 1 .. Len(lines_read)
        BY <1>1, <1>4
      <4>2. /\ lines_read[j].flow <= CurrentFlow /\ CurrentFlow < lines_read[line + 2].flow
            /\ lines_read[j].flow \in Int /\ CurrentFlow \in Int
            /\ lines_read[line + 2].flow \in Int
        BY <1>1, <1>3, <1>4, <4>1, LinesShape, CollectedIsKept DEF CurrentFlow
      <4> QED
        BY <4>2
    <3>2. Collected' = {}
      BY <1>1, <2>1, <3>1 DEF Collected
    <3>3. ToSet(data)' = {}
      BY <1>1 DEF ToSet
    <3> QED
      BY <3>2, <3>3
  <2>4. PassInv'
    <3>1. line' \in Nat /\ line' < Len(lines_read') /\ data' \in Seq(Entries)
      BY <1>1, <1>4
    <3> QED
      BY <1>1, <1>2, <1>5, <2>2, <2>3, <3>1 DEF PassInv, SeriesMade
  <2> QED
    BY <1>1, <1>2, <1>3, <1>5, <2>4 DEF SeriesInv, SeriesMade, Series
<1>6. CASE script = "goodput" /\ NothingFirst /\ state' = "error" /\ UNCHANGED <<File, a>>
  <2>1. SeriesAreDone' <=> SeriesAreDone
    BY <1>1, <1>6, DoneStay
  <2> QED
    BY <1>1, <1>2, <1>6, <2>1 DEF SeriesInv
<1> QED
  BY <1>1, <1>4, <1>5, <1>6, SeriesOfFlow

\* The loop ends at the last line, or there is none and so no flow.
LEMMA EndLastFlowInv ==
    ASSUME SeriesInv, EndLastFlow
    PROVE  SeriesInv'
<1>1. /\ UNCHANGED inputVars /\ UNCHANGED <<script, lines_read, line, data>>
      /\ MakeSeries("done") /\ state = "loop" /\ ~ line + 1 < Len(lines_read)
  BY DEF EndLastFlow, HasNext, inputVars
<1>2. /\ LinesInOrder' <=> LinesInOrder
      /\ Present' = Present /\ (NothingFirst' <=> NothingFirst)
  BY <1>1, LinesStay
<1>3. PassInv /\ LinesInOrder /\ script \in {"goodput", "drop"}
  BY <1>1 DEF SeriesInv
<1>4. line \in Nat /\ Len(lines_read) \in Nat /\ (line = 0 \/ line < Len(lines_read))
  BY <1>3, LinesShape DEF PassInv
<1>5. CASE Len(lines_read) # 0
  <2>1. line + 1 = Len(lines_read) /\ FlowEnds
    BY <1>1, <1>4, <1>5 DEF FlowEnds
  <2>2. CASE SeriesMade /\ state' = "done"
    <3>1. Len(File') = Cardinality(Present)
      <4>1. CurrentFlow \in Present /\ Present = FlowsBelow(CurrentFlow) \cup {CurrentFlow}
        BY <1>3, <1>4, <2>1, CollectedIsKept, FlowsFollow
      <4>2. Cardinality(FlowsBelow(CurrentFlow) \cup {CurrentFlow})
                = Cardinality(FlowsBelow(CurrentFlow)) + 1
        BY <1>3, <4>1, FlowsCounted
      <4> QED
        BY <1>3, <2>2, <4>1, <4>2 DEF PassInv, SeriesMade
    <3>2. script = "goodput" => ~ NothingFirst
      <4>1. Present # {}
        BY <1>3, <1>4, <2>1, CollectedIsKept
      <4> QED
        BY <2>2, <4>1 DEF SeriesMade, NothingFirst
    <3> QED
      BY <1>1, <1>2, <1>3, <2>2, <3>1, <3>2 DEF SeriesInv, SeriesMade, Series
  <2>3. CASE script = "goodput" /\ NothingFirst /\ state' = "error" /\ UNCHANGED <<File, a>>
    <3>1. SeriesAreDone' <=> SeriesAreDone
      BY <1>1, <2>3, DoneStay
    <3> QED
      BY <1>1, <1>2, <2>3, <3>1 DEF SeriesInv
  <2> QED
    BY <1>1, <2>1, <2>2, <2>3, SeriesOfFlow
<1>6. CASE Len(lines_read) = 0
  <2>1. Present = {} /\ line = 0
    BY <1>3, <1>4, <1>6, ByPlaces
  <2>2. File = <<>>
    <3>1. FlowsBelow(CurrentFlow) = {}
      BY <2>1 DEF FlowsBelow
    <3>2. Len(File) = 0
      BY <1>3, <3>1, FS_EmptySet DEF PassInv
    <3> QED
      BY <3>2 DEF SeriesInv
  <2>3. Sorted(data) = <<>> /\ data \in Seq(Entries)
    <3>1. Collected = {}
      BY <2>1 DEF Collected
    <3> QED
      BY <1>3, <3>1, SortedEntries DEF PassInv
  <2>4. CASE script = "goodput"
    <3>1. a = None
      BY <1>3, <2>2, <2>4 DEF PassInv
    <3>2. state' = "error" /\ UNCHANGED <<File, a>>
      BY <1>1, <2>3, <2>4, <3>1 DEF MakeSeries
    <3> QED
      BY <1>1, <1>2, <1>3, <2>1, <2>2, <2>4, <3>2 DEF SeriesInv, NothingFirst
  <2>5. CASE script = "drop"
    <3>1. /\ inst_data' = inst_data \o Gaps(Sorted(data)) /\ File' = Append(File, inst_data')
          /\ state' = "done"
      BY <1>1, <2>5 DEF MakeSeries
    <3>2. inst_data' \in Seq(Int)
      <4>1. inst_data = <<>>
        BY <1>3, <2>2, <2>5 DEF PassInv
      <4>2. Gaps(Sorted(data)) \in Seq(Int)
        BY <2>3, SortedEntries, GapsAreNumbers
      <4> QED
        BY <3>1, <4>1, <4>2
    <3>3. File' \in Seq(Seq(Int))
      BY <2>2, <3>1, <3>2
    <3> QED
      BY <1>1, <1>2, <1>3, <2>1, <2>5, <3>1, <3>3 DEF SeriesInv
  <2> QED
    BY <1>3, <2>4, <2>5
<1> QED
  BY <1>5, <1>6

LEMMA SeriesStep ==
    SeriesInv /\ [ScriptsNext]_<<program, ellipseVars, seriesVars>> => SeriesInv'
BY CollectInv, EndFlowInv, EndLastFlowInv, SeriesStutters DEF ScriptsNext, SeriesNext

LEMMA SeriesHold == SeriesInv => FlowSeriesOfRecords
<1> SUFFICES ASSUME SeriesInv PROVE SeriesAsDefined
  BY DEF FlowSeriesOfRecords
<1>1. DOMAIN File = 1 .. Len(File)
  BY DEF SeriesInv
<1> QED
  BY <1>1 DEF SeriesInv, SeriesAreDone, SeriesAsDefined

\* For any number of flows and lines, equal ones too, any window and any order of
\* numbers as text: one pass over the sorted lines makes for every flow with a record
\* a goodput series of all lines of that flow but the last as text; the drop series of
\* a flow has the gaps of the flows before it too; and the goodput script fails exactly
\* when the first flow has no record left to make a series of.
THEOREM FlowSeriesAreThoseOfRecords == ScriptsSpec => []FlowSeriesOfRecords
BY SeriesBegin, SeriesStep, SeriesHold, PTL DEF ScriptsSpec
=============================================================================
