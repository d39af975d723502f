-------------------------- MODULE SimulatorProofs ---------------------------
(***************************************************************************)
(* The kernel of the simulator executes its events in order, knows which   *)
(* of them have expired and never executes one that was cancelled, for any *)
(* delays and any number of events.                                        *)
(*                                                                         *)
(* Time never goes back whatever happens (TimeInv).  The rest depends on   *)
(* the uids, which order the events of one time: it is proved under the    *)
(* assumption that the run schedules fewer events than there are uids      *)
(* (UidsSuffice), as m_uid is a 32-bit counter that wraps around silently. *)
(* The inductive invariant then says that the uids are in the order of     *)
(* insertion and splits all events by their key: those that wait come      *)
(* after the current event, those that ran do not (KernelInv).             *)
(***************************************************************************)
EXTENDS SimulatorImpl, FiniteSetTheorems, SequenceTheorems, TLAPS

\* No uid is given twice.
UidsSuffice == MaxScheduled + 4 <= UidRange

\* The destroy events that wait are in the order of their numbers, and come after
\* those that ran.
DestroyOrder ==
    /\ \A i, j \in 1 .. Len(m_destroyEvents) :
           i < j => m_destroyEvents[i] < m_destroyEvents[j]
    /\ \A i \in 1 .. Len(m_destroyEvents) : m_destroyEvents[i] <= nDestroy
    /\ \A i \in 1 .. Len(destroyTrace) : destroyTrace[i] <= nDestroy
    /\ \A i \in 1 .. Len(destroyTrace), j \in 1 .. Len(m_destroyEvents) :
           destroyTrace[i] < m_destroyEvents[j]

TimeInv == TypeOK /\ NoEventInThePast /\ DestroyOrder /\ DestroyFifo

-----------------------------------------------------------------------------
(* Types, and time *)

LEMMA UidTyped ==
    ASSUME m_uid \in Nat, NEW n \in Nat
    PROVE  NextUid(n) \in 0 .. UidRange - 1
<1>1. UidRange \in Nat /\ UidRange > 0
  BY SimulatorAssumption
<1> QED
  BY <1>1 DEF NextUid

LEMMA ThreadEventsTyped ==
    ASSUME TypeOK
    PROVE  /\ Len(m_eventsWithContext) \in Nat
           /\ ThreadEvents \subseteq Event
           /\ \A e \in ThreadEvents : e.ts >= m_currentTs /\ e.rank > nEvents
<1>1. /\ m_eventsWithContext \in Seq(Delays) /\ Delays \subseteq Nat
      /\ m_currentTs \in Nat /\ nEvents \in Nat /\ m_uid \in Nat
  BY SimulatorAssumption DEF TypeOK
<1>2. Len(m_eventsWithContext) \in Nat
  BY <1>1, LenProperties
<1>3. ASSUME NEW i \in 1 .. Len(m_eventsWithContext)
      PROVE  /\ m_eventsWithContext[i] \in Nat
             /\ NextUid(i - 1) \in 0 .. UidRange - 1
             /\ i \in Nat \ {0}
  <2>1. m_eventsWithContext[i] \in Delays
    BY <1>1, ElementOfSeq
  <2>2. i - 1 \in Nat /\ i \in Nat \ {0}
    BY <1>2
  <2> QED
    BY <1>1, <2>1, <2>2, UidTyped
<1>4. ASSUME NEW e \in ThreadEvents
      PROVE  e \in Event /\ e.ts >= m_currentTs /\ e.rank > nEvents
  <2>1. PICK i \in 1 .. Len(m_eventsWithContext) :
            e = [ts   |-> m_currentTs + m_eventsWithContext[i],
                 uid  |-> NextUid(i - 1),
                 rank |-> nEvents + i]
    BY DEF ThreadEvents
  <2>2. /\ m_currentTs + m_eventsWithContext[i] \in Nat
        /\ m_currentTs + m_eventsWithContext[i] >= m_currentTs
        /\ nEvents + i \in Nat \ {0} /\ nEvents + i > nEvents
    BY <1>1, <1>3
  <2> QED
    BY <1>3, <2>1, <2>2 DEF Event
<1> QED
  BY <1>2, <1>4

LEMMA TimeInit == Init => TimeInv
<1> SUFFICES ASSUME Init PROVE TimeInv
  OBVIOUS
<1>1. m_stop \in BOOLEAN
  BY Zenon DEF Init
<1>2. /\ m_eventsWithContext \in Seq(Delays) /\ m_destroyEvents \in Seq(Nat)
      /\ trace \in Seq(Event) /\ destroyTrace \in Seq(Nat)
  BY EmptySeq DEF Init
<1>3. TypeOK /\ NoEventInThePast
  BY <1>1, <1>2, SimulatorAssumption DEF Init, TypeOK, NoEventInThePast, Phases
<1>4. DestroyOrder /\ DestroyFifo
  BY EmptySeq DEF Init, DestroyOrder, DestroyFifo
<1> QED
  BY <1>3, <1>4 DEF TimeInv

\* The kernel inserts the events of the thread.
LEMMA ProcessTime ==
    ASSUME TimeInv, ProcessEventsWithContext, m_stop' \in BOOLEAN, phase' \in Phases,
           UNCHANGED <<destroyVars, ids, cancelled, trace>>
    PROVE  TimeInv'
<1>1. /\ m_events' = m_events \cup ThreadEvents
      /\ m_uid' = NextUid(Len(m_eventsWithContext))
      /\ m_unscheduledEvents' = m_unscheduledEvents + Len(m_eventsWithContext)
      /\ nEvents' = nEvents + Len(m_eventsWithContext)
      /\ m_eventsWithContext' = <<>>
      /\ UNCHANGED <<m_currentTs, m_currentUid>>
  BY DEF ProcessEventsWithContext
<1>2. /\ Len(m_eventsWithContext) \in Nat /\ ThreadEvents \subseteq Event
      /\ \A e \in ThreadEvents : e.ts >= m_currentTs
  BY ThreadEventsTyped DEF TimeInv
<1>3. m_uid' \in 0 .. UidRange - 1
  BY <1>1, <1>2, UidTyped DEF TimeInv, TypeOK
<1>4. m_eventsWithContext' \in Seq(Delays)
  BY <1>1, EmptySeq
<1>5. nEvents' \in Nat /\ m_unscheduledEvents' \in Int
  BY <1>1, <1>2 DEF TimeInv, TypeOK
<1>6. UNCHANGED <<m_destroyEvents, destroyCancelled, nDestroy, destroyTrace>>
  BY DEF destroyVars
<1>7. TypeOK'
  BY <1>1, <1>2, <1>3, <1>4, <1>5, <1>6 DEF TimeInv, TypeOK
<1>8. NoEventInThePast'
  BY <1>1, <1>2 DEF TimeInv, NoEventInThePast
<1> QED
  BY <1>6, <1>7, <1>8 DEF TimeInv, DestroyOrder, DestroyFifo

LEMMA InsertTime ==
    ASSUME TimeInv, NEW delay \in Nat, Insert(NewEvent(m_currentTs + delay))
    PROVE  TimeInv'
<1> DEFINE e == NewEvent(m_currentTs + delay)
<1>1. /\ m_events' = m_events \cup {e} /\ m_uid' = NextUid(1)
      /\ m_unscheduledEvents' = m_unscheduledEvents + 1
      /\ nEvents' = nEvents + 1 /\ ids' = ids \cup {e}
      /\ UNCHANGED <<m_currentTs, m_currentUid, destroyVars, m_stop, m_eventsWithContext,
                     cancelled, trace, phase>>
  BY DEF Insert
<1>2. e \in Event /\ e.ts >= m_currentTs
  BY DEF NewEvent, Event, TimeInv, TypeOK
<1>3. m_uid' \in 0 .. UidRange - 1
  BY <1>1, UidTyped DEF TimeInv, TypeOK
<1> HIDE DEF e
<1>4. TypeOK'
  BY <1>1, <1>2, <1>3 DEF TimeInv, TypeOK, destroyVars
<1>5. NoEventInThePast'
  BY <1>1, <1>2 DEF TimeInv, NoEventInThePast
<1> QED
  BY <1>1, <1>4, <1>5 DEF TimeInv, DestroyOrder, DestroyFifo, destroyVars

\* The destroy events, and what else leaves the clock and the events alone.
LEMMA SideTime ==
    ASSUME TimeInv, m_uid' \in 0 .. UidRange - 1, m_unscheduledEvents' \in Int,
           m_events' \subseteq m_events, m_stop' \in BOOLEAN, phase' \in Phases,
           UNCHANGED <<m_currentTs, m_currentUid, nEvents, ids, trace>>,
           m_eventsWithContext' \in Seq(Delays), cancelled' \subseteq Nat,
           m_destroyEvents' \in Seq(Nat), destroyCancelled' \subseteq Nat,
           nDestroy' \in Nat, destroyTrace' \in Seq(Nat),
           DestroyOrder', DestroyFifo'
    PROVE  TimeInv'
BY DEF TimeInv, TypeOK, NoEventInThePast

-----------------------------------------------------------------------------
(* The destroy events *)

\* A sequence without its element i.
LEMMA ElementRemoved ==
    ASSUME NEW s \in Seq(Nat), NEW i \in 1 .. Len(s)
    PROVE  LET r == SubSeq(s, 1, i - 1) \o SubSeq(s, i + 1, Len(s))
           IN  /\ r \in Seq(Nat) /\ Len(r) = Len(s) - 1
               /\ \A k \in 1 .. Len(s) - 1 : r[k] = IF k < i THEN s[k] ELSE s[k + 1]
<1> DEFINE n == Len(s)
           a == SubSeq(s, 1, i - 1)
           b == SubSeq(s, i + 1, n)
<1>1. n \in Nat /\ i \in Nat /\ 1 <= i /\ i <= n
  BY LenProperties
<1>2. \A k \in 1 .. n : s[k] \in Nat
  BY ElementOfSeq
<1>3. a \in Seq(Nat) /\ Len(a) = i - 1 /\ \A k \in 1 .. i - 1 : a[k] = s[k]
  <2>1. \A k \in 1 .. i - 1 : s[k] \in Nat
    BY <1>1, <1>2
  <2>2. 1 \in Int /\ i - 1 \in Int
    BY <1>1
  <2>3. /\ a \in Seq(Nat) /\ Len(a) = IF 1 <= i - 1 THEN i - 1 - 1 + 1 ELSE 0
        /\ \A k \in 1 .. i - 1 - 1 + 1 : a[k] = s[1 + k - 1]
    BY <2>1, <2>2, SubSeqProperties
  <2> QED
    BY <1>1, <2>3
<1>4. b \in Seq(Nat) /\ Len(b) = n - i /\ \A k \in 1 .. n - i : b[k] = s[k + i]
  <2>1. \A k \in i + 1 .. n : s[k] \in Nat
    BY <1>1, <1>2
  <2>2. i + 1 \in Int /\ n \in Int
    BY <1>1
  <2>3. /\ b \in Seq(Nat) /\ Len(b) = IF i + 1 <= n THEN n - (i + 1) + 1 ELSE 0
        /\ \A k \in 1 .. n - (i + 1) + 1 : b[k] = s[i + 1 + k - 1]
    BY <2>1, <2>2, SubSeqProperties
  <2>4. n - (i + 1) + 1 = n - i /\ n - i \in Nat /\ (i + 1 <= n \/ n - i = 0)
    BY <1>1
  <2>5. b \in Seq(Nat) /\ Len(b) = n - i
    BY <2>3, <2>4
  <2>6. \A k \in 1 .. n - i : b[k] = s[k + i]
    <3> SUFFICES ASSUME NEW k \in 1 .. n - i PROVE b[k] = s[k + i]
      OBVIOUS
    <3> HIDE DEF b, n
    <3>1. i + 1 + k - 1 = k + i
      BY <1>1
    <3> QED
      BY <2>3, <2>4, <3>1
  <2> QED
    BY <2>5, <2>6
<1> HIDE DEF a, b, n
<1>5. /\ a \o b \in Seq(Nat) /\ Len(a \o b) = Len(a) + Len(b)
      /\ \A k \in 1 .. Len(a) + Len(b) :
             (a \o b)[k] = IF k <= Len(a) THEN a[k] ELSE b[k - Len(a)]
  BY <1>3, <1>4, ConcatProperties, Zenon
<1>6. Len(a) + Len(b) = n - 1
  BY <1>1, <1>3, <1>4
<1>7. ASSUME NEW k \in 1 .. n - 1
      PROVE  (a \o b)[k] = IF k < i THEN s[k] ELSE s[k + 1]
  <2>1. k \in 1 .. Len(a) + Len(b)
    BY <1>6
  <2>2. CASE k < i
    <3>1. k <= Len(a) /\ k \in 1 .. i - 1
      BY <1>1, <1>3, <2>2
    <3> QED
      BY <1>3, <1>5, <2>1, <2>2, <3>1
  <2>3. CASE ~ k < i
    <3>1. ~ k <= Len(a) /\ k - Len(a) \in 1 .. n - i /\ k - Len(a) + i = k + 1
      BY <1>1, <1>3, <2>3
    <3>2. (a \o b)[k] = b[k - Len(a)]
      BY <1>5, <2>1, <3>1
    <3> QED
      BY <1>4, <2>3, <3>1, <3>2
  <2> QED
    BY <2>2, <2>3
<1> QED
  BY <1>5, <1>6, <1>7 DEF a, b, n

LEMMA DestroyTyped ==
    ASSUME TimeInv
    PROVE  /\ m_destroyEvents \in Seq(Nat) /\ destroyTrace \in Seq(Nat)
           /\ Len(m_destroyEvents) \in Nat /\ Len(destroyTrace) \in Nat
           /\ \A i \in 1 .. Len(m_destroyEvents) : m_destroyEvents[i] \in Nat
           /\ \A i \in 1 .. Len(destroyTrace) : destroyTrace[i] \in Nat
           /\ nDestroy \in Nat /\ destroyCancelled \subseteq Nat
<1>1. /\ m_destroyEvents \in Seq(Nat) /\ destroyTrace \in Seq(Nat) /\ nDestroy \in Nat
      /\ destroyCancelled \subseteq Nat
  BY DEF TimeInv, TypeOK
<1> QED
  BY <1>1, LenProperties, ElementOfSeq

LEMMA ScheduleDestroyOrder ==
    ASSUME TimeInv, ScheduleDestroy
    PROVE  m_destroyEvents' \in Seq(Nat) /\ DestroyOrder' /\ DestroyFifo'
<1> DEFINE n == Len(m_destroyEvents)
<1>1. /\ nDestroy' = nDestroy + 1 /\ m_destroyEvents' = Append(m_destroyEvents, nDestroy + 1)
      /\ destroyTrace' = destroyTrace
  BY DEF ScheduleDestroy
<1>2. nDestroy + 1 \in Nat /\ n \in Nat
  BY DestroyTyped
<1>3. /\ m_destroyEvents' \in Seq(Nat) /\ Len(m_destroyEvents') = n + 1
      /\ \A i \in 1 .. n : m_destroyEvents'[i] = m_destroyEvents[i]
      /\ m_destroyEvents'[n + 1] = nDestroy + 1
  BY <1>1, <1>2, DestroyTyped, AppendProperties
<1>4. \A i \in 1 .. n + 1 : i \in 1 .. n \/ i = n + 1
  BY <1>2
<1>5. /\ \A i, j \in 1 .. n : i < j => m_destroyEvents[i] < m_destroyEvents[j]
      /\ \A i \in 1 .. n : m_destroyEvents[i] <= nDestroy
      /\ \A i \in 1 .. Len(destroyTrace) : destroyTrace[i] <= nDestroy
      /\ \A i \in 1 .. Len(destroyTrace), j \in 1 .. n : destroyTrace[i] < m_destroyEvents[j]
  BY DEF TimeInv, DestroyOrder
<1> HIDE DEF n
<1>6. \A i, j \in 1 .. n + 1 : i < j => m_destroyEvents'[i] < m_destroyEvents'[j]
  <2> SUFFICES ASSUME NEW i \in 1 .. n + 1, NEW j \in 1 .. n + 1, i < j
               PROVE  m_destroyEvents'[i] < m_destroyEvents'[j]
    OBVIOUS
  <2>1. i \in 1 .. n
    BY <1>2
  <2>2. m_destroyEvents[i] \in Nat /\ m_destroyEvents[i] <= nDestroy
    BY <1>5, <2>1, DestroyTyped DEF n
  <2>3. CASE j \in 1 .. n
    BY <1>3, <1>5, <2>1, <2>3
  <2>4. CASE j = n + 1
    BY <1>3, <2>1, <2>2, <2>4, DestroyTyped
  <2> QED
    BY <1>4, <2>3, <2>4
<1>7. \A i \in 1 .. n + 1 : m_destroyEvents'[i] <= nDestroy + 1
  <2> SUFFICES ASSUME NEW i \in 1 .. n + 1 PROVE m_destroyEvents'[i] <= nDestroy + 1
    OBVIOUS
  <2>1. CASE i \in 1 .. n
    BY <1>3, <1>5, <2>1, DestroyTyped DEF n
  <2>2. CASE i = n + 1
    BY <1>3, <2>2, DestroyTyped
  <2> QED
    BY <1>4, <2>1, <2>2
<1>8. \A i \in 1 .. Len(destroyTrace), j \in 1 .. n + 1 : destroyTrace[i] < m_destroyEvents'[j]
  <2> SUFFICES ASSUME NEW i \in 1 .. Len(destroyTrace), NEW j \in 1 .. n + 1
               PROVE  destroyTrace[i] < m_destroyEvents'[j]
    OBVIOUS
  <2>1. CASE j \in 1 .. n
    BY <1>3, <1>5, <2>1
  <2>2. CASE j = n + 1
    BY <1>3, <1>5, <2>2, DestroyTyped
  <2> QED
    BY <1>4, <2>1, <2>2
<1>9. \A i \in 1 .. Len(destroyTrace) : destroyTrace[i] <= nDestroy + 1
  BY <1>5, DestroyTyped
<1> QED
  BY <1>1, <1>3, <1>6, <1>7, <1>8, <1>9 DEF TimeInv, DestroyOrder, DestroyFifo

LEMMA RemoveDestroyOrder ==
    ASSUME TimeInv, NEW n, RemoveDestroy(n)
    PROVE  m_destroyEvents' \in Seq(Nat) /\ DestroyOrder' /\ DestroyFifo'
<1> DEFINE s == m_destroyEvents
<1>1. PICK i \in 1 .. Len(s) :
          m_destroyEvents' = SubSeq(s, 1, i - 1) \o SubSeq(s, i + 1, Len(s))
  BY DEF RemoveDestroy
<1>2. UNCHANGED <<nDestroy, destroyTrace>>
  BY DEF RemoveDestroy
<1>3. s \in Seq(Nat) /\ Len(s) \in Nat
  BY DestroyTyped
<1>4. /\ m_destroyEvents' \in Seq(Nat) /\ Len(m_destroyEvents') = Len(s) - 1
      /\ \A k \in 1 .. Len(s) - 1 : m_destroyEvents'[k] = IF k < i THEN s[k] ELSE s[k + 1]
  BY <1>1, <1>3, ElementRemoved
<1> DEFINE up(k) == IF k < i THEN k ELSE k + 1
<1>5. /\ \A k \in 1 .. Len(s) - 1 : up(k) \in 1 .. Len(s) /\ m_destroyEvents'[k] = s[up(k)]
      /\ \A k, l \in 1 .. Len(s) - 1 : k < l => up(k) < up(l)
  <2>1. \A k \in 1 .. Len(s) - 1 : up(k) \in 1 .. Len(s)
    BY <1>3
  <2>2. \A k \in 1 .. Len(s) - 1 : m_destroyEvents'[k] = s[up(k)]
    BY <1>4
  <2>3. \A k, l \in 1 .. Len(s) - 1 : k < l => up(k) < up(l)
    BY <1>3
  <2> QED
    BY <2>1, <2>2, <2>3
<1> HIDE DEF up
<1>6. DestroyOrder' /\ DestroyFifo'
  BY <1>2, <1>4, <1>5 DEF TimeInv, DestroyOrder, DestroyFifo
<1> QED
  BY <1>4, <1>6

LEMMA DestroyOneOrder ==
    ASSUME TimeInv, DestroyOneEvent
    PROVE  /\ m_destroyEvents' \in Seq(Nat) /\ destroyTrace' \in Seq(Nat)
           /\ DestroyOrder' /\ DestroyFifo'
<1> DEFINE s == m_destroyEvents
           t == destroyTrace
<1>1. /\ s # <<>> /\ m_destroyEvents' = Tail(s) /\ nDestroy' = nDestroy
      /\ destroyTrace' = t \/ destroyTrace' = Append(t, Head(s))
  BY DEF DestroyOneEvent
<1>2. s \in Seq(Nat) /\ t \in Seq(Nat) /\ Len(s) \in Nat \ {0} /\ Len(t) \in Nat
      /\ nDestroy \in Nat
  BY <1>1, DestroyTyped, EmptySeq
<1>3. /\ m_destroyEvents' \in Seq(Nat) /\ Len(m_destroyEvents') = Len(s) - 1
      /\ \A k \in 1 .. Len(s) - 1 : m_destroyEvents'[k] = s[k + 1]
      /\ Head(s) = s[1] /\ s[1] \in Nat
  BY <1>1, <1>2, HeadTailProperties
<1>4. /\ \A i, j \in 1 .. Len(s) : i < j => s[i] < s[j]
      /\ \A i \in 1 .. Len(s) : s[i] <= nDestroy
      /\ \A i \in 1 .. Len(t) : t[i] <= nDestroy
      /\ \A i \in 1 .. Len(t), j \in 1 .. Len(s) : t[i] < s[j]
      /\ \A i, j \in 1 .. Len(t) : i < j => t[i] < t[j]
  BY DEF TimeInv, DestroyOrder, DestroyFifo
<1>5. \A k \in 1 .. Len(s) - 1 : k + 1 \in 1 .. Len(s) /\ 1 < k + 1
  BY <1>2
<1>6. CASE destroyTrace' = t
  <2>1. DestroyOrder' /\ DestroyFifo'
    BY <1>1, <1>2, <1>3, <1>4, <1>5, <1>6 DEF DestroyOrder, DestroyFifo
  <2> QED
    BY <1>2, <1>3, <1>6, <2>1
<1>7. CASE destroyTrace' = Append(t, Head(s))
  <2>1. /\ destroyTrace' \in Seq(Nat) /\ Len(destroyTrace') = Len(t) + 1
        /\ \A i \in 1 .. Len(t) : destroyTrace'[i] = t[i]
        /\ destroyTrace'[Len(t) + 1] = s[1]
    BY <1>2, <1>3, <1>7, AppendProperties
  <2>2. \A i \in 1 .. Len(t) + 1 : i \in 1 .. Len(t) \/ i = Len(t) + 1
    BY <1>2
  <2>3. 1 \in 1 .. Len(s)
    BY <1>2
  <2>4. ASSUME NEW i \in 1 .. Len(t) + 1
        PROVE  /\ destroyTrace'[i] <= nDestroy
               /\ \A j \in 1 .. Len(s) - 1 : destroyTrace'[i] < s[j + 1]
    <3>1. CASE i \in 1 .. Len(t)
      BY <1>4, <1>5, <2>1, <3>1
    <3>2. CASE i = Len(t) + 1
      BY <1>4, <1>5, <2>1, <2>3, <3>2
    <3> QED
      BY <2>2, <3>1, <3>2
  <2>5. ASSUME NEW i \in 1 .. Len(t) + 1, NEW j \in 1 .. Len(t) + 1, i < j
        PROVE  destroyTrace'[i] < destroyTrace'[j]
    <3>1. i \in 1 .. Len(t)
      BY <1>2, <2>5
    <3>2. CASE j \in 1 .. Len(t)
      BY <1>4, <2>1, <2>5, <3>1, <3>2
    <3>3. CASE j = Len(t) + 1
      BY <1>4, <2>1, <2>3, <3>1, <3>3
    <3> QED
      BY <2>2, <3>2, <3>3
  <2>6. DestroyFifo'
    BY <2>1, <2>5 DEF DestroyFifo
  <2>7. DestroyOrder'
    <3>1. \A i, j \in 1 .. Len(s) - 1 : i < j => m_destroyEvents'[i] < m_destroyEvents'[j]
      <4> SUFFICES ASSUME NEW i \in 1 .. Len(s) - 1, NEW j \in 1 .. Len(s) - 1, i < j
                   PROVE  m_destroyEvents'[i] < m_destroyEvents'[j]
        OBVIOUS
      <4>1. i + 1 < j + 1
        BY <1>2
      <4>2. s[i + 1] < s[j + 1]
        BY <1>4, <1>5, <4>1
      <4> QED
        BY <1>3, <4>2
    <3>2. \A i \in 1 .. Len(s) - 1 : m_destroyEvents'[i] <= nDestroy
      BY <1>3, <1>4, <1>5
    <3> QED
      BY <1>1, <1>3, <2>1, <2>4, <3>1, <3>2 DEF DestroyOrder
  <2> QED
    BY <1>3, <2>1, <2>6, <2>7
<1> QED
  BY <1>1, <1>6, <1>7

-----------------------------------------------------------------------------
(* Every step keeps the types and the direction of time *)

\* What the invariant says of the variables that a step leaves alone.
LEMMA TypesKept ==
    ASSUME TimeInv
    PROVE  /\ m_uid \in 0 .. UidRange - 1 /\ m_uid \in Nat /\ m_unscheduledEvents \in Int
           /\ m_stop \in BOOLEAN /\ phase \in Phases
           /\ m_eventsWithContext \in Seq(Delays) /\ cancelled \subseteq Nat
           /\ m_destroyEvents \in Seq(Nat) /\ destroyCancelled \subseteq Nat
           /\ nDestroy \in Nat /\ destroyTrace \in Seq(Nat)
           /\ DestroyOrder /\ DestroyFifo /\ ids \subseteq Event
           /\ m_events \subseteq Event /\ trace \in Seq(Event)
<1>1. m_stop \in BOOLEAN
  BY Zenon DEF TimeInv, TypeOK
<1> QED
  BY <1>1, SimulatorAssumption DEF TimeInv, TypeOK

LEMMA DestroyKept ==
    ASSUME TimeInv, UNCHANGED <<m_destroyEvents, nDestroy, destroyTrace>>
    PROVE  DestroyOrder' /\ DestroyFifo'
BY DEF TimeInv, DestroyOrder, DestroyFifo

LEMMA ProcessOneTime ==
    ASSUME TimeInv, NEW e \in m_events, ProcessOneEvent(e)
    PROVE  TimeInv'
<1>1. /\ IsNext(e) /\ m_events' = m_events \ {e} /\ m_currentTs' = e.ts
      /\ m_currentUid' = e.uid /\ m_unscheduledEvents' = m_unscheduledEvents - 1
      /\ phase' \in {"after", "event"} /\ trace' \in {trace, Append(trace, e)}
      /\ UNCHANGED <<m_uid, nEvents, destroyVars, m_stop, m_eventsWithContext, ids, cancelled>>
  BY DEF ProcessOneEvent
<1>2. e \in Event
  BY TypesKept
<1>3. trace' \in Seq(Event)
  <2>1. trace \in Seq(Event) /\ Append(trace, e) \in Seq(Event)
    BY <1>2, TypesKept, AppendProperties
  <2> QED
    BY <1>1, <2>1
<1>4. UNCHANGED <<m_destroyEvents, destroyCancelled, nDestroy, destroyTrace>>
  BY <1>1 DEF destroyVars
<1>5. TypeOK'
  BY <1>1, <1>2, <1>3, <1>4 DEF TimeInv, TypeOK, Event, Phases
<1>6. NoEventInThePast'
  <2>1. ASSUME NEW f \in m_events \ {e} PROVE f.ts >= e.ts
    <3>1. f.ts \in Nat /\ e.ts \in Nat
      BY <1>2, TypesKept DEF Event
    <3>2. e.ts < f.ts \/ e.ts = f.ts
      BY <1>1 DEF IsNext, Earlier
    <3> QED
      BY <3>1, <3>2
  <2> QED
    BY <1>1, <2>1 DEF NoEventInThePast
<1> QED
  BY <1>4, <1>5, <1>6, DestroyKept DEF TimeInv

LEMMA TimeNext == TimeInv /\ [Next]_vars => TimeInv'
<1> SUFFICES ASSUME TimeInv, [Next]_vars PROVE TimeInv'
  OBVIOUS
<1>1. ASSUME NEW delay \in Delays, Schedule(delay)
      PROVE  TimeInv'
  BY <1>1, InsertTime, SimulatorAssumption DEF Schedule
<1>2. CASE ScheduleNow
  <2>1. NewEvent(m_currentTs) = NewEvent(m_currentTs + 0)
    BY DEF NewEvent, TimeInv, TypeOK
  <2> QED
    BY <1>2, <2>1, InsertTime DEF ScheduleNow
<1>3. ASSUME NEW delay \in Delays, ScheduleFromThread(delay)
      PROVE  TimeInv'
  <2>1. m_eventsWithContext' \in Seq(Delays)
    BY <1>3, TypesKept, AppendProperties DEF ScheduleFromThread
  <2> QED
    BY <1>3, <2>1, TypesKept, DestroyKept, SideTime
    DEF ScheduleFromThread, kernelVars, destroyVars
<1>4. CASE ScheduleDestroy
  <2>1. m_uid' \in 0 .. UidRange - 1 /\ nDestroy' \in Nat
    <3>1. m_uid \in Nat /\ nDestroy \in Nat /\ 1 \in Nat
      BY TypesKept
    <3>2. NextUid(1) \in 0 .. UidRange - 1
      BY <3>1, UidTyped
    <3> QED
      BY <1>4, <3>1, <3>2 DEF ScheduleDestroy
  <2> QED
    BY <1>4, <2>1, TypesKept, ScheduleDestroyOrder, SideTime DEF ScheduleDestroy
<1>5. ASSUME NEW id \in ids, Cancel(id) \/ Remove(id)
      PROVE  TimeInv'
  <2>1. /\ m_events' \subseteq m_events /\ cancelled' = cancelled \cup {id.rank}
        /\ m_unscheduledEvents' \in Int
        /\ UNCHANGED <<m_uid, m_currentTs, m_currentUid, nEvents, destroyVars, m_stop,
                       m_eventsWithContext, ids, trace, phase>>
    BY <1>5, TypesKept DEF Cancel, Remove, kernelVars
  <2>2. cancelled' \subseteq Nat
    BY <2>1, TypesKept DEF Event
  <2> QED
    BY <2>1, <2>2, TypesKept, DestroyKept, SideTime DEF destroyVars
<1>6. ASSUME NEW n \in 1 .. nDestroy, CancelDestroy(n)
      PROVE  TimeInv'
  <2>1. destroyCancelled' \subseteq Nat
    BY <1>6, TypesKept DEF CancelDestroy
  <2> QED
    BY <1>6, <2>1, TypesKept, DestroyKept, SideTime DEF CancelDestroy, kernelVars
<1>7. ASSUME NEW n \in 1 .. nDestroy, RemoveDestroy(n)
      PROVE  TimeInv'
  BY <1>7, TypesKept, RemoveDestroyOrder, SideTime DEF RemoveDestroy, kernelVars
<1>8. CASE Stop
  <2>1. m_stop' \in BOOLEAN
    BY <1>8, Zenon DEF Stop
  <2> QED
    BY <1>8, <2>1, TypesKept, DestroyKept, SideTime DEF Stop, kernelVars, destroyVars
<1>9. CASE Run
  <2>1. m_stop' \in BOOLEAN
    BY <1>9, Zenon DEF Run
  <2> QED
    BY <1>9, <2>1, ProcessTime DEF Run, Phases
<1>10. ASSUME NEW e \in m_events, ProcessOneEvent(e)
       PROVE  TimeInv'
  BY <1>10, ProcessOneTime
<1>11. CASE EventReturns
  BY <1>11, TypesKept, ProcessTime DEF EventReturns, Phases
<1>12. CASE RunReturns \/ Destroy \/ DestroyEventReturns \/ DestroyReturns
  <2>1. /\ phase' \in Phases
        /\ UNCHANGED <<kernelVars, destroyVars, m_stop, m_eventsWithContext, ids, cancelled,
                       trace>>
    BY <1>12 DEF RunReturns, Destroy, DestroyEventReturns, DestroyReturns, Phases
  <2> QED
    BY <2>1, TypesKept, DestroyKept, SideTime DEF kernelVars, destroyVars
<1>13. CASE DestroyOneEvent
  <2>1. /\ phase' \in Phases
        /\ UNCHANGED <<kernelVars, destroyCancelled, nDestroy, m_stop, m_eventsWithContext,
                       ids, cancelled, trace>>
    BY <1>13, TypesKept DEF DestroyOneEvent, Phases
  <2> QED
    BY <1>13, <2>1, TypesKept, DestroyOneOrder, SideTime DEF kernelVars
<1>14. CASE UNCHANGED vars
  BY <1>14, TypesKept, DestroyKept, SideTime DEF vars, kernelVars, destroyVars
<1> QED
  BY <1>1, <1>2, <1>3, <1>4, <1>5, <1>6, <1>7, <1>8, <1>9, <1>10, <1>11, <1>12, <1>13, <1>14
  DEF Next

LEMMA TimeInvariant == Spec => []TimeInv
BY TimeInit, TimeNext, PTL DEF Spec

-----------------------------------------------------------------------------
(* The keys of the events, where no uid is given twice *)

\* The key of e is not later than the current one.
Executed(e) == e.ts < m_currentTs \/ (e.ts = m_currentTs /\ e.uid <= m_currentUid)

\* The events the kernel or the program know of.
Known == m_events \cup ids \cup {trace[i] : i \in 1 .. Len(trace)}

\* The uids given so far.
NextFree == 4 + nEvents + nDestroy

UidsGiven ==
    /\ nEvents + nDestroy + Len(m_eventsWithContext) <= MaxScheduled
    /\ m_uid = NextFree % UidRange
    /\ m_currentUid < NextFree

\* The uids are in the order of insertion.
UidOrder ==
    /\ \A e \in Known : e.uid \in 4 .. NextFree - 1 /\ e.rank <= nEvents
    /\ \A e, f \in Known : (e.rank = f.rank => e = f) /\ (e.rank < f.rank => e.uid < f.uid)

\* The events that wait come after the current one, those that ran do not, and
\* the program holds an EventId of no other event but a removed one.
KeysSplit ==
    /\ \A e \in m_events : ~ Executed(e)
    /\ \A i \in 1 .. Len(trace) : Executed(trace[i])
    /\ \A id \in ids : id \in m_events \/ Executed(id) \/ id.rank \in cancelled

KernelInv ==
    /\ TimeInv
    /\ UidsGiven /\ UidOrder /\ KeysSplit
    /\ IsFiniteSet(m_events) /\ CountExact
    /\ FifoOrder /\ CancelledNeverRuns

\* The numbers of the kernel, and its events.
LEMMA KernelNumbers ==
    ASSUME KernelInv
    PROVE  /\ UidRange \in Nat /\ UidRange > 4 /\ MaxScheduled \in Nat
           /\ m_currentTs \in Nat /\ m_currentUid \in Nat
           /\ nEvents \in Nat /\ nDestroy \in Nat /\ NextFree \in Nat
           /\ Len(m_eventsWithContext) \in Nat /\ Len(trace) \in Nat
           /\ Known \subseteq Event
           /\ m_events \subseteq Known /\ ids \subseteq Known
           /\ \A i \in 1 .. Len(trace) : trace[i] \in Known
<1>1. /\ m_currentTs \in Nat /\ m_currentUid \in 0 .. UidRange - 1
      /\ nEvents \in Nat /\ nDestroy \in Nat
      /\ m_eventsWithContext \in Seq(Delays) /\ trace \in Seq(Event)
      /\ m_events \subseteq Event /\ ids \subseteq Event
  BY DEF KernelInv, TimeInv, TypeOK
<1>2. UidRange \in Nat /\ UidRange > 4 /\ MaxScheduled \in Nat
  BY SimulatorAssumption
<1>3. \A i \in 1 .. Len(trace) : trace[i] \in Event
  BY <1>1, ElementOfSeq
<1>4. Len(m_eventsWithContext) \in Nat /\ Len(trace) \in Nat
  BY <1>1, LenProperties
<1> QED
  BY <1>1, <1>2, <1>3, <1>4 DEF Known, NextFree

\* As long as not all uids have been given, the next one is not smaller.
LEMMA UidNotWrapped ==
    ASSUME UidsSuffice, KernelInv, NEW i \in Nat,
           nEvents + nDestroy + i < MaxScheduled
    PROVE  NextUid(i) = NextFree + i
<1>1. /\ NextFree \in Nat /\ UidRange \in Nat /\ UidRange > 4 /\ NextFree + i < UidRange
  BY KernelNumbers DEF UidsSuffice, NextFree
<1>2. m_uid = NextFree % UidRange
  BY DEF KernelInv, UidsGiven
<1>3. m_uid = NextFree
  BY <1>1, <1>2
<1>4. (NextFree + i) % UidRange = NextFree + i
  BY <1>1
<1> QED
  BY <1>3, <1>4 DEF NextUid

\* The uid of the next event, after n more were given.
LEMMA UidGiven ==
    ASSUME UidsSuffice, KernelInv, NEW n \in Nat, nEvents + nDestroy + n <= MaxScheduled
    PROVE  NextUid(n) = (NextFree + n) % UidRange
<1>1. /\ NextFree \in Nat /\ UidRange \in Nat /\ UidRange > 4 /\ MaxScheduled \in Nat
      /\ nEvents \in Nat /\ nDestroy \in Nat
  BY KernelNumbers
<1>2. m_uid = NextFree % UidRange
  BY DEF KernelInv, UidsGiven
<1>3. CASE n = 0
  <2>1. NextFree % UidRange \in 0 .. UidRange - 1
    BY <1>1
  <2>2. (NextFree % UidRange) % UidRange = NextFree % UidRange
    BY <1>1, <2>1
  <2> QED
    BY <1>1, <1>2, <1>3, <2>1, <2>2 DEF NextUid
<1>4. CASE n > 0
  <2>1. NextFree < UidRange
    BY <1>1, <1>4 DEF UidsSuffice, NextFree
  <2>2. m_uid = NextFree
    BY <1>1, <1>2, <2>1
  <2> QED
    BY <2>2 DEF NextUid
<1> QED
  BY <1>3, <1>4

\* Events are inserted, with the uids and ranks that are next.
LEMMA EventsInserted ==
    ASSUME KernelInv, TimeInv', NEW new, NEW n \in Nat,
           \A e \in new : /\ e \in Event /\ e.ts >= m_currentTs
                          /\ e.rank \in nEvents + 1 .. nEvents + n
                          /\ e.uid = NextFree + (e.rank - nEvents - 1),
           \A e, f \in new : e.rank = f.rank => e = f,
           IsFiniteSet(new), Cardinality(new) = n,
           m_events' = m_events \cup new, ids' \in {ids, ids \cup new},
           nEvents' = nEvents + n, nDestroy' = nDestroy,
           m_unscheduledEvents' = m_unscheduledEvents + n,
           m_uid' = (NextFree + n) % UidRange,
           nEvents + n + nDestroy + Len(m_eventsWithContext') <= MaxScheduled,
           UNCHANGED <<m_currentTs, m_currentUid, cancelled, trace>>
    PROVE  KernelInv'
<1>1. /\ m_currentTs \in Nat /\ m_currentUid \in Nat /\ nEvents \in Nat
      /\ nDestroy \in Nat /\ NextFree \in Nat
      /\ m_events \subseteq Known /\ ids \subseteq Known /\ Known \subseteq Event
  BY KernelNumbers
<1>2. NextFree' = NextFree + n
  BY <1>1 DEF NextFree
<1>3. UidsGiven'
  BY <1>1, <1>2 DEF KernelInv, UidsGiven
<1>4. Known' \subseteq Known \cup new
  BY DEF Known
<1>5. \A e \in Known : /\ e.rank \in Nat /\ e.uid \in Nat /\ e.rank <= nEvents
                       /\ e.uid \in 4 .. NextFree - 1
  BY <1>1 DEF KernelInv, UidOrder, Event
<1>6. \A e \in new : /\ e.rank \in Nat /\ e.uid \in Nat /\ e.ts \in Nat
                     /\ nEvents < e.rank /\ e.rank <= nEvents + n
                     /\ NextFree <= e.uid /\ e.uid < NextFree + n
  BY <1>1 DEF Event
<1>7. UidOrder'
  <2>1. \A e \in Known' : e.uid \in 4 .. NextFree' - 1 /\ e.rank <= nEvents'
    <3> SUFFICES ASSUME NEW e \in Known'
                 PROVE  e.uid \in 4 .. NextFree' - 1 /\ e.rank <= nEvents'
      OBVIOUS
    <3> e \in Known \cup new /\ NextFree' = NextFree + n /\ nEvents' = nEvents + n
      BY <1>2, <1>4
    <3>1. CASE e \in Known
      BY <1>1, <1>5, <3>1
    <3>2. CASE e \in new
      BY <1>1, <1>6, <3>2 DEF NextFree
    <3> QED
      BY <3>1, <3>2
  <2>2. \A e, f \in Known \cup new :
            (e.rank = f.rank => e = f) /\ (e.rank < f.rank => e.uid < f.uid)
    <3> SUFFICES ASSUME NEW e \in Known \cup new, NEW f \in Known \cup new
                 PROVE  (e.rank = f.rank => e = f) /\ (e.rank < f.rank => e.uid < f.uid)
      OBVIOUS
    <3>1. CASE e \in Known /\ f \in Known
      BY <3>1 DEF KernelInv, UidOrder
    <3>2. CASE e \in Known /\ f \in new
      BY <1>1, <1>5, <1>6, <3>2
    <3>3. CASE e \in new /\ f \in Known
      BY <1>1, <1>5, <1>6, <3>3
    <3>4. CASE e \in new /\ f \in new
      <4>1. e.uid = NextFree + (e.rank - nEvents - 1)
            /\ f.uid = NextFree + (f.rank - nEvents - 1)
        BY <3>4
      <4>2. e.rank \in Nat /\ f.rank \in Nat
        BY <1>6, <3>4
      <4>3. e.rank < f.rank => e.uid < f.uid
        BY <1>1, <4>1, <4>2
      <4> QED
        BY <3>4, <4>3
    <3> QED
      BY <3>1, <3>2, <3>3, <3>4
  <2> QED
    BY <1>4, <2>1, <2>2 DEF UidOrder
<1>8. KeysSplit'
  <2>1. \A e \in new : ~ Executed(e)
    BY <1>1, <1>6 DEF KernelInv, UidsGiven, Executed
  <2> QED
    BY <2>1 DEF KernelInv, KeysSplit, Executed
<1>9. IsFiniteSet(m_events') /\ CountExact'
  <2>1. m_events \cap new = {}
    BY <1>1, <1>5, <1>6
  <2>2. IsFiniteSet(m_events)
    BY DEF KernelInv
  <2>3. /\ IsFiniteSet(m_events')
        /\ Cardinality(m_events') = Cardinality(m_events) + n - Cardinality({})
    BY <2>1, <2>2, FS_Union
  <2>4. Cardinality(m_events) \in Nat /\ Cardinality({}) = 0
    BY <2>2, FS_CardinalityType, FS_EmptySet
  <2> QED
    BY <2>3, <2>4 DEF KernelInv, CountExact
<1>10. FifoOrder' /\ CancelledNeverRuns'
  BY DEF KernelInv, FifoOrder, CancelledNeverRuns
<1> QED
  BY <1>3, <1>7, <1>8, <1>9, <1>10 DEF KernelInv

LEMMA InsertInv ==
    ASSUME UidsSuffice, KernelInv, TimeInv', NEW delay \in Nat,
           Insert(NewEvent(m_currentTs + delay))
    PROVE  KernelInv'
<1> DEFINE e == NewEvent(m_currentTs + delay)
<1>1. /\ m_events' = m_events \cup {e} /\ m_uid' = NextUid(1)
      /\ m_unscheduledEvents' = m_unscheduledEvents + 1
      /\ nEvents' = nEvents + 1 /\ ids' = ids \cup {e} /\ nDestroy' = nDestroy
      /\ UNCHANGED <<m_currentTs, m_currentUid, m_eventsWithContext, cancelled, trace>>
      /\ nEvents + nDestroy + Len(m_eventsWithContext) < MaxScheduled
  BY DEF Insert, destroyVars, MaySchedule
<1>2. /\ m_currentTs \in Nat /\ nEvents \in Nat /\ nDestroy \in Nat /\ NextFree \in Nat
      /\ Len(m_eventsWithContext) \in Nat /\ MaxScheduled \in Nat
      /\ UidRange \in Nat /\ m_uid \in 0 .. UidRange - 1
  BY KernelNumbers DEF KernelInv, TimeInv, TypeOK
<1>3. m_uid = NextFree /\ NextUid(1) = (NextFree + 1) % UidRange
  <2>1. NextUid(0) = NextFree + 0
    BY <1>1, <1>2, UidNotWrapped
  <2>2. NextUid(0) = m_uid
    BY <1>2 DEF NextUid
  <2>3. NextUid(1) = (NextFree + 1) % UidRange
    BY <1>1, <1>2, UidGiven
  <2> QED
    BY <1>2, <2>1, <2>2, <2>3
<1>4. e = [ts |-> m_currentTs + delay, uid |-> NextFree, rank |-> nEvents + 1]
  BY <1>3 DEF NewEvent
<1> HIDE DEF e
<1>5. /\ e \in Event /\ e.ts >= m_currentTs /\ e.rank \in nEvents + 1 .. nEvents + 1
      /\ e.uid = NextFree + (e.rank - nEvents - 1)
  BY <1>2, <1>3, <1>4 DEF Event
<1>6. IsFiniteSet({e}) /\ Cardinality({e}) = 1
  BY FS_Singleton
<1>7. nEvents + 1 + nDestroy + Len(m_eventsWithContext') <= MaxScheduled
  BY <1>1, <1>2
<1> DEFINE new == {e}
<1>8. /\ \A f \in new : /\ f \in Event /\ f.ts >= m_currentTs
                        /\ f.rank \in nEvents + 1 .. nEvents + 1
                        /\ f.uid = NextFree + (f.rank - nEvents - 1)
      /\ \A f, g \in new : f.rank = g.rank => f = g
      /\ IsFiniteSet(new) /\ Cardinality(new) = 1
      /\ m_events' = m_events \cup new /\ ids' \in {ids, ids \cup new}
  BY <1>1, <1>5, <1>6
<1> HIDE DEF new
<1> QED
  BY <1>1, <1>3, <1>7, <1>8, EventsInserted

\* The events of the thread are as many as it scheduled.
LEMMA ThreadEventsCounted ==
    ASSUME KernelInv
    PROVE  /\ IsFiniteSet(ThreadEvents)
           /\ Cardinality(ThreadEvents) = Len(m_eventsWithContext)
<1> DEFINE n == Len(m_eventsWithContext)
           f == [i \in 1 .. n |-> [ts   |-> m_currentTs + m_eventsWithContext[i],
                                   uid  |-> NextUid(i - 1),
                                   rank |-> nEvents + i]]
<1>1. n \in Nat /\ nEvents \in Nat
  BY KernelNumbers
<1>2. f \in Bijection(1 .. n, ThreadEvents)
  <2>1. f \in [1 .. n -> ThreadEvents]
    BY DEF ThreadEvents
  <2>2. \A i, j \in 1 .. n : f[i] = f[j] => i = j
    <3> SUFFICES ASSUME NEW i \in 1 .. n, NEW j \in 1 .. n, f[i] = f[j] PROVE i = j
      OBVIOUS
    <3>1. f[i].rank = nEvents + i /\ f[j].rank = nEvents + j
      OBVIOUS
    <3>2. nEvents + i = nEvents + j /\ i \in Int /\ j \in Int
      BY <1>1, <3>1
    <3> QED
      BY <1>1, <3>2
  <2>3. \A e \in ThreadEvents : \E i \in 1 .. n : f[i] = e
    BY DEF ThreadEvents
  <2> HIDE DEF f
  <2>4. f \in Injection(1 .. n, ThreadEvents)
    BY <2>1, <2>2, Zenon DEF Injection, IsInjective
  <2>5. f \in Surjection(1 .. n, ThreadEvents)
    BY <2>1, <2>3, Zenon DEF Surjection
  <2> QED
    BY <2>4, <2>5, Zenon DEF Bijection
<1>3. ExistsBijection(1 .. n, ThreadEvents)
  BY <1>2, Zenon DEF ExistsBijection
<1>4. IsFiniteSet(1 .. n) /\ Cardinality(1 .. n) = n
  <2> HIDE DEF n
  <2>1. /\ IsFiniteSet(1 .. n)
        /\ Cardinality(1 .. n) = IF 1 > n THEN 0 ELSE n - 1 + 1
    <3>1. 1 \in Int /\ n \in Int
      BY <1>1
    <3> QED
      BY <3>1, FS_Interval
  <2> QED
    BY <1>1, <2>1
<1> QED
  BY <1>3, <1>4, FS_Bijection

LEMMA ProcessInv ==
    ASSUME UidsSuffice, KernelInv, TimeInv', ProcessEventsWithContext,
           UNCHANGED <<destroyVars, ids, cancelled, trace>>
    PROVE  KernelInv'
<1> DEFINE n == Len(m_eventsWithContext)
<1>1. /\ m_events' = m_events \cup ThreadEvents
      /\ m_uid' = NextUid(n)
      /\ m_unscheduledEvents' = m_unscheduledEvents + n
      /\ nEvents' = nEvents + n /\ nDestroy' = nDestroy
      /\ m_eventsWithContext' = <<>>
      /\ UNCHANGED <<m_currentTs, m_currentUid, ids, cancelled, trace>>
  BY DEF ProcessEventsWithContext, destroyVars
<1>2. /\ n \in Nat /\ nEvents \in Nat /\ nDestroy \in Nat /\ MaxScheduled \in Nat
      /\ nEvents + nDestroy + n <= MaxScheduled /\ NextFree \in Nat
  BY KernelNumbers DEF KernelInv, UidsGiven
<1>3. m_uid' = (NextFree + n) % UidRange
  BY <1>1, <1>2, UidGiven
<1>4. \A e \in ThreadEvents : e \in Event /\ e.ts >= m_currentTs
  BY ThreadEventsTyped DEF KernelInv, TimeInv
<1>5. \A e \in ThreadEvents : /\ e.rank \in nEvents + 1 .. nEvents + n
                              /\ e.uid = NextFree + (e.rank - nEvents - 1)
  <2> SUFFICES ASSUME NEW e \in ThreadEvents
               PROVE  /\ e.rank \in nEvents + 1 .. nEvents + n
                      /\ e.uid = NextFree + (e.rank - nEvents - 1)
    OBVIOUS
  <2>1. PICK i \in 1 .. n : e.uid = NextUid(i - 1) /\ e.rank = nEvents + i
    BY DEF ThreadEvents
  <2>2. i - 1 \in Nat /\ nEvents + nDestroy + (i - 1) < MaxScheduled
    BY <1>2
  <2>3. e.uid = NextFree + (i - 1)
    BY <2>1, <2>2, UidNotWrapped
  <2> QED
    BY <1>2, <2>1, <2>3
<1>6. \A e, f \in ThreadEvents : e.rank = f.rank => e = f
  <2> SUFFICES ASSUME NEW e \in ThreadEvents, NEW f \in ThreadEvents, e.rank = f.rank
               PROVE  e = f
    OBVIOUS
  <2>1. PICK i \in 1 .. n : e = [ts   |-> m_currentTs + m_eventsWithContext[i],
                                 uid  |-> NextUid(i - 1),
                                 rank |-> nEvents + i]
    BY DEF ThreadEvents
  <2>2. PICK j \in 1 .. n : f = [ts   |-> m_currentTs + m_eventsWithContext[j],
                                 uid  |-> NextUid(j - 1),
                                 rank |-> nEvents + j]
    BY DEF ThreadEvents
  <2>3. nEvents + i = nEvents + j
    BY <2>1, <2>2
  <2>4. i = j
    BY <1>2, <2>3
  <2> QED
    BY <2>1, <2>2, <2>4
<1>7. IsFiniteSet(ThreadEvents) /\ Cardinality(ThreadEvents) = n
  BY ThreadEventsCounted
<1>8. nEvents + n + nDestroy + Len(m_eventsWithContext') <= MaxScheduled
  <2>1. Len(m_eventsWithContext') = 0
    BY <1>1, EmptySeq
  <2> QED
    BY <1>2, <2>1
<1> HIDE DEF n
<1> QED
  BY <1>1, <1>2, <1>3, <1>4, <1>5, <1>6, <1>7, <1>8, EventsInserted

\* An event that is not expired waits in the scheduler, and there is no other of
\* its rank.
LEMMA NotExpired ==
    ASSUME KernelInv, NEW id \in ids, ~ IsExpired(id)
    PROVE  /\ id \in m_events
           /\ \A i \in 1 .. Len(trace) : trace[i].rank # id.rank
           /\ \A e \in m_events : e.ts = id.ts /\ e.uid = id.uid => e = id
<1>1. id \in m_events
  BY DEF KernelInv, KeysSplit, IsExpired, Executed
<1>2. /\ Known \subseteq Event /\ m_events \subseteq Known /\ id \in Known
      /\ \A i \in 1 .. Len(trace) : trace[i] \in Known
  BY KernelNumbers
<1>3. \A i \in 1 .. Len(trace) : trace[i] # id
  BY <1>1 DEF KernelInv, KeysSplit
<1>4. \A e, f \in Known : (e.rank = f.rank => e = f) /\ (e.rank < f.rank => e.uid < f.uid)
  BY DEF KernelInv, UidOrder
<1>5. \A e \in Known : e.uid = id.uid => e = id
  <2> SUFFICES ASSUME NEW e \in Known, e.uid = id.uid PROVE e = id
    OBVIOUS
  <2>1. e.rank \in Nat /\ id.rank \in Nat /\ e.uid \in Nat
    BY <1>2 DEF Event
  <2>2. ~ e.rank < id.rank /\ ~ id.rank < e.rank
    BY <1>2, <1>4, <2>1
  <2>3. e.rank = id.rank
    BY <2>1, <2>2
  <2> QED
    BY <1>2, <1>4, <2>3
<1> QED
  BY <1>1, <1>2, <1>3, <1>4, <1>5

LEMMA CancelInv ==
    ASSUME KernelInv, TimeInv', NEW id \in ids, Cancel(id)
    PROVE  KernelInv'
<1>1. /\ ~ IsExpired(id) /\ cancelled' = cancelled \cup {id.rank}
      /\ UNCHANGED <<m_uid, m_currentTs, m_currentUid, m_unscheduledEvents, m_events,
                     nEvents, nDestroy, m_eventsWithContext, ids, trace>>
  BY DEF Cancel, kernelVars, destroyVars
<1>2. \A i \in 1 .. Len(trace) : trace[i].rank # id.rank
  BY <1>1, NotExpired
<1>3. UidsGiven' /\ UidOrder'
  BY <1>1 DEF KernelInv, UidsGiven, UidOrder, Known, NextFree
<1>4. KeysSplit'
  BY <1>1 DEF KernelInv, KeysSplit, Executed
<1>5. IsFiniteSet(m_events') /\ CountExact' /\ FifoOrder'
  BY <1>1 DEF KernelInv, CountExact, FifoOrder
<1>6. CancelledNeverRuns'
  BY <1>1, <1>2 DEF KernelInv, CancelledNeverRuns
<1> QED
  BY <1>3, <1>4, <1>5, <1>6 DEF KernelInv

LEMMA RemoveInv ==
    ASSUME KernelInv, TimeInv', NEW id \in ids, Remove(id)
    PROVE  KernelInv'
<1>1. /\ ~ IsExpired(id) /\ cancelled' = cancelled \cup {id.rank}
      /\ m_events' = {e \in m_events : ~ (e.ts = id.ts /\ e.uid = id.uid)}
      /\ m_unscheduledEvents' = m_unscheduledEvents - 1
      /\ UNCHANGED <<m_uid, m_currentTs, m_currentUid, nEvents, nDestroy,
                     m_eventsWithContext, ids, trace>>
  BY DEF Remove, destroyVars
<1>2. /\ id \in m_events /\ m_events' = m_events \ {id}
      /\ \A i \in 1 .. Len(trace) : trace[i].rank # id.rank
  BY <1>1, NotExpired
<1>3. Known' \subseteq Known
  BY <1>1, <1>2 DEF Known
<1>4. UidsGiven' /\ UidOrder'
  BY <1>1, <1>3 DEF KernelInv, UidsGiven, UidOrder, NextFree
<1>5. KeysSplit'
  BY <1>1, <1>2 DEF KernelInv, KeysSplit, Executed
<1>6. IsFiniteSet(m_events') /\ Cardinality(m_events') = Cardinality(m_events) - 1
  BY <1>2, FS_RemoveElement DEF KernelInv
<1>7. CountExact'
  BY <1>1, <1>6 DEF KernelInv, CountExact
<1>8. FifoOrder' /\ CancelledNeverRuns'
  BY <1>1, <1>2 DEF KernelInv, FifoOrder, CancelledNeverRuns
<1> QED
  BY <1>4, <1>5, <1>6, <1>7, <1>8 DEF KernelInv

\* The current key moves on to the least of the events that wait.
LEMMA ProcessOneInv ==
    ASSUME KernelInv, TimeInv', NEW e \in m_events, ProcessOneEvent(e)
    PROVE  KernelInv'
<1> DEFINE n == Len(trace)
<1>1. /\ m_events' = m_events \ {e} /\ m_currentTs' = e.ts /\ m_currentUid' = e.uid
      /\ m_unscheduledEvents' = m_unscheduledEvents - 1
      /\ \/ trace' = trace
         \/ trace' = Append(trace, e) /\ e.rank \notin cancelled
      /\ UNCHANGED <<m_uid, nEvents, nDestroy, m_eventsWithContext, ids, cancelled>>
      /\ \A f \in m_events \ {e} : Earlier(e, f)
  BY DEF ProcessOneEvent, IsNext, destroyVars
<1>2. /\ n \in Nat /\ m_currentTs \in Nat /\ m_currentUid \in Nat /\ NextFree \in Nat
      /\ Known \subseteq Event /\ m_events \subseteq Known /\ ids \subseteq Known
      /\ \A i \in 1 .. n : trace[i] \in Known
      /\ e \in Known
  BY KernelNumbers
<1>3. \A f \in Known : f.ts \in Nat /\ f.uid \in Nat /\ f.rank \in Nat
  BY <1>2 DEF Event
<1>4. ~ Executed(e)
  BY DEF KernelInv, KeysSplit
<1>5. \A f \in Known : Executed(f) => Executed(f)'
  <2> SUFFICES ASSUME NEW f \in Known, Executed(f)
               PROVE  f.ts < e.ts \/ (f.ts = e.ts /\ f.uid <= e.uid)
    BY <1>1 DEF Executed
  <2> QED
    BY <1>2, <1>3, <1>4 DEF Executed
<1>6. /\ n' = n \/ n' = n + 1
      /\ \A i \in 1 .. n : trace'[i] = trace[i]
      /\ \A i \in 1 .. n' : i \in 1 .. n \/ (trace'[i] = e /\ e.rank \notin cancelled)
  <2>1. CASE trace' = trace
    BY <2>1
  <2>2. CASE trace' = Append(trace, e) /\ e.rank \notin cancelled
    <3>1. trace \in Seq(Event) /\ e \in Event
      BY <1>2 DEF KernelInv, TimeInv, TypeOK
    <3>2. /\ n' = n + 1 /\ \A i \in 1 .. n : trace'[i] = trace[i]
          /\ trace'[n + 1] = e
      BY <2>2, <3>1, AppendProperties
    <3>3. \A i \in 1 .. n + 1 : i \in 1 .. n \/ i = n + 1
      BY <1>2
    <3> QED
      BY <2>2, <3>2, <3>3
  <2> QED
    BY <1>1, <2>1, <2>2
<1>7. Known' \subseteq Known
  <2>1. \A i \in 1 .. n' : trace'[i] \in Known
    BY <1>2, <1>6
  <2> QED
    BY <1>1, <1>2, <2>1 DEF Known
<1>8. UidOrder' /\ UidsGiven'
  <2>1. e.uid < NextFree
    BY <1>2, <1>3 DEF KernelInv, UidOrder
  <2> QED
    BY <1>1, <1>7, <2>1 DEF KernelInv, UidOrder, UidsGiven, NextFree
<1>9. KeysSplit'
  <2>1. Executed(e)'
    BY <1>1, <1>2, <1>3 DEF Executed
  <2>2. \A f \in m_events' : ~ Executed(f)'
    <3> SUFFICES ASSUME NEW f \in m_events \ {e}
                 PROVE  ~ (f.ts < e.ts \/ (f.ts = e.ts /\ f.uid <= e.uid))
      BY <1>1 DEF Executed
    <3>1. f \in Known
      BY <1>2
    <3> QED
      BY <1>1, <1>2, <1>3, <3>1 DEF Earlier
  <2>3. \A i \in 1 .. n' : Executed(trace[i])'
    <3> SUFFICES ASSUME NEW i \in 1 .. n'
                 PROVE  \/ trace'[i].ts < e.ts
                        \/ trace'[i].ts = e.ts /\ trace'[i].uid <= e.uid
      BY <1>1 DEF Executed
    <3>1. CASE i \in 1 .. n
      <4>1. trace'[i] = trace[i] /\ trace[i] \in Known /\ Executed(trace[i])
        BY <1>2, <1>6, <3>1 DEF KernelInv, KeysSplit
      <4> QED
        BY <1>2, <1>3, <1>4, <4>1 DEF Executed
    <3>2. CASE trace'[i] = e
      BY <1>2, <1>3, <3>2
    <3> QED
      BY <1>6, <3>1, <3>2
  <2>4. \A id \in ids' : id \in m_events' \/ Executed(id)' \/ id.rank \in cancelled'
    <3> SUFFICES ASSUME NEW id \in ids
                 PROVE  id \in m_events' \/ Executed(id)' \/ id.rank \in cancelled
      BY <1>1
    <3>1. id \in m_events \/ Executed(id) \/ id.rank \in cancelled
      BY DEF KernelInv, KeysSplit
    <3> QED
      BY <1>1, <1>2, <1>5, <2>1, <3>1
  <2> QED
    BY <2>2, <2>3, <2>4 DEF KeysSplit
<1>10. IsFiniteSet(m_events') /\ CountExact'
  <2>1. IsFiniteSet(m_events') /\ Cardinality(m_events') = Cardinality(m_events) - 1
    BY <1>1, FS_RemoveElement DEF KernelInv
  <2> QED
    BY <1>1, <2>1 DEF KernelInv, CountExact
<1>11. FifoOrder'
  <2> SUFFICES ASSUME NEW i \in 1 .. n', NEW j \in 1 .. n', i < j
               PROVE  \/ trace'[i].ts < trace'[j].ts
                      \/ trace'[i].ts = trace'[j].ts /\ trace'[i].rank < trace'[j].rank
    BY DEF FifoOrder
  <2>1. i \in 1 .. n
    BY <1>2, <1>6
  <2>2. CASE j \in 1 .. n
    BY <1>6, <2>1, <2>2 DEF KernelInv, FifoOrder
  <2>3. CASE trace'[j] = e
    <3> DEFINE f == trace[i]
    <3>1. trace'[i] = f /\ f \in Known /\ Executed(f)
      BY <1>2, <1>6, <2>1 DEF KernelInv, KeysSplit
    <3> HIDE DEF f
    <3>2. f.ts < e.ts \/ (f.ts = e.ts /\ f.uid < e.uid)
      BY <1>2, <1>3, <1>4, <3>1 DEF Executed
    <3>3. f.uid < e.uid => f.rank < e.rank
      <4>1. /\ e.rank = f.rank => e = f
            /\ e.rank < f.rank => e.uid < f.uid
        BY <1>2, <3>1 DEF KernelInv, UidOrder
      <4> QED
        BY <1>2, <1>3, <3>1, <4>1
    <3> QED
      BY <2>3, <3>1, <3>2, <3>3
  <2> QED
    BY <1>6, <2>2, <2>3
<1>12. CancelledNeverRuns'
  BY <1>1, <1>6 DEF KernelInv, CancelledNeverRuns
<1> QED
  BY <1>8, <1>9, <1>10, <1>11, <1>12 DEF KernelInv

\* A step that leaves the events, the clock and the trace alone.
LEMMA SideInv ==
    ASSUME KernelInv, TimeInv',
           UNCHANGED <<m_events, m_currentTs, m_currentUid, m_unscheduledEvents, nEvents,
                       ids, cancelled, trace>>,
           nDestroy' \in Nat, nDestroy' >= nDestroy,
           nEvents + nDestroy' + Len(m_eventsWithContext') <= MaxScheduled,
           m_uid' = (4 + nEvents + nDestroy') % UidRange
    PROVE  KernelInv'
<1>1. nEvents \in Nat /\ nDestroy \in Nat /\ m_currentUid \in Nat /\ Known \subseteq Event
  BY KernelNumbers
<1>2. UidsGiven'
  <2>1. m_currentUid < 4 + nEvents + nDestroy
    BY DEF KernelInv, UidsGiven, NextFree
  <2>2. m_currentUid < 4 + nEvents + nDestroy'
    <3>1. \A a, b, c, d \in Nat : a < 4 + b + c /\ d >= c => a < 4 + b + d
      OBVIOUS
    <3>2. nDestroy' \in Nat /\ nDestroy' >= nDestroy
      OBVIOUS
    <3> QED
      BY <1>1, <2>1, <3>1, <3>2
  <2> QED
    BY <2>2 DEF UidsGiven, NextFree
<1>3. UidOrder'
  <2>1. Known' = Known
    BY DEF Known
  <2>2. \A e \in Known : e.uid \in 4 .. NextFree - 1
    BY DEF KernelInv, UidOrder
  <2>3. \A e \in Known : e.uid \in 4 .. NextFree' - 1
    BY <1>1, <2>2 DEF NextFree
  <2> QED
    BY <2>1, <2>3 DEF KernelInv, UidOrder
<1>4. KeysSplit' /\ IsFiniteSet(m_events') /\ CountExact' /\ FifoOrder' /\ CancelledNeverRuns'
  BY DEF KernelInv, KeysSplit, Executed, CountExact, FifoOrder, CancelledNeverRuns
<1> QED
  BY <1>2, <1>3, <1>4 DEF KernelInv

LEMMA KernelInit == UidsSuffice /\ Init => KernelInv
<1> SUFFICES ASSUME UidsSuffice, Init PROVE KernelInv
  OBVIOUS
<1>1. TimeInv
  BY TimeInit
<1>2. UidRange \in Nat /\ UidRange > 4 /\ MaxScheduled \in Nat
  BY SimulatorAssumption
<1>3. /\ m_events = {} /\ ids = {} /\ trace = <<>> /\ Len(trace) = 0
      /\ m_eventsWithContext = <<>> /\ Len(m_eventsWithContext) = 0
      /\ nEvents = 0 /\ nDestroy = 0 /\ m_uid = 4 /\ m_currentUid = 0
      /\ m_unscheduledEvents = 0
  BY EmptySeq DEF Init
<1>4. UidsGiven
  BY <1>2, <1>3 DEF UidsGiven, NextFree
<1>5. UidOrder
  <2>1. Known = {}
    BY <1>3 DEF Known
  <2> QED
    BY <2>1 DEF UidOrder
<1>6. KeysSplit /\ FifoOrder /\ CancelledNeverRuns
  BY <1>3 DEF KeysSplit, FifoOrder, CancelledNeverRuns
<1>7. IsFiniteSet(m_events) /\ CountExact
  BY <1>3, FS_EmptySet DEF CountExact
<1> QED
  BY <1>1, <1>4, <1>5, <1>6, <1>7 DEF KernelInv

LEMMA KernelNext == UidsSuffice /\ KernelInv /\ [Next]_vars => KernelInv'
<1> SUFFICES ASSUME UidsSuffice, KernelInv, [Next]_vars PROVE KernelInv'
  OBVIOUS
<1>1. TimeInv /\ TimeInv'
  BY TimeNext DEF KernelInv
<1>2. /\ nEvents \in Nat /\ nDestroy \in Nat /\ Len(m_eventsWithContext) \in Nat
      /\ MaxScheduled \in Nat
      /\ nEvents + nDestroy + Len(m_eventsWithContext) <= MaxScheduled
      /\ m_uid = (4 + nEvents + nDestroy) % UidRange
  BY KernelNumbers DEF KernelInv, UidsGiven, NextFree
<1>3. ASSUME NEW delay \in Delays, Schedule(delay)
      PROVE  KernelInv'
  BY <1>1, <1>3, InsertInv, SimulatorAssumption DEF Schedule
<1>4. CASE ScheduleNow
  <2>1. NewEvent(m_currentTs) = NewEvent(m_currentTs + 0)
    BY DEF NewEvent, KernelInv, TimeInv, TypeOK
  <2> QED
    BY <1>1, <1>4, <2>1, InsertInv DEF ScheduleNow
<1>5. ASSUME NEW delay \in Delays, ScheduleFromThread(delay)
      PROVE  KernelInv'
  <2>1. /\ m_eventsWithContext' = Append(m_eventsWithContext, delay)
        /\ UNCHANGED <<kernelVars, destroyVars, ids, cancelled, trace>>
        /\ nEvents + nDestroy + Len(m_eventsWithContext) < MaxScheduled
    BY <1>5 DEF ScheduleFromThread, MaySchedule
  <2>2. Len(m_eventsWithContext') = Len(m_eventsWithContext) + 1
    BY <1>1, <2>1, AppendProperties DEF TimeInv, TypeOK
  <2> QED
    BY <1>1, <1>2, <2>1, <2>2, SideInv DEF kernelVars, destroyVars
<1>6. CASE ScheduleDestroy
  <2>1. /\ nDestroy' = nDestroy + 1 /\ m_uid' = NextUid(1)
        /\ UNCHANGED <<m_events, m_currentTs, m_currentUid, m_unscheduledEvents, nEvents,
                       m_eventsWithContext, ids, cancelled, trace>>
        /\ nEvents + nDestroy + Len(m_eventsWithContext) < MaxScheduled
    BY <1>6 DEF ScheduleDestroy, MaySchedule
  <2>2. nEvents + nDestroy + 1 <= MaxScheduled
    BY <1>2, <2>1
  <2>3. NextUid(1) = (NextFree + 1) % UidRange
    BY <2>2, UidGiven
  <2>4. NextFree + 1 = 4 + nEvents + nDestroy'
    BY <1>2, <2>1 DEF NextFree
  <2>5. nEvents + nDestroy' + Len(m_eventsWithContext') <= MaxScheduled
    BY <1>2, <2>1
  <2> QED
    BY <1>1, <1>2, <2>1, <2>3, <2>4, <2>5, SideInv
<1>7. ASSUME NEW id \in ids, Cancel(id) \/ Remove(id)
      PROVE  KernelInv'
  BY <1>1, <1>7, CancelInv, RemoveInv
<1>8. CASE Run \/ EventReturns
  BY <1>1, <1>8, ProcessInv DEF Run, EventReturns
<1>9. ASSUME NEW e \in m_events, ProcessOneEvent(e)
      PROVE  KernelInv'
  BY <1>1, <1>9, ProcessOneInv
<1>10. ASSUME UNCHANGED <<kernelVars, nDestroy, m_eventsWithContext, ids, cancelled, trace>>
       PROVE  KernelInv'
  BY <1>1, <1>2, <1>10, SideInv DEF kernelVars
<1>11. ASSUME NEW n \in 1 .. nDestroy, CancelDestroy(n) \/ RemoveDestroy(n)
       PROVE  KernelInv'
  BY <1>10, <1>11 DEF CancelDestroy, RemoveDestroy
<1>12. CASE \/ Stop \/ RunReturns \/ Destroy \/ DestroyOneEvent \/ DestroyEventReturns
            \/ DestroyReturns \/ UNCHANGED vars
  BY <1>10, <1>12
  DEF Stop, RunReturns, Destroy, DestroyOneEvent, DestroyEventReturns, DestroyReturns, vars,
      destroyVars
<1> QED
  BY <1>3, <1>4, <1>5, <1>6, <1>7, <1>8, <1>9, <1>11, <1>12 DEF Next

LEMMA KernelInvariant ==
    ASSUME UidsSuffice
    PROVE  Spec => []KernelInv
BY KernelInit, KernelNext, PTL DEF Spec

-----------------------------------------------------------------------------
(* The properties *)

\* The clock never goes back: no event that waits is before Simulator::Now,
\* whichever thread scheduled it and though the uids may wrap around.
THEOREM TimeNeverGoesBack == Spec => []NoEventInThePast
<1>1. TimeInv => NoEventInThePast
  BY DEF TimeInv
<1> QED
  BY <1>1, TimeInvariant, PTL

\* EventId::IsExpired is exact and the kernel counts its events exactly, as long
\* as no uid is given twice.
THEOREM KernelIsConsistent ==
    ASSUME UidsSuffice
    PROVE  Spec => []Consistent
<1>1. KernelInv => Consistent
  <2> SUFFICES ASSUME KernelInv PROVE Consistent
    OBVIOUS
  <2>1. TypeOK /\ CountExact
    BY DEF KernelInv, TimeInv
  <2>2. ASSUME NEW id \in ids
        PROVE  IsExpired(id) <=> ~ (id \in m_events /\ id.rank \notin cancelled)
    <3>1. IsExpired(id) <=> id.uid = 2 \/ Executed(id) \/ id.rank \in cancelled
      BY DEF IsExpired, Executed
    <3>2. id.uid # 2
      BY KernelNumbers DEF KernelInv, UidOrder
    <3>3. id \in m_events => ~ Executed(id)
      BY DEF KernelInv, KeysSplit
    <3>4. id \in m_events \/ Executed(id) \/ id.rank \in cancelled
      BY DEF KernelInv, KeysSplit
    <3> QED
      BY <3>1, <3>2, <3>3, <3>4
  <2>3. ExpiredExactly
    BY <2>2 DEF ExpiredExactly
  <2> QED
    BY <2>1, <2>3 DEF Consistent
<1> QED
  BY <1>1, KernelInvariant, PTL

\* Events run in the order of their times and those of one time in the order in
\* which they were scheduled, and destroy events in the order in which they were
\* scheduled, as long as no uid is given twice.
THEOREM EventsRunInOrder ==
    ASSUME UidsSuffice
    PROVE  Spec => []RunsInOrder
<1>1. KernelInv => RunsInOrder
  BY DEF KernelInv, TimeInv, RunsInOrder
<1> QED
  BY <1>1, KernelInvariant, PTL

\* No event runs after Cancel or Remove was called for it, and none that ran can
\* be cancelled, its own execution included, as long as no uid is given twice.
THEOREM NoCancelledEventRuns ==
    ASSUME UidsSuffice
    PROVE  Spec => []CancelledNeverRuns
<1>1. KernelInv => CancelledNeverRuns
  BY DEF KernelInv
<1> QED
  BY <1>1, KernelInvariant, PTL

=============================================================================
