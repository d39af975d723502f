---------------------------- MODULE SimulatorImpl ----------------------------
(***************************************************************************)
(* DefaultSimulatorImpl, the kernel that orders and executes the events of *)
(* a simulation, with the EventIds the program keeps and a thread other    *)
(* than the main one that schedules events with ScheduleWithContext.       *)
(*                                                                         *)
(* An event is known by its rank: the number of events inserted before it, *)
(* plus one.  The scheduler is abstracted to the set of the events it      *)
(* holds, of which RemoveNext takes the one with the least key (m_ts,      *)
(* m_uid), as every Scheduler must.                                        *)
(***************************************************************************)
EXTENDS Integers, Sequences, FiniteSets

CONSTANTS UidRange,    \* number of values of m_uid (2^32 in the code)
          Delays,      \* delays given to Schedule
          MaxScheduled \* bound: events scheduled in a run, by whatever means

ASSUME SimulatorAssumption ==
    /\ UidRange \in Nat /\ UidRange > 4
    /\ Delays \subseteq Nat
    /\ MaxScheduled \in Nat

Event == [ts : Nat, uid : 0 .. UidRange - 1, rank : Nat \ {0}]

VARIABLES
    m_events,                 \* the events in the scheduler
    m_uid,                    \* uid of the next event
    m_currentTs, m_currentUid,
    m_unscheduledEvents,
    m_stop,
    m_eventsWithContext,      \* delays of the events scheduled by the thread
    m_destroyEvents,          \* events to run at Destroy
    ids,                      \* EventIds returned by Schedule and ScheduleNow
    cancelled,                \* ranks of the events whose Cancel was called
    destroyCancelled,         \* destroy events whose Cancel was called
    nEvents,                  \* events inserted so far
    nDestroy,                 \* destroy events scheduled so far, known by their number
    trace,                    \* events executed, in order
    destroyTrace,             \* destroy events executed, in order
    phase                     \* what the main thread executes

kernelVars  == <<m_uid, m_currentTs, m_currentUid, m_unscheduledEvents, m_events, nEvents>>
destroyVars == <<m_destroyEvents, destroyCancelled, nDestroy, destroyTrace>>
vars == <<kernelVars, destroyVars, m_stop, m_eventsWithContext, ids, cancelled, trace, phase>>

\* The main thread executes the program outside Run, the loop of Run, the
\* function of an event, the end of ProcessOneEvent, the loop of Destroy or
\* the function of a destroy event; Destroy returned.
Phases == {"program", "loop", "event", "after", "destroying", "destroyEvent", "destroyed"}

Init ==
    /\ m_events = {} /\ m_uid = 4
    /\ m_currentTs = 0 /\ m_currentUid = 0
    /\ m_unscheduledEvents = 0
    /\ m_stop = FALSE
    /\ m_eventsWithContext = <<>>
    /\ m_destroyEvents = <<>>
    /\ ids = {}
    /\ cancelled = {} /\ destroyCancelled = {}
    /\ nEvents = 0 /\ nDestroy = 0
    /\ trace = <<>> /\ destroyTrace = <<>>
    /\ phase = "program"

\* The main thread executes code of the program, which may call the simulator.
InProgram == phase \in {"program", "event", "destroyEvent"}

\* The bound on the events scheduled is not reached.
MaySchedule == nEvents + nDestroy + Len(m_eventsWithContext) < MaxScheduled

-----------------------------------------------------------------------------
(* Scheduling *)

\* The event inserted next, at time ts.
NewEvent(ts) == [ts |-> ts, uid |-> m_uid, rank |-> nEvents + 1]

\* Mutant of NextUid: the counter is wider than the uid of an event.
NextUidUnbounded(n) == m_uid + n

NextUid(n) == (m_uid + n) % UidRange

\* Schedule and ScheduleNow, called at time stamp m_currentTs.
Insert(e) ==
    /\ InProgram
    /\ MaySchedule
    /\ m_events' = m_events \cup {e}
    /\ m_uid' = NextUid(1)
    /\ m_unscheduledEvents' = m_unscheduledEvents + 1
    /\ nEvents' = nEvents + 1
    /\ ids' = ids \cup {e}
    /\ UNCHANGED <<m_currentTs, m_currentUid, destroyVars, m_stop, m_eventsWithContext,
                   cancelled, trace, phase>>

Schedule(delay) == Insert(NewEvent(m_currentTs + delay))
ScheduleNow     == Insert(NewEvent(m_currentTs))

\* Mutant of ScheduleDestroy: the event is put at the front of the list.
ScheduleDestroyFront ==
    /\ InProgram
    /\ MaySchedule
    /\ nDestroy' = nDestroy + 1
    /\ m_destroyEvents' = <<nDestroy + 1>> \o m_destroyEvents
    /\ m_uid' = NextUid(1)
    /\ UNCHANGED <<m_events, m_currentTs, m_currentUid, m_unscheduledEvents, nEvents,
                   destroyCancelled, destroyTrace, m_stop, m_eventsWithContext, ids,
                   cancelled, trace, phase>>

ScheduleDestroy ==
    /\ InProgram
    /\ MaySchedule
    /\ nDestroy' = nDestroy + 1
    /\ m_destroyEvents' = Append(m_destroyEvents, nDestroy + 1)
    /\ m_uid' = NextUid(1)
    /\ UNCHANGED <<m_events, m_currentTs, m_currentUid, m_unscheduledEvents, nEvents,
                   destroyCancelled, destroyTrace, m_stop, m_eventsWithContext, ids,
                   cancelled, trace, phase>>

\* ScheduleWithContext in a thread that is not the main one, at any moment.
\* (The main thread reads m_eventsWithContextEmpty without the mutex: when it
\* still reads TRUE, it behaves as if the thread had come later.)
ScheduleFromThread(delay) ==
    /\ MaySchedule
    /\ phase # "destroyed"
    /\ m_eventsWithContext' = Append(m_eventsWithContext, delay)
    /\ UNCHANGED <<kernelVars, destroyVars, m_stop, ids, cancelled, trace, phase>>

\* Mutant of ThreadEvents: the delays are taken for times.
ThreadEventsAbsolute ==
    {[ts   |-> m_eventsWithContext[i],
      uid  |-> NextUid(i - 1),
      rank |-> nEvents + i] : i \in 1 .. Len(m_eventsWithContext)}

\* The events the thread scheduled are inserted, in order, relative to the
\* current time.  The kernel returns no EventId for them.
ThreadEvents ==
    {[ts   |-> m_currentTs + m_eventsWithContext[i],
      uid  |-> NextUid(i - 1),
      rank |-> nEvents + i] : i \in 1 .. Len(m_eventsWithContext)}

ProcessEventsWithContext ==
    /\ m_events' = m_events \cup ThreadEvents
    /\ m_uid' = NextUid(Len(m_eventsWithContext))
    /\ m_unscheduledEvents' = m_unscheduledEvents + Len(m_eventsWithContext)
    /\ nEvents' = nEvents + Len(m_eventsWithContext)
    /\ m_eventsWithContext' = <<>>
    /\ UNCHANGED <<m_currentTs, m_currentUid>>

-----------------------------------------------------------------------------
(* Expiration, cancellation and removal *)

\* Mutant of IsExpired: the event that is executing is not yet expired.
IsExpiredAfterward(id) ==
    \/ id.ts < m_currentTs
    \/ id.ts = m_currentTs /\ id.uid < m_currentUid
    \/ id.rank \in cancelled

\* IsExpired; after the uids wrapped around, an id may have the uid 2 of the
\* destroy events, among which it is not found.
IsExpired(id) ==
    \/ id.uid = 2
    \/ id.ts < m_currentTs
    \/ id.ts = m_currentTs /\ id.uid <= m_currentUid
    \/ id.rank \in cancelled

IsDestroyExpired(n) ==
    \/ n \in destroyCancelled
    \/ \A i \in 1 .. Len(m_destroyEvents) : m_destroyEvents[i] # n

Cancel(id) ==
    /\ InProgram
    /\ ~ IsExpired(id)
    /\ cancelled' = cancelled \cup {id.rank}
    /\ UNCHANGED <<kernelVars, destroyVars, m_stop, m_eventsWithContext, ids, trace, phase>>

\* Mutant of Remove: the count of unscheduled events is not updated.
RemoveUncounted(id) ==
    /\ InProgram
    /\ ~ IsExpired(id)
    /\ m_events' = {e \in m_events : ~ (e.ts = id.ts /\ e.uid = id.uid)}
    /\ cancelled' = cancelled \cup {id.rank}
    /\ UNCHANGED <<m_uid, m_currentTs, m_currentUid, m_unscheduledEvents, nEvents, destroyVars,
                   m_stop, m_eventsWithContext, ids, trace, phase>>

\* The scheduler finds the event by its key.
Remove(id) ==
    /\ InProgram
    /\ ~ IsExpired(id)
    /\ m_events' = {e \in m_events : ~ (e.ts = id.ts /\ e.uid = id.uid)}
    /\ cancelled' = cancelled \cup {id.rank}
    /\ m_unscheduledEvents' = m_unscheduledEvents - 1
    /\ UNCHANGED <<m_uid, m_currentTs, m_currentUid, nEvents, destroyVars, m_stop,
                   m_eventsWithContext, ids, trace, phase>>

CancelDestroy(n) ==
    /\ InProgram
    /\ ~ IsDestroyExpired(n)
    /\ destroyCancelled' = destroyCancelled \cup {n}
    /\ UNCHANGED <<kernelVars, m_destroyEvents, nDestroy, destroyTrace, m_stop,
                   m_eventsWithContext, ids, cancelled, trace, phase>>

\* A destroy event is erased from the list, without being cancelled.
RemoveDestroy(n) ==
    /\ InProgram
    /\ \E i \in 1 .. Len(m_destroyEvents) :
           /\ m_destroyEvents[i] = n
           /\ m_destroyEvents' = SubSeq(m_destroyEvents, 1, i - 1)
                                    \o SubSeq(m_destroyEvents, i + 1, Len(m_destroyEvents))
    /\ UNCHANGED <<kernelVars, destroyCancelled, nDestroy, destroyTrace, m_stop,
                   m_eventsWithContext, ids, cancelled, trace, phase>>

Stop ==
    /\ InProgram
    /\ m_stop' = TRUE
    /\ UNCHANGED <<kernelVars, destroyVars, m_eventsWithContext, ids, cancelled, trace, phase>>

-----------------------------------------------------------------------------
(* Run and Destroy *)

Run ==
    /\ phase = "program"
    /\ phase' = "loop"
    /\ ProcessEventsWithContext
    /\ m_stop' = FALSE
    /\ UNCHANGED <<destroyVars, ids, cancelled, trace>>

Earlier(a, b) == a.ts < b.ts \/ (a.ts = b.ts /\ a.uid < b.uid)

\* Mutant of IsNext: the scheduler does not order events of the same time.
IsAnyAtTime(e) == e \in m_events /\ \A f \in m_events : e.ts <= f.ts

\* RemoveNext returns e.
IsNext(e) == e \in m_events /\ \A f \in m_events \ {e} : Earlier(e, f)

\* The next event is taken from the scheduler and executed, unless it was
\* cancelled.
ProcessOneEvent(e) ==
    /\ phase = "loop"
    /\ ~ m_stop
    /\ IsNext(e)
    /\ m_events' = m_events \ {e}
    /\ m_unscheduledEvents' = m_unscheduledEvents - 1
    /\ m_currentTs' = e.ts
    /\ m_currentUid' = e.uid
    /\ IF e.rank \in cancelled
       THEN phase' = "after" /\ UNCHANGED trace
       ELSE phase' = "event" /\ trace' = Append(trace, e)
    /\ UNCHANGED <<m_uid, nEvents, destroyVars, m_stop, m_eventsWithContext, ids, cancelled>>

\* The function of the event returns.
EventReturns ==
    /\ phase \in {"event", "after"}
    /\ phase' = "loop"
    /\ ProcessEventsWithContext
    /\ UNCHANGED <<destroyVars, m_stop, ids, cancelled, trace>>

RunReturns ==
    /\ phase = "loop"
    /\ m_events = {} \/ m_stop
    /\ phase' = "program"
    /\ UNCHANGED <<kernelVars, destroyVars, m_stop, m_eventsWithContext, ids, cancelled, trace>>

Destroy ==
    /\ phase = "program"
    /\ phase' = "destroying"
    /\ UNCHANGED <<kernelVars, destroyVars, m_stop, m_eventsWithContext, ids, cancelled, trace>>

DestroyOneEvent ==
    /\ phase = "destroying"
    /\ m_destroyEvents # <<>>
    /\ m_destroyEvents' = Tail(m_destroyEvents)
    /\ IF Head(m_destroyEvents) \in destroyCancelled
       THEN UNCHANGED <<phase, destroyTrace>>
       ELSE /\ phase' = "destroyEvent"
            /\ destroyTrace' = Append(destroyTrace, Head(m_destroyEvents))
    /\ UNCHANGED <<kernelVars, destroyCancelled, nDestroy, m_stop,
                   m_eventsWithContext, ids, cancelled, trace>>

DestroyEventReturns ==
    /\ phase = "destroyEvent"
    /\ phase' = "destroying"
    /\ UNCHANGED <<kernelVars, destroyVars, m_stop, m_eventsWithContext, ids, cancelled, trace>>

\* Destroy returns and the kernel is disposed of, with the events it still has.
DestroyReturns ==
    /\ phase = "destroying"
    /\ m_destroyEvents = <<>>
    /\ phase' = "destroyed"
    /\ UNCHANGED <<kernelVars, destroyVars, m_stop, m_eventsWithContext, ids, cancelled, trace>>

-----------------------------------------------------------------------------

Next ==
    \/ \E delay \in Delays : Schedule(delay) \/ ScheduleFromThread(delay)
    \/ ScheduleNow \/ ScheduleDestroy \/ Stop
    \/ \E id \in ids : Cancel(id) \/ Remove(id)
    \/ \E n \in 1 .. nDestroy : CancelDestroy(n) \/ RemoveDestroy(n)
    \/ Run \/ (\E e \in m_events : ProcessOneEvent(e)) \/ EventReturns \/ RunReturns
    \/ Destroy \/ DestroyOneEvent \/ DestroyEventReturns \/ DestroyReturns

Spec == Init /\ [][Next]_vars

-----------------------------------------------------------------------------
(* Properties *)

\* Every variable of the kernel has its type.
TypeOK ==
    /\ m_events \subseteq Event /\ ids \subseteq Event
    /\ m_uid \in 0 .. UidRange - 1 /\ m_currentUid \in 0 .. UidRange - 1
    /\ m_currentTs \in Nat
    /\ m_unscheduledEvents \in Int
    /\ m_stop \in BOOLEAN
    /\ m_eventsWithContext \in Seq(Delays)
    /\ m_destroyEvents \in Seq(Nat)
    /\ destroyCancelled \subseteq Nat
    /\ cancelled \subseteq Nat
    /\ nEvents \in Nat /\ nDestroy \in Nat
    /\ trace \in Seq(Event) /\ destroyTrace \in Seq(Nat)
    /\ phase \in Phases

\* The simulated time never goes back: no event in the scheduler is in the
\* past (NS_ASSERT of ProcessOneEvent), whichever thread scheduled it.
NoEventInThePast == \A e \in m_events : e.ts >= m_currentTs

\* EventId::IsExpired tells exactly whether the event is neither waiting in
\* the scheduler nor cancelled, at any point of the program and of any event.
ExpiredExactly ==
    \A id \in ids : IsExpired(id) <=> ~ (id \in m_events /\ id.rank \notin cancelled)

\* Events are executed in the order of their times and, at the same time, in
\* the order in which they were inserted (simulator.h, "FIFO order").
FifoOrder ==
    \A i, j \in 1 .. Len(trace) : i < j =>
        \/ trace[i].ts < trace[j].ts
        \/ trace[i].ts = trace[j].ts /\ trace[i].rank < trace[j].rank

\* An event is not executed after it was cancelled or removed, nor is it
\* marked cancelled once it was executed, its own execution included.
CancelledNeverRuns == \A i \in 1 .. Len(trace) : trace[i].rank \notin cancelled

\* The kernel counts the events in the scheduler exactly; in particular its
\* count is 0 when Run stops for lack of events (NS_ASSERT of Run).
CountExact == m_unscheduledEvents = Cardinality(m_events)

\* Destroy events run in the order in which they were scheduled, including
\* those scheduled by other destroy events.
DestroyFifo ==
    \A i, j \in 1 .. Len(destroyTrace) : i < j => destroyTrace[i] < destroyTrace[j]

\* What the kernel knows of its events is true: the types, the expiry of every
\* identifier and the count of the waiting events.
Consistent == TypeOK /\ ExpiredExactly /\ CountExact

\* Both kinds of events run in their order (Run and Destroy).
RunsInOrder == FifoOrder /\ DestroyFifo

=============================================================================
