------------------------------- MODULE EvalApp -------------------------------
(***************************************************************************)
(* The traffic generator of the AQM evaluation suite: class EvalApp of     *)
(* aqm-eval-suite/model/eval-app.cc, an on-off source whose pending events *)
(* are the next packet (m_sendEvent) and the next change of state          *)
(* (m_startStopEvent).  The scenario starts it, pauses and restarts it     *)
(* (EvaluationTopology::Pause and Restart) and stops it, at any moment.    *)
(*                                                                         *)
(* Time is counted in ticks of the simulator (nanoseconds) and bits are    *)
(* whole, so that the conversions between the two truncate.  No code       *)
(* changes m_cbrRate; bytes sent are counted in packets.  The simulator    *)
(* runs pending events by time, and those of one time in the order they    *)
(* were scheduled.                                                         *)
(***************************************************************************)
EXTENDS EventQueue, Integers, FiniteSets

CONSTANTS PktBits,     \* m_pktSize * 8
          MaxPackets,  \* m_maxBytes / m_pktSize, 0 means no limit
          OnTime,      \* value of m_onTime, in ticks
          OffTime,     \* value of m_offTime, in ticks
          BitRate,     \* bits in a second at m_cbrRate
          Second,      \* ticks in a second
          Word,        \* range of the unsigned type of bits (2^32 in the code)
          Horizon,     \* bound: the clock stops there
          MaxPauses,   \* bound: calls of Pause
          RestartDone  \* the scenario may restart a flow that is done

ASSUME EvalAppAssumption ==
    /\ PktBits \in Nat \ {0} /\ OnTime \in Nat \ {0}
    /\ MaxPackets \in Nat /\ OffTime \in Nat
    /\ BitRate \in Nat \ {0} /\ Second \in Nat \ {0}
    /\ Horizon \in Nat /\ MaxPauses \in Nat
    /\ Word \in Nat /\ Word > PktBits
    /\ RestartDone \in BOOLEAN

VARIABLES
    m_sendEvent, m_startStopEvent,    \* uids, 0 is no event
    m_residualBits, m_lastStartTime, m_totBytes,
    socket,            \* "new", "connected" or "closed"
    m_flowStart, m_flowStop,          \* -1 is Time::Min ()
    nPauses,           \* calls of Pause
    paused,            \* the last call of the scenario was Pause
    stopped,           \* the scenario's stop time has passed
    on,                \* history: an on period is under way
    onTicks,           \* history: ticks spent in on periods
    interruptions,     \* history: packets that CancelEvents interrupted
    lastSent           \* history: when the last packet was sent

eventVars == <<pending, uid, m_sendEvent, m_startStopEvent>>
vars == <<now, eventVars, m_residualBits, m_lastStartTime, m_totBytes, socket,
          m_flowStart, m_flowStop, nPauses, paused, stopped, on, onTicks, interruptions,
          lastSent>>

Init ==
    /\ now = 0 /\ pending = {} /\ uid = 1
    /\ m_sendEvent = 0 /\ m_startStopEvent = 0
    /\ m_residualBits = 0 /\ m_lastStartTime = 0 /\ m_totBytes = 0
    /\ socket = "new" /\ m_flowStart = -1 /\ m_flowStop = -1
    /\ nPauses = 0 /\ paused = FALSE /\ stopped = FALSE
    /\ on = FALSE /\ onTicks = 0 /\ interruptions = 0 /\ lastSent = -1

Event == [at : Nat, uid : Nat \ {0}, what : {"Send", "Start", "Stop"}]

\* Every variable has its type; the residual bits never exceed a packet, so
\* the unsigned difference of ScheduleNextTx never wraps.
TypeOK ==
    /\ now \in 0 .. Horizon
    /\ pending \subseteq Event /\ IsFiniteSet(pending)
    /\ uid \in Nat \ {0} /\ m_sendEvent \in 0 .. uid /\ m_startStopEvent \in 0 .. uid
    /\ m_residualBits \in 0 .. PktBits /\ m_lastStartTime \in 0 .. now
    /\ m_totBytes \in Nat
    /\ socket \in {"new", "connected", "closed"}
    /\ m_flowStart \in -1 .. now /\ m_flowStop \in -1 .. now
    /\ nPauses \in 0 .. MaxPauses
    /\ paused \in BOOLEAN /\ stopped \in BOOLEAN /\ on \in BOOLEAN
    /\ onTicks \in Nat /\ interruptions \in Nat /\ lastSent \in -1 .. now

Unlimited == MaxPackets = 0

-----------------------------------------------------------------------------
(* Helpers: evs are the events pending when the helper is called, residual   *)
(* and last the values of m_residualBits and m_lastStartTime.                *)

IsRunning(evs, id) == \E e \in evs : e.uid = id

\* What the code makes of n / d: it truncates a value in fixed point
\* (int64x64_t::GetHigh) or in double precision (Seconds) that may be a little
\* less than the quotient, so that a whole quotient may come out one less.
Truncated(n, d) ==
    {k \in {n \div d - 1, n \div d} : k >= 0 /\ k * d <= n /\ n <= (k + 1) * d}

\* Mutant of Residual: the bits of an interrupted packet are lost.
ResidualLost(evs, residual, last) == {residual}

\* Mutant of Residual: bits are counted though no packet is pending.
ResidualAlways(evs, residual, last) ==
    {(residual + bits) % Word : bits \in Truncated((now - last) * BitRate, Second)}

\* CancelEvents keeps the whole bits generated since the last packet for the
\* next one (m_cbrRateFailSafe = m_cbrRate: the rate never changes) ...
Residual(evs, residual, last) ==
    IF IsRunning(evs, m_sendEvent)
    THEN {(residual + bits) % Word : bits \in Truncated((now - last) * BitRate, Second)}
    ELSE {residual}

KeepResidual(evs, residual, last) ==
    /\ m_residualBits' \in Residual(evs, residual, last)
    /\ interruptions' = interruptions + (IF IsRunning(evs, m_sendEvent) THEN 1 ELSE 0)

\* Mutant of Cancelled: the pending packet is not cancelled.
CancelledStartStop(evs) == {e \in evs : e.uid # m_startStopEvent}

\* ... and cancels the two events.
Cancelled(evs) == {e \in evs : e.uid \notin {m_sendEvent, m_startStopEvent}}

\* Mutant of MayScheduleNextTx: the limit is exceeded by a packet.
MayScheduleOneMore(sent) == Unlimited \/ sent <= MaxPackets

MayScheduleNextTx(sent) == Unlimited \/ sent < MaxPackets

\* The event of the next packet, for each delay the code may compute.
NextTx(residual) ==
    {[at |-> now + delay, uid |-> uid, what |-> "Send"] :
        delay \in Truncated(((PktBits - residual) % Word) * Second, BitRate)}

\* Mutant of StopApp: the last stop is the flow's.
StopAppLast(evs, residual, last) ==
    /\ KeepResidual(evs, residual, last)
    /\ socket' = "closed"
    /\ m_flowStop' = now
    /\ on' = FALSE

\* The body of StopApplication, but for the events it cancels.  Only the first
\* stop is the flow's.
StopApp(evs, residual, last) ==
    /\ KeepResidual(evs, residual, last)
    /\ socket' = "closed"
    /\ m_flowStop' = IF m_flowStop = -1 THEN now ELSE m_flowStop
    /\ on' = FALSE

ScheduleStartEvent(evs) ==
    /\ pending' = evs \cup {[at |-> now + OffTime, uid |-> uid, what |-> "Start"]}
    /\ m_startStopEvent' = uid
    /\ uid' = uid + 1
    /\ UNCHANGED m_sendEvent

-----------------------------------------------------------------------------
(* The application's own events *)

\* e is the next event the simulator executes.
IsNext(e) ==
    /\ IsEarliest(e)
    /\ e.at = now

\* StartSending: ScheduleNextTx, then ScheduleStopEvent whatever it did.
StartSending(e) ==
    /\ IsNext(e) /\ e.what = "Start"
    /\ m_lastStartTime' = now
    /\ LET evs  == pending \ {e}
           stop == [at |-> now + OnTime, uid |-> uid + 1, what |-> "Stop"]
       IN  \/ /\ MayScheduleNextTx(m_totBytes)
              /\ \E send \in NextTx(m_residualBits) : pending' = evs \cup {send, stop}
              /\ m_sendEvent' = uid
              /\ on' = TRUE
              /\ UNCHANGED <<m_residualBits, interruptions, socket, m_flowStop>>
           \/ /\ ~ MayScheduleNextTx(m_totBytes)
              /\ StopApp(evs, m_residualBits, now)
              /\ pending' = Cancelled(evs) \cup {stop}
              /\ UNCHANGED m_sendEvent
    /\ m_startStopEvent' = uid + 1
    /\ uid' = uid + 2
    /\ UNCHANGED <<now, m_totBytes, m_flowStart, nPauses, paused, stopped, onTicks,
                   lastSent>>

StopSending(e) ==
    /\ IsNext(e) /\ e.what = "Stop"
    /\ KeepResidual(pending \ {e}, m_residualBits, m_lastStartTime)
    /\ on' = FALSE
    /\ ScheduleStartEvent(Cancelled(pending \ {e}))
    /\ UNCHANGED <<now, m_lastStartTime, m_totBytes, socket, m_flowStart, m_flowStop,
                   nPauses, paused, stopped, onTicks, lastSent>>

\* SendPacket, and ScheduleNextTx: at the limit the application stops.  The
\* packet counts whatever the socket makes of it.
SendPacket(e) ==
    /\ IsNext(e) /\ e.what = "Send"
    /\ m_totBytes' = m_totBytes + 1
    /\ m_lastStartTime' = now
    /\ lastSent' = now
    /\ LET evs == pending \ {e}
       IN  \/ /\ MayScheduleNextTx(m_totBytes + 1)
              /\ \E send \in NextTx(0) : pending' = evs \cup {send}
              /\ m_sendEvent' = uid
              /\ uid' = uid + 1
              /\ m_residualBits' = 0
              /\ UNCHANGED <<interruptions, socket, m_flowStop, on>>
           \/ /\ ~ MayScheduleNextTx(m_totBytes + 1)
              /\ StopApp(evs, 0, now)
              /\ pending' = Cancelled(evs)
              /\ UNCHANGED <<uid, m_sendEvent>>
    /\ UNCHANGED <<now, m_startStopEvent, m_flowStart, nPauses, paused, stopped, onTicks>>

-----------------------------------------------------------------------------
(* Calls of the simulator and of the scenario *)

StartApplication ==
    /\ socket = "new"
    /\ socket' = "connected"
    /\ m_flowStart' = IF m_flowStart = -1 THEN now ELSE m_flowStart
    /\ KeepResidual(pending, m_residualBits, m_lastStartTime)
    /\ ScheduleStartEvent(Cancelled(pending))
    /\ UNCHANGED <<now, m_lastStartTime, m_totBytes, m_flowStop, nPauses, paused, stopped,
                   on, onTicks, lastSent>>

StopApplication ==
    /\ socket # "new" /\ ~ stopped
    /\ stopped' = TRUE
    /\ StopApp(pending, m_residualBits, m_lastStartTime)
    /\ pending' = Cancelled(pending)
    /\ UNCHANGED <<now, uid, m_sendEvent, m_startStopEvent, m_lastStartTime, m_totBytes,
                   m_flowStart, nPauses, paused, onTicks, lastSent>>

\* EvaluationTopology::Pause, of a flow that is not paused.
Pause ==
    /\ socket # "new" /\ ~ stopped /\ ~ paused
    /\ nPauses < MaxPauses /\ nPauses' = nPauses + 1
    /\ paused' = TRUE
    /\ KeepResidual(pending, m_residualBits, m_lastStartTime)
    /\ pending' = Cancelled(pending)
    /\ on' = FALSE
    /\ UNCHANGED <<now, uid, m_sendEvent, m_startStopEvent, m_lastStartTime, m_totBytes,
                   socket, m_flowStart, m_flowStop, stopped, onTicks, lastSent>>

\* EvaluationTopology::Restart, of a paused flow.
Restart ==
    /\ paused /\ ~ stopped
    /\ RestartDone \/ m_flowStop = -1
    /\ paused' = FALSE
    /\ ScheduleStartEvent(pending)
    /\ UNCHANGED <<now, m_residualBits, m_lastStartTime, m_totBytes, socket,
                   m_flowStart, m_flowStop, nPauses, stopped, on, onTicks, interruptions,
                   lastSent>>

\* Time, which counts from the start of the application, passes when no event
\* is due.
Tick ==
    /\ socket # "new" /\ now < Horizon
    /\ \A e \in pending : e.at > now
    /\ now' = now + 1
    /\ onTicks' = onTicks + (IF on THEN 1 ELSE 0)
    /\ UNCHANGED <<eventVars, m_residualBits, m_lastStartTime, m_totBytes, socket,
                   m_flowStart, m_flowStop, nPauses, paused, stopped, on, interruptions,
                   lastSent>>

Next ==
    \/ \E e \in pending : StartSending(e)
    \/ \E e \in pending : StopSending(e)
    \/ \E e \in pending : SendPacket(e)
    \/ StartApplication \/ StopApplication \/ Pause \/ Restart \/ Tick

Spec == Init /\ [][Next]_vars

-----------------------------------------------------------------------------
(* Properties *)

\* The application sends at its rate: the bits of the packets sent, the residual
\* bits and those of the packet that is pending are the bits of the time spent
\* in on periods, except that an interruption (CancelEvents, m_residualBits) may
\* lose one bit at most, and that a packet may be early by one tick at most
\* (ScheduleNextTx).  Both sides are multiplied by Second.
BitsAccounted ==
    LET kept    == Second * (PktBits * m_totBytes + m_residualBits)
        running == IF IsRunning(pending, m_sendEvent)
                   THEN BitRate * (now - m_lastStartTime) ELSE 0
    IN  /\ BitRate * onTicks <= kept + running + Second * interruptions
        /\ kept + running <= BitRate * onTicks + BitRate * m_totBytes

\* No event escapes CancelEvents: each pending event is one the application
\* holds an EventId of, and no two packets are pending.
NoLeakedEvent ==
    /\ \A e \in pending :
           e.uid = IF e.what = "Send" THEN m_sendEvent ELSE m_startStopEvent
    /\ Cardinality(pending) <= 2

\* A paused flow, and a flow whose stop time has passed, do nothing.
Quiet == paused \/ stopped => pending = {}

\* m_maxBytes limits the bytes sent.
LimitRespected == Unlimited \/ m_totBytes <= MaxPackets

\* The flow completion time ends with the packet that reaches the limit, though
\* the scenario pauses, restarts and stops the flow after that.
CompletionTime ==
    ~ Unlimited /\ m_totBytes >= MaxPackets => m_flowStop = lastSent

\* The types and the bits, the events of a paused flow, and how a flow ends: the
\* properties above, grouped by what they are about.
Sending  == TypeOK /\ BitsAccounted
Stopping == NoLeakedEvent /\ Quiet
Ending   == LimitRespected /\ CompletionTime

\* "All done, cancel any pending events" (ScheduleNextTx): an application that
\* has stopped itself has no pending event.  The code does not keep this (README).
AllDone == m_flowStop # -1 => pending = {}

=============================================================================
