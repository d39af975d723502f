----------------------------- MODULE ScenarioImpl -----------------------------
(***************************************************************************)
(* The driver of the AQM evaluation suite: class ScenarioImpl of           *)
(* aqm-eval-suite/helper/aqm-eval-suite-helper.cc with the scenario of     *)
(* examples/vary-available-capacity-uno.cc, which also keeps state of its  *)
(* own between evaluations.  RunSimulation evaluates the AQMs of m_AQM one *)
(* after the other, each in a simulation of its own.                       *)
(*                                                                         *)
(* Of the simulator the model keeps the order of events (EventQueue).      *)
(* Applications schedule their stop when the simulation initializes them,  *)
(* at time 0.                                                              *)
(***************************************************************************)
EXTENDS EventQueue, Integers, FiniteSets, Sequences, SequencesExt

CONSTANTS Builtin,     \* the AQMs of the constructor, in order
          Extra,       \* AQMs that main adds with addAQM before RunSimulation
          Additions,   \* lists of AQMs that a CreateScenario adds when it is called
          MaxAqms,     \* bound: length of m_AQM when RunSimulation is called
          MaxRuns,     \* bound: evaluations
          nflow,       \* number of flows of the scenario
          StopTimes,   \* times at which a flow may be stopped
          Changes,     \* times at which ChangeDataRate is scheduled
          SimTime      \* argument of RunSimulation

ASSUME ScenarioAssumption ==
    /\ Builtin \in Seq(ToSet(Builtin)) /\ Len(Builtin) > 0
    /\ \A list \in Additions : list \in Seq(ToSet(list))
    /\ MaxAqms \in Nat /\ MaxRuns \in Nat /\ nflow \in Nat
    /\ StopTimes \subseteq Nat /\ SimTime \in Nat
    /\ Changes \subseteq Nat /\ IsFiniteSet(Changes)

VARIABLES
    m_AQM,        \* m_nAQM is its length
    inside,       \* the program: the AQMs that its CreateScenario adds
    listed,       \* history: m_AQM when RunSimulation was called
    i,            \* index of the evaluation; m_AQM is indexed from 1 here
    phase,        \* "setup", "loop", "running" or "done"
    stops,        \* stops[f]: stop time of flow f in the scenario
    flowStop,     \* m_flowStop of the flows, -1 before they stop
    m_state,      \* member of the scenario object
    linkRate,     \* data rate of the bottleneck devices
    rates,        \* history: changes of linkRate in this evaluation
    results       \* history: one record for each evaluation

Flows == 1 .. nflow

aqmVars == <<m_AQM, inside, listed>>
scenarioVars == <<aqmVars, i, phase, now, uid, pending, stops, flowStop, m_state, linkRate,
                  rates, results>>

ScenarioInit ==
    /\ m_AQM = Builtin /\ inside \in Additions /\ listed = <<>>
    /\ i = 1 /\ phase = "setup"
    /\ now = 0 /\ uid = 0 /\ pending = {}
    /\ stops \in [Flows -> StopTimes]
    /\ flowStop = [f \in Flows |-> -1]
    /\ m_state = TRUE /\ linkRate = 100 /\ rates = <<>>
    /\ results = <<>>

Aqms == ToSet(Builtin) \cup Extra \cup UNION {ToSet(list) : list \in Additions}

ScenarioEvent ==
    [at : Nat, uid : Nat, what : {"Initialize", "Change", "DestroyTrace", "Stop"}]
        \cup [at : Nat, uid : Nat, what : {"FlowStop"}, flow : Flows]

\* Every variable has its type; the simulation never runs past its end, and
\* between two simulations nothing is left of the first.
ScenarioTypeOK ==
    /\ m_AQM \in Seq(Aqms) /\ inside \in Additions /\ listed \in Seq(Aqms)
    /\ i \in 1 .. Len(m_AQM) + 1
    /\ phase \in {"setup", "loop", "running", "done"}
    /\ now \in 0 .. SimTime /\ uid \in Nat /\ pending \subseteq ScenarioEvent
    /\ flowStop \in [Flows -> -1 .. SimTime]
    /\ m_state \in BOOLEAN /\ linkRate \in {10, 100}
    /\ rates \in Seq([at : Nat, rate : {10, 100}])
    /\ phase # "running" => now = 0 /\ pending = {}

-----------------------------------------------------------------------------

addAQM(a) ==
    /\ phase = "setup" /\ Len(m_AQM) < MaxAqms
    /\ m_AQM' = Append(m_AQM, a)
    /\ UNCHANGED <<inside, listed, i, phase, now, uid, pending, stops, flowStop, m_state,
                   linkRate, rates, results>>

RunSimulation ==
    /\ phase = "setup"
    /\ phase' = "loop" /\ listed' = m_AQM
    /\ UNCHANGED <<m_AQM, inside, i, now, uid, pending, stops, flowStop, m_state,
                   linkRate, rates, results>>

At(t, u, w) == [at |-> t, uid |-> u, what |-> w]

\* CreateScenario schedules the changes of the rate in the order of their times.
ChangeUid(t) == Cardinality({c \in Changes : c <= t})
ChangeEvents == {At(t, ChangeUid(t), "Change") : t \in Changes}

\* Mutant of Scheduled: the simulation is stopped before the traces are closed.
ScheduledStopFirst ==
    LET n == Cardinality(Changes)
    IN  {At(0, 0, "Initialize"), At(SimTime, n + 2, "DestroyTrace"), At(SimTime, n + 1, "Stop")}
            \cup ChangeEvents

Scheduled ==
    LET n == Cardinality(Changes)
    IN  {At(0, 0, "Initialize"), At(SimTime, n + 1, "DestroyTrace"), At(SimTime, n + 2, "Stop")}
            \cup ChangeEvents

\* An iteration of the loop up to Simulator::Run: CreateScenario adds what it
\* adds and builds new devices and flows; m_state is what the previous evaluation
\* left.
BeginEvaluation ==
    /\ phase = "loop" /\ i <= Len(m_AQM) /\ i <= MaxRuns
    /\ phase' = "running"
    /\ m_AQM' = m_AQM \o inside
    /\ pending' = Scheduled
    /\ uid' = Cardinality(Changes) + 3
    /\ flowStop' = [f \in Flows |-> -1]
    /\ linkRate' = 100 /\ rates' = <<>>
    /\ UNCHANGED <<inside, listed, i, now, stops, m_state, results>>

RunReturns ==
    /\ phase = "loop" /\ i > Len(m_AQM)
    /\ phase' = "done"
    /\ UNCHANGED <<aqmVars, i, now, uid, pending, stops, flowStop, m_state, linkRate,
                   rates, results>>

-----------------------------------------------------------------------------
(* Events of the simulation *)

\* e is the next event; the clock moves to it.
Executes(e) == phase = "running" /\ IsEarliest(e) /\ now' = e.at

\* The applications schedule their stop events (Application::DoInitialize).
Initialize(e) ==
    /\ Executes(e) /\ e.what = "Initialize"
    /\ pending' = (pending \ {e}) \cup
           {[at |-> stops[f], uid |-> uid + f - 1, what |-> "FlowStop", flow |-> f] : f \in Flows}
    /\ uid' = uid + nflow
    /\ UNCHANGED <<aqmVars, i, phase, stops, flowStop, m_state, linkRate, rates, results>>

\* Mutant of ChangeDataRate: m_state is not set back.
ChangeOnce(e) ==
    /\ Executes(e) /\ e.what = "Change"
    /\ linkRate' = IF m_state THEN 10 ELSE 100
    /\ m_state' = FALSE
    /\ rates' = Append(rates, [at |-> e.at, rate |-> linkRate'])
    /\ pending' = pending \ {e}
    /\ UNCHANGED <<aqmVars, i, phase, uid, stops, flowStop, results>>

ChangeDataRate(e) ==
    /\ Executes(e) /\ e.what = "Change"
    /\ linkRate' = IF m_state THEN 10 ELSE 100
    /\ m_state' = ~ m_state
    /\ rates' = Append(rates, [at |-> e.at, rate |-> linkRate'])
    /\ pending' = pending \ {e}
    /\ UNCHANGED <<aqmVars, i, phase, uid, stops, flowStop, results>>

FlowStops(e) ==
    /\ Executes(e) /\ e.what = "FlowStop"
    /\ flowStop' = [flowStop EXCEPT ![e.flow] = e.at]
    /\ pending' = pending \ {e}
    /\ UNCHANGED <<aqmVars, i, phase, uid, stops, m_state, linkRate, rates, results>>

\* DestroyConnection writes the flow completion times to the metadata file.
DestroyTrace(e) ==
    /\ Executes(e) /\ e.what = "DestroyTrace"
    /\ results' = Append(results,
                          [aqm |-> m_AQM[i], flowStop |-> flowStop, rates |-> rates])
    /\ pending' = pending \ {e}
    /\ UNCHANGED <<aqmVars, i, phase, uid, stops, flowStop, m_state, linkRate, rates>>

\* Mutant of Stop: the same AQM is evaluated again.
StopStays(e) ==
    /\ phase = "running" /\ IsEarliest(e) /\ e.what = "Stop"
    /\ now' = 0 /\ pending' = {} /\ uid' = 0
    /\ phase' = "loop"
    /\ UNCHANGED <<aqmVars, i, stops, flowStop, m_state, linkRate, rates, results>>

\* Mutant of Stop: the simulator is not destroyed.
StopKeepsClock(e) ==
    /\ phase = "running" /\ IsEarliest(e) /\ e.what = "Stop"
    /\ now' = e.at /\ pending' = {} /\ uid' = 0
    /\ i' = i + 1
    /\ phase' = "loop"
    /\ UNCHANGED <<aqmVars, stops, flowStop, m_state, linkRate, rates, results>>

\* Simulator::Stop: Run returns, Simulator::Destroy discards what is pending,
\* and the loop goes on with the next AQM in a new simulator.
Stop(e) ==
    /\ phase = "running" /\ IsEarliest(e) /\ e.what = "Stop"
    /\ now' = 0 /\ pending' = {} /\ uid' = 0
    /\ i' = i + 1
    /\ phase' = "loop"
    /\ UNCHANGED <<aqmVars, stops, flowStop, m_state, linkRate, rates, results>>

-----------------------------------------------------------------------------

ScenarioNext ==
    \/ \E a \in Extra : addAQM(a)
    \/ RunSimulation \/ BeginEvaluation \/ RunReturns
    \/ \E e \in pending : Initialize(e)
    \/ \E e \in pending : ChangeDataRate(e)
    \/ \E e \in pending : FlowStops(e)
    \/ \E e \in pending : DestroyTrace(e)
    \/ \E e \in pending : Stop(e)

ScenarioSpec == ScenarioInit /\ [][ScenarioNext]_scenarioVars

-----------------------------------------------------------------------------
(* Properties *)

\* The AQMs are evaluated in the order of m_AQM, and RunSimulation returns only
\* when it has evaluated each entry of the list it was called with, once.  Where
\* CreateScenario adds an AQM it never returns: the loop reads m_nAQM again.
EachAqmOnce ==
    /\ \A j \in 1 .. Len(results) : results[j].aqm = m_AQM[j]
    /\ phase = "done" => /\ inside = <<>>
                         /\ m_AQM = listed /\ Len(results) = Len(listed)

\* The AQMs are compared under the same conditions: the link changes its rate
\* at the same times to the same values in every evaluation, though m_state
\* survives from one evaluation to the next.
SameCapacity == \A j, k \in 1 .. Len(results) : results[j].rates = results[k].rates

\* The metadata of an AQM hold a completion time for every flow: the traces are
\* closed after the flows have stopped, and before the simulation is.
CompletionTimesRecorded ==
    /\ Len(results) >= i - 1
    /\ \A j \in 1 .. Len(results) : \A f \in Flows : results[j].flowStop[f] = stops[f]

\* The same with the types of the variables.
Recorded == ScenarioTypeOK /\ CompletionTimesRecorded

=============================================================================
