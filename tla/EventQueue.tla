------------------------------ MODULE EventQueue ------------------------------
(***************************************************************************)
(* The simulator as the models of the evaluation suite see it: the clock,  *)
(* the events that wait and the uid of the next one.  SimulatorImpl is the *)
(* model of the simulator itself.                                          *)
(***************************************************************************)
EXTENDS Integers

VARIABLES
    now,
    pending,      \* the scheduled events
    uid           \* of the next event to be scheduled

\* The order of events: by time, and by uid at one time.
IsEarliest(e) ==
    /\ e \in pending
    /\ \A d \in pending : d.at > e.at \/ (d.at = e.at /\ d.uid >= e.uid)

=============================================================================
