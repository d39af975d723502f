---------------------------- MODULE MCScenarioImpl ----------------------------
(* The driver with three AQMs in the constructor, for TLC: main adds a new AQM or
   one that is listed, CreateScenario none or one. *)
EXTENDS ScenarioImpl

CONSTANTS a1, a2, a3, e1

MCBuiltin == <<a1, a2, a3>>
MCAdditions == {<<>>, <<e1>>}

=============================================================================
