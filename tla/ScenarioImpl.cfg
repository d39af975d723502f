SPECIFICATION ScenarioSpec
CONSTANTS
  a1 = a1
  a2 = a2
  a3 = a3
  e1 = e1
  Builtin <- MCBuiltin
  Extra = {e1, a3}
  Additions <- MCAdditions
  MaxAqms = 5
  MaxRuns = 7
  nflow = 2
  StopTimes = {3, 5}
  Changes = {1, 2, 4, 5}
  SimTime = 6
INVARIANTS EachAqmOnce SameCapacity Recorded
CHECK_DEADLOCK FALSE
