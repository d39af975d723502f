SPECIFICATION Spec
CONSTANTS
  UidRange = 8
  Delays = {0, 1}
  MaxScheduled = 4
INVARIANTS Consistent NoEventInThePast RunsInOrder CancelledNeverRuns
CHECK_DEADLOCK FALSE
