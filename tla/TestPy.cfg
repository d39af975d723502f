SPECIFICATION Spec
CONSTANTS
    Workers = {w1, w2}
    NJobs = 3
    MaxRaises = 1
INVARIANTS Accounted ExitStatusHonest InterruptBounded
PROPERTIES Ends
CHECK_DEADLOCK FALSE
