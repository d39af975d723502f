SPECIFICATION Spec
CONSTANTS
    PktBits = 4
    MaxPackets = 3
    OnTime = 8
    OffTime = 1
    BitRate = 2
    Second = 3
    Word = 64
    Horizon = 24
    MaxPauses = 3
    RestartDone = TRUE
INVARIANTS Sending Stopping Ending
\* The simulation is stopped at Horizon.
CHECK_DEADLOCK FALSE
