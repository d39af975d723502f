SPECIFICATION Spec
CONSTANTS
    TimerIds = {1, 2, 3}
    Periods = {1, 2}
    MaxTime = 2
    MaxMessages = 1
    MaxEvents = 4
    MaxStops = 1
INVARIANTS PauseMessagesOnce PlayKeepsTimer
PROPERTIES PlayAdvances QuitEnds
CHECK_DEADLOCK FALSE
