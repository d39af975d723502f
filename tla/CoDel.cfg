SPECIFICATION Spec
CONSTANTS
    Half = 6
    Interval = 3
    Target = 1
    MinBytes = 1
    MaxSize = 3
    MaxTime = 20
INVARIANTS BackloggedDelivers DropsOnlyPersistent StandingQueueIsControlled
