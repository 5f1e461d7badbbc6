SPECIFICATION Spec
CONSTANTS
    Events <- mcEvents
    Items <- mcItems
    Jobs <- mcJobs
    Worlds <- mcWorlds
    Quiet = 1
    Cap = 1
    DeleteDelay = 2
    UpgradeHold = 2
    RetryDelay = 1
    MaxTargetItems = 1
    MaxEnqueueAttempts = 2
    LoadPage = 1
    LastArrival = 2
    MaxTime = 4
    None = None
INVARIANTS
    EventsKept
PROPERTIES
    DelaysRespected
CHECK_DEADLOCK FALSE
