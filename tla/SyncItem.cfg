SPECIFICATION Spec
CONSTANTS
    Jobs <- mcJobs
    Names <- mcNames
    MaxVersion = 3
    Worlds <- mcWorlds
    None = None
INVARIANTS
    NeverLost
    DatabaseTruthful
    SettledAfterCrashes
CHECK_DEADLOCK FALSE
