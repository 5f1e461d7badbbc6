SPECIFICATION Spec
\* The jobs are bounded: after the last one nothing is left to do.
CHECK_DEADLOCK FALSE
CONSTANTS
    Jobs = {1, 2, 3, 4}
    MaxTime = 2
    Day = 1
    Week = 2
    FailedKeep = 1
    Contents = {a, b}
    None = None
    Worlds <- MCWorlds
SYMMETRY Symmetry
INVARIANTS
    NothingHalfDeleted
    SuccessMeans
    RetentionMeans
