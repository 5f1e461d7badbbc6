SPECIFICATION AllSpec
CONSTANTS
    Attempts = 2
    Worlds <- PcWorlds
    None = None
INVARIANTS
    NothingLost
    RecordsTruthful
    Restorable
    VersionsKept
    CopiesSound
CHECK_DEADLOCK FALSE
