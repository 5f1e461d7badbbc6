SPECIFICATION AllSpec
CONSTANTS
    Names = {1, 2, 3}
    Folder <- SrFolders
    Target = "A"
    Waits = 1
    CacheAge = 1
    Worlds <- SrWorlds
    None = None
    d1 = d1
    d2 = d2
    e1 = e1
    e2 = e2
    fx = fx
    fy = fy
    dirF = dirF
    dirG = dirG
    dirH = dirH
    dirf = dirf
    t1 = t1
    t2 = t2
INVARIANTS
    LocksAndChecks
    VerifyMarks
    SecretsKept
    ProblemsTold
    TiersHold
    FlaggedStaysCovered
    CatalogTrue
    OneFreshBackup
    VersionsAtEngines
    
    SyncPromises
    SchedulesFire
    TokensBound
CHECK_DEADLOCK FALSE
