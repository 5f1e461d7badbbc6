CONSTANTS
    ka = ka
    kb = kb
    upload = upload
    Jobs <- mcJobs2
    Keys <- mcKeys
    KeysOf <- mcKeysOf2
    Pools <- mcPools
    Limit <- mcLimit
    NeedsOf <- mcNeedsOf2
    RefreshJobs = {2}
    Unrunnable <- mcUnrunnable
    WorkerCounts = {1, 2}
    RefreshWorkers = 1
    MaxAttempts = 2
    QueuedScan = 2
    Holders = {h1}
    NoHolder = NoHolder
    NoJob = NoJob
    MaxRestarts = 2
    MaxFaults = 1
    MaxDeferrals = 0
SPECIFICATION Spec
INVARIANTS
    KeyExclusion
    RunnerHasRow
    RowHasRunner
    HoldExcludes
    KeysAccounted
    SlotsAccounted
PROPERTIES
    Lives
CHECK_DEADLOCK FALSE
