CONSTANTS
    ka = ka
    kb = kb
    upload = upload
    Jobs <- mcJobs2
    Keys <- mcKeys
    KeysOf <- mcKeysOf2
    Pools <- mcPools
    Limit <- mcLimit
    NeedsOf <- mcNeedsOf2
    RefreshJobs = {}
    Unrunnable <- mcRunnable
    WorkerCounts = {2}
    RefreshWorkers = 1
    MaxAttempts = 2
    QueuedScan = 2
    Holders = {}
    NoHolder = NoHolder
    NoJob = NoJob
    MaxRestarts = 0
    MaxFaults = 0
    MaxDeferrals = 1
SPECIFICATION Spec
PROPERTIES
    CancelSticks
CHECK_DEADLOCK FALSE
