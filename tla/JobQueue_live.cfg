CONSTANTS
    ka = ka
    kb = kb
    upload = upload
    Jobs <- mcJobs2
    Keys <- mcKeys
    KeysOf <- mcKeysOf2
    Pools <- mcPools
    Limit <- mcLimit
    NeedsOf <- mcNeedsOf2
    RefreshJobs = {}
    Unrunnable <- mcRunnable
    WorkerCounts = {2}
    RefreshWorkers = 1
    MaxAttempts = 2
    QueuedScan = 2
    Holders = {}
    NoHolder = NoHolder
    NoJob = NoJob
    MaxRestarts = 1
    MaxFaults = 0
    MaxDeferrals = 1
SPECIFICATION StopSpec
PROPERTIES
    EventuallyFinal
    StopReturns
    NoSecondRunner
CHECK_DEADLOCK FALSE
