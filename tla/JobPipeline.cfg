SPECIFICATION FairSpec
CONSTANTS
    a1 = a1
    w1 = w1
    w2 = w2
    t1 = t1
    g1 = g1
    c1 = c1
    p1 = p1
    p2 = p2
    None = None
    Assets <- OneAsset
    Workers <- TwoWorkers
    Jobs = {t1, g1, c1, p1}
    AssetOf <- AssetsOfJobs
    KindOf <- KindsOfJobs
    MaxAttempts <- OperatorRetries
    AttemptBound = 2
    LeaseTicks = 1
    RetryTicks = 1
    MaxSkew = 0
INVARIANTS
    TypeOK
    AttemptLedger
    OwnerHoldsCurrentAttempt
    ReadyIsIdle
    FailedHasCause
    PurgeExcludesProducers
    PurgeLeavesOnlyItself
PROPERTIES
    OnlyHolderFinishes
    ImplementsLifecycle
    EveryJobEnds
CHECK_DEADLOCK FALSE
