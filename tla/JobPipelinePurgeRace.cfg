SPECIFICATION Spec
CONSTANTS
    a1 = a1
    w1 = w1
    w2 = w2
    t1 = t1
    g1 = g1
    c1 = c1
    p1 = p1
    p2 = p2
    None = None
    Assets <- OneAsset
    Workers <- TwoWorkers
    Jobs = {t1, c1, p1}
    AssetOf <- AssetsOfJobs
    KindOf <- KindsOfJobs
    MaxAttempts <- TwoAttempts
    AttemptBound = 2
    LeaseTicks = 1
    RetryTicks = 1
    MaxSkew = 1
SYMMETRY WorkerSymmetry
INVARIANTS
    PurgeIsExclusive
CHECK_DEADLOCK FALSE
