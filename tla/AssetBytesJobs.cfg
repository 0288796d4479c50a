SPECIFICATION BytesSpec
CONSTANTS
    a1 = a1
    w1 = w1
    w2 = w2
    t1 = t1
    g1 = g1
    c1 = c1
    p1 = p1
    k1 = k1
    e1 = e1
    x = x
    y = y
    None = None
    Assets <- OneAsset
    Workers = {w1, w2}
    Jobs = {t1, g1, c1, p1}
    AssetOf <- AssetsOfJobs
    KindOf <- KindsOfJobs
    MaxAttempts <- OneAttempt
    AttemptBound = 1
    LeaseTicks = 1
    RetryTicks = 1
    MaxSkew = 1
    Artifacts = {e1}
    ArtifactAsset <- AssetsOfArtifacts
    Clips <- OneClip
    Contents = {x}
    Fixed = x
SYMMETRY WorkerSymmetry
INVARIANTS
    ListedBytesExist
CHECK_DEADLOCK FALSE
