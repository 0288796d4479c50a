CONSTANTS
    e1 = e1
    t1 = t1
    w1 = w1
    w2 = w2
    Events = {e1}
    Tests = {}
    Workers = {w1, w2}
    MaxAttempts = 1
    MaxVersion = 1
    LeaseTicks = 2
    MaxSkew = 1
    None = None
SPECIFICATION FairSpec
PROPERTY PurgeCompletes
CHECK_DEADLOCK FALSE
