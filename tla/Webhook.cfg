CONSTANTS
    e1 = e1
    t1 = t1
    w1 = w1
    w2 = w2
    Events = {e1}
    Tests = {t1}
    Workers = {w1, w2}
    MaxAttempts = 2
    MaxVersion = 2
    LeaseTicks = 2
    MaxSkew = 1
    None = None
SPECIFICATION FairSpec
INVARIANTS
    TypeOK
PROPERTIES
    PostsAreCounted
    OnlyHolderSettles
    EveryDeliverySettles
CHECK_DEADLOCK FALSE
