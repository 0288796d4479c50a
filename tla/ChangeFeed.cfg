CONSTANTS
    a1 = a1
    a2 = a2
    b1 = b1
    w1 = w1
    w2 = w2
    Assets = {a1, a2, b1}
    Mine = {a1, a2}
    Writers = {w1, w2}
    Backfilled <- OneOld
    Limit = 2
    MaxSequence = 4
    None = None
SPECIFICATION FairSpec
INVARIANTS
    TypeOK
    FeedMatchesRows
    OnlyLateChangesMissed
PROPERTIES
    CopyNeverRegresses
    PollingCatchesUp
