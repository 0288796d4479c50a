SPECIFICATION FairSpec
CONSTANTS
    Conns = {c1, c2}
    MaxFrames = 2
    MaxLeases = 3
    Life = 2
    Window = 1
    MaxFaults = 1
INVARIANTS
    TypeOK
    ServingHoldsStream
    AckedIsKept
    ProviderInStep
    StreamingIsServed
PROPERTIES
    EndedIsFinal
    FinalizingEnds
CHECK_DEADLOCK FALSE
