SPECIFICATION FairSpec
CONSTANTS
    Conns = {c1}
    MaxFrames = 1
    MaxLeases = 2
    Life = 2
    Window = 1
    MaxFaults = 0
PROPERTY StreamIsReleased
CHECK_DEADLOCK FALSE
