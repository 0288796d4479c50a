SPECIFICATION Spec
CONSTANTS
    Conns = {c1, c2}
    MaxFrames = 1
    MaxLeases = 2
    Life = 2
    Window = 1
    MaxFaults = 0
INVARIANT FailedOnlyAfterWindow
CHECK_DEADLOCK FALSE
