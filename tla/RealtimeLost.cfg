SPECIFICATION Spec
CONSTANTS
    Conns = {c1, c2}
    MaxFrames = 2
    MaxLeases = 2
    Life = 2
    Window = 1
    MaxFaults = 1
INVARIANT TranscriptCoversAudio
CHECK_DEADLOCK FALSE
