SPECIFICATION Spec
CONSTANTS
    a1 = a1
    u1 = u1
    u2 = u2
    q1 = q1
    q2 = q2
    wav = wav
    junk = junk
    None = None
    Assets = {a1}
    Uploads = {u1}
    Processes = {q1, q2}
    Parts = {1}
    Files = {wav, junk}
    AssetOf <- AssetsOfUploads
    Declared <- BothValid
    ValidAudio = {wav}
SYMMETRY ProcessSymmetry
INVARIANTS
    TrashIsReversible
CHECK_DEADLOCK FALSE
