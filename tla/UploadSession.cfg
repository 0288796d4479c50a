SPECIFICATION Spec
CONSTANTS
    a1 = a1
    u1 = u1
    u2 = u2
    q1 = q1
    q2 = q2
    wav = wav
    junk = junk
    None = None
    Assets = {a1}
    Uploads = {u1, u2}
    Processes = {q1, q2}
    Parts = {1, 2}
    Files = {wav, junk}
    AssetOf <- AssetsOfUploads
    Declared <- InvalidAndValid
    ValidAudio = {wav}
SYMMETRY ProcessSymmetry
INVARIANTS
    TypeOK
    OneAssembler
    RecordedPartsStored
    CompletedIsStored
CHECK_DEADLOCK FALSE
