SPECIFICATION MCSpec
CONSTANTS
    u1 = u1
    Users = {u1, u2}
    Founder = u1
    Sessions = {s1, s2, s3}
    Keys = {k1}
    Pairings = {p1, p2}
    Requests = {r1, r2}
    Roles = {"owner", "viewer"}
    MaxRotations = 1
    MaxPasswords = 1
    None = None
    Scenarios = {"members", "refreshes", "devices"}
SYMMETRY AccessSymmetry
INVARIANTS
    TypeOK
    SomeOwner
    OnlyStraysSurvive
    PairingIsOneTime
PROPERTIES
    RefreshOnce
