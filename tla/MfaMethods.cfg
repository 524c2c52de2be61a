SPECIFICATION Spec
CONSTANTS
    None = None
    Requests = {r1, r2}
    Methods = {m1, m2}
    Challenges = {c1}
    MethodTypes = {"totp"}
    Kinds = {"setup", "confirm", "remove", "primary"}
    MaxAttempts = 1
    RateLimit = 1
    RedisMayFail = TRUE
SYMMETRY Symmetry
INVARIANTS
    OnePrimary
    RemovedStaysRemoved
PROPERTIES
    KeepsAMethod
