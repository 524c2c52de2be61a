SPECIFICATION Spec
CONSTANTS
    None = None
    Requests = {r1, r2}
    Methods = {m1}
    Challenges = {c1, c2}
    MethodTypes = {"sms"}
    Kinds = {"setup", "confirm", "challenge", "verify"}
    MaxAttempts = 1
    RateLimit = 1
    RedisMayFail = TRUE
SYMMETRY Symmetry
CONSTRAINT OneSetUp
INVARIANTS
    GuessesBounded
    AcceptedOnce
    RateHolds
