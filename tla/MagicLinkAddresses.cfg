SPECIFICATION Spec
CONSTANTS
    None = None
    Requests = {r1, r2}
    Links = {l1, l2}
    Emails = {e1}
    Actions = {"login"}
    Kinds = {"generate", "resend"}
    Expiry = 1
    MaxUsesPerDay = 2
    RequireExistingUser = TRUE
    AutoCreateUser = TRUE
    RedisMayFail = TRUE
SYMMETRY Symmetry
INVARIANTS
    OneUsableLink
    CounterNeverOvercharges
