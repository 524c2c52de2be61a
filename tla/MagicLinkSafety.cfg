SPECIFICATION Spec
CONSTANTS
    None = None
    Requests = {r1, r2, r3}
    Links = {l1}
    Emails = {e1}
    Actions = {"login"}
    Kinds = {"generate", "verify", "resend", "revoke", "cleanup"}
    Expiry = 1
    MaxUsesPerDay = 1
    RequireExistingUser = FALSE
    AutoCreateUser = TRUE
    RedisMayFail = TRUE
SYMMETRY Symmetry
INVARIANTS
    TypeOK
    SingleUse
    RevocationHolds
    CleanupSparesLive
PROPERTIES
    ClosedStaysClosed
