SPECIFICATION FairSpec
CONSTANTS
    None = None
    Requests = {r1, r2}
    Links = {l1}
    Emails = {e1}
    Actions = {"login", "register", "reset_password"}
    Kinds = {"generate", "verify", "resend", "revoke", "cleanup"}
    Expiry = 1
    MaxUsesPerDay = 1
    RequireExistingUser = FALSE
    AutoCreateUser = TRUE
    RedisMayFail = TRUE
PROPERTIES
    EveryCallAnswers
