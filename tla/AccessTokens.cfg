SPECIFICATION Spec
CONSTANTS
    None = None
    Service = service
    Users = {u1, service}
    Tokens = {t1, t2}
    Calls = {c1, c2}
    Life = 1
    CacheTTL = 1
    DecisionTTL = 1
    Lag = 1
    MaxTime = 4
    MaxChanges = 1
    Questions = {"validity", "permission"}
SYMMETRY Symmetry
PROPERTIES
    ValidityIsFresh
    PresenceIsFresh
    PermissionIsFresh
