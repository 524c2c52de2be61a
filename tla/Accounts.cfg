SPECIFICATION Spec
CONSTANTS
    None = None
    Users = {u1}
    Cookies = {k1}
    Calls = {c1, c2}
    AdminLife = 7
    Margin = 6
    CacheTTL = 1
    SessionTTL = 1
    Lag = 1
    Clients <- MCClients
SYMMETRY Symmetry
INVARIANTS
    AdminTokenLive
    RowsHaveCause
PROPERTIES
    InfoIsFresh
    GhostsFade
