SPECIFICATION Spec
CONSTANTS
    None = None
    Calls = {i1, i2}
    Codes = {k1, k2}
    Devices = {d1, d2}
    Prints = {p1, p2}
    MaxSets = 2
    RedisMayFail = TRUE
    Works = {"codes", "devices"}
SYMMETRY Symmetry
INVARIANTS
    CodePassesOnce
    ReplacedIsRefused
    RevokedIsRefused
    NothingForgotten
