SPECIFICATION Spec
CONSTANTS
    None = None
    Users = {u1, u2}
    Accounts = {a1, a2}
    Flows = {f1, f2}
    Attempts = {i1, i2}
    Enabled = {"google", "github"}
    RetryAttempts = 2
    MaxFaults = 1
    Linked = {"google"}
    Works = {"flows", "links"}
SYMMETRY Symmetry
INVARIANTS
    StateSpent
    OneLoginPerCode
    LinksAgree
    TokensHaveFlow
