SPECIFICATION Spec
CONSTANTS
    None = None
    RowHash = RowHash
    Syncs = {s1, s2}
    Names = {n1, n2}
    Mailless = {n2}
    Columns = {dept}
    Values = {a}
    Extras = {x}
    Cleared = Cleared
    MaxEdits = 0
    MaxFaults = 0
SYMMETRY Symmetry
CHECK_DEADLOCK FALSE
INVARIANT
    RebuildRestores
