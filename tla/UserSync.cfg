SPECIFICATION Spec
CONSTANTS
    None = None
    RowHash = RowHash
    Syncs = {s1, s2}
    Names = {n1}
    Mailless = {}
    Columns = {dept}
    Values = {a, b}
    Extras = {}
    Cleared = Cleared
    MaxEdits = 2
    MaxFaults = 1
SYMMETRY Symmetry
CHECK_DEADLOCK FALSE
INVARIANTS
    TypeOK
    OneAtATime
    FlagTells
    NoOrphans
    HashTellsRow
    SyncCatchesUp
