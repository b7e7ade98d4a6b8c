SPECIFICATION Spec
CONSTANTS
    NoRow = NoRow
    NoTxn = NoTxn
    Unwritten = Unwritten
    NoAnchor = NoAnchor
    Seed = Seed
    x = x
    y = y
    s1 = s1
    s2 = s2
    Ids = {x, y}
    Fresh = {}
    Sessions = {s1, s2}
    Val <- MCVal
    Bodies = {{"walkend"}}
    MaxOps = 4
    MaxAttempts = 2
    MaxRetries = 1
    MaxFaults = 0
    ReadTier = TRUE
    LostAcks = FALSE
SYMMETRY Symmetry
PROPERTIES
    SnapshotReadsNeverWrite
