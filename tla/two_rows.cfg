SPECIFICATION Spec
CONSTANTS
    NoRow = NoRow
    NoTxn = NoTxn
    Unwritten = Unwritten
    NoAnchor = NoAnchor
    Seed = Seed
    x = x
    y = y
    s1 = s1
    s2 = s2
    Ids = {x, y}
    Fresh = {}
    Sessions = {s1, s2}
    Val <- MCVal
    Bodies = {{"swallow", "mutate"}, {"respond"}, {"join"}}
    MaxOps = 3
    MaxAttempts = 2
    MaxRetries = 1
    MaxFaults = 1
    ReadTier = TRUE
    LostAcks = FALSE
SYMMETRY Symmetry
INVARIANTS
    TypeOK
    NoOrphanWrites
    OneRunLands
PROPERTIES
    JoinedOrNothing
    WritesAreSerializable
