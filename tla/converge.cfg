SPECIFICATION Spec
CONSTANTS
    NoRow = NoRow
    NoTxn = NoTxn
    Unwritten = Unwritten
    NoAnchor = NoAnchor
    Seed = Seed
    f1 = f1
    f2 = f2
    s1 = s1
    s2 = s2
    Ids = {f1, f2}
    Fresh = {f1, f2}
    Sessions = {s1, s2}
    Val <- MCVal
    Bodies = {{"create"}}
    MaxOps = 2
    MaxAttempts = 2
    MaxRetries = 1
    MaxFaults = 0
    ReadTier = FALSE
    LostAcks = FALSE
SYMMETRY SessionSwap
INVARIANTS
    Converge
