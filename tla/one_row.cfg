SPECIFICATION Spec
CONSTANTS
    NoRow = NoRow
    NoTxn = NoTxn
    Unwritten = Unwritten
    NoAnchor = NoAnchor
    Seed = Seed
    x = x
    f1 = f1
    s1 = s1
    s2 = s2
    Ids = {x, f1}
    Fresh = {f1}
    Sessions = {s1, s2}
    Val <- MCVal
    Bodies = {{"join", "swallow", "mutate", "fail"}, {"delete", "join", "walkend", "swallow"}, {"create", "swallow"}}
    MaxOps = 2
    MaxAttempts = 3
    MaxRetries = 1
    MaxFaults = 1
    ReadTier = FALSE
    LostAcks = TRUE
SYMMETRY Symmetry
INVARIANTS
    AnsweredWritesLanded
    SettledClean
PROPERTIES
    NoLostUpdate
    TurnHolderWins
