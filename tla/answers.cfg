SPECIFICATION FairSpec
CONSTANTS
    NoRow = NoRow
    NoTxn = NoTxn
    Unwritten = Unwritten
    NoAnchor = NoAnchor
    Seed = Seed
    x = x
    s1 = s1
    s2 = s2
    Ids = {x}
    Fresh = {}
    Sessions = {s1, s2}
    Val <- MCVal
    Bodies = {{"respond"}, {"join", "walkend", "swallow"}}
    MaxOps = 2
    MaxAttempts = 2
    MaxRetries = 1
    MaxFaults = 0
    ReadTier = TRUE
    LostAcks = FALSE
PROPERTIES
    Answered
