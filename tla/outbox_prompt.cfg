SPECIFICATION MCSpec
CONSTANTS
    NoEntry = NoEntry
    NoCall = NoCall
    NoItem = NoItem
    k1 = k1
    k2 = k2
    w1 = w1
    w2 = w2
    c1 = c1
    c2 = c2
    Keys = {k1, k2}
    Workers = {w1, w2}
    Slots = {c1, c2}
    MaxAttempts = 2
    Batch = 2
    Lease = 2
    BackoffCap = 2
    Ttl = 7
    InProcess = FALSE
    Prompt = TRUE
    MaxPass = 1
    MaxRows = 2
    MaxFaults = 1
SYMMETRY Symmetry
INVARIANTS
    TypeOK
    RunsOnce
    TaskHeld
PROPERTIES
    DeliveredStays
CHECK_DEADLOCK FALSE
