SPECIFICATION MCFairSpec
CONSTANTS
    NoEntry = NoEntry
    NoCall = NoCall
    NoItem = NoItem
    k1 = k1
    w1 = w1
    w2 = w2
    c1 = c1
    c2 = c2
    Keys = {k1}
    Workers = {w1, w2}
    Slots = {c1, c2}
    MaxAttempts = 3
    Batch = 2
    Lease = 2
    BackoffCap = 2
    Ttl = 3
    InProcess = FALSE
    Prompt = FALSE
    MaxPass = 2
    MaxRows = 1
    MaxFaults = 1
INVARIANTS
    AttemptsWereMade
PROPERTIES
    NoMessageLost
    Settles
