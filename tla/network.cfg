SPECIFICATION MCSpec
CONSTANTS
    Requests = {1, 2}
    SignalOf <- MCSignalOf
    Http2 = {"b"}
    Handles = {1, 2, 3, 4}
    Worlds <- MCWorlds
    BodyLen = 2
    MaxFree = 1
    MaxRedirects = 1
    Whole = TRUE
    Faults = {"refuse", "abort", "idle"}
    MaxFaults = 1
INVARIANTS
    OwnAnswer
    PoolKept
    SettlesOnce
    AbortReaches
    ConnectionsKept
PROPERTIES
    Settles
CHECK_DEADLOCK FALSE
