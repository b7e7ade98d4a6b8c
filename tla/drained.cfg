SPECIFICATION HttpServerSpec
CONSTANTS
    MaxExchanges = 1
    MaxWrites = 0
    MaxBody = 1
    MaxFramed = 0
    ServerFaults = {}
INVARIANTS
    ResumedEnds
CHECK_DEADLOCK FALSE
