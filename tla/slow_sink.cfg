SPECIFICATION StreamsSpec
CONSTANTS
    Setups <- MCSlowSink
    Chunks = 3
    Hwm = 3
    MaxFaults = 0
INVARIANTS
    SuccessMeansAll
CHECK_DEADLOCK FALSE
