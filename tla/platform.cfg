SPECIFICATION MCSpec
CONSTANTS
    Setups <- MCSetups
    Chunks = 4
    Hwm = 4
    MaxFaults = 2
INVARIANTS
    TextRight
    NamesRight
    CalledBack
    NothingDropped
    OneAnswer
    HeldBack
PROPERTIES
    ImplementsTransfer
    StreamsSettle
CHECK_DEADLOCK FALSE
