SPECIFICATION MCSpec
CONSTANTS
    Setups <- MCSetups
    NetSize = 2
    Batch = 2
    Uses = {"engine", "codec"}
INVARIANTS
    StreamIntact
    AssertionsHold
    OnlyAuthenticated
PROPERTIES
    ConnectionSettles
    StreamDecoded
CHECK_DEADLOCK FALSE
