SPECIFICATION MCTimedSpec
CONSTANTS
    Setups <- MCTimedSetups
    NetSize = 2
    Batch = 2
    Uses = {"engine"}
PROPERTIES
    HandshakeTimesOut
CHECK_DEADLOCK FALSE
