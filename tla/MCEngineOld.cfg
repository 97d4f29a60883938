SPECIFICATION MCSpec
CONSTANTS
    Setups <- MCOldSetups
    NetSize = 2
    Batch = 2
    Uses = {"engine"}
PROPERTIES
    OldSubscribersHeard
CHECK_DEADLOCK FALSE
