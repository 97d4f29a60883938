SPECIFICATION MCSpec
CONSTANTS
    Uses = {"pipe"}
    MaxWmDelta = 1024
    Setups <- CrossingOnly
    Values = {v1}
    MaxWrites = 2
    Senders = {s1}
CHECK_DEADLOCK FALSE
PROPERTIES
    TerminationCompletes
