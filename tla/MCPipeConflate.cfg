SPECIFICATION MCSpec
CONSTANTS
    Uses = {"conflate"}
    MaxWmDelta = 1024
    Setups <- CrossingOnly
    Values = {v1}
    MaxWrites = 2
    Senders = {s1}
CHECK_DEADLOCK FALSE
INVARIANTS
    TerminationAnswered
