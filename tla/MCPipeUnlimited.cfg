SPECIFICATION MCSpec
CONSTANTS
    Uses = {"pipe"}
    MaxWmDelta = 2
    Setups <- UnlimitedOnly
    Values = {v1}
    MaxWrites = 2
    Senders = {s1}
CHECK_DEADLOCK FALSE
INVARIANTS
    RefillsWhenDrained
