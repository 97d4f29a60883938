CONSTANTS
    Options <- SomeOptions
    Connecters = {c1, c2}
    NoOne = NoOne
    MaxSends = 1
SPECIFICATION Spec
CHECK_DEADLOCK FALSE
INVARIANT HalfReadIsRead
