CONSTANTS
    Options <- SomeOptions
    Connecters = {c1, c2}
    NoOne = NoOne
    MaxSends = 2
SPECIFICATION FairSpec
CHECK_DEADLOCK FALSE
INVARIANTS AssertionsHold LingerHonoured
PROPERTY HangsOnlyForMessages
