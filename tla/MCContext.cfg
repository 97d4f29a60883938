CONSTANTS
    Apps = {a1, a2}
    Pairs = {p1, p2}
    NoOne = NoOne
    Budgets <- SmallBudgets
SPECIFICATION FairSpec
CHECK_DEADLOCK FALSE
INVARIANTS DeletedIsForgotten NoneWaitsForBound DoneMeansDone
PROPERTY HangsOnlyForPending
