CONSTANTS
    Apps = {a1, a2}
    Pairs = {p1, p2}
    NoOne = NoOne
    Budgets <- ShutdownBudget
SPECIFICATION Spec
CHECK_DEADLOCK FALSE
INVARIANT PairsAreCreated
