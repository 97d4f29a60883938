SPECIFICATION FairSpec
CONSTANTS
    socket = socket
    a = a
    b = b
    io1 = io1
    io2 = io2
    none = none
    Objects = {socket, a, b}
    Root = socket
    IOThreads = {io1, io2}
    NoOne = none
    Budgets <- BothBudgets
CHECK_DEADLOCK FALSE
INVARIANTS NoCommandToDeleted AssertionsHold
PROPERTY TreeIsTornDown
