SPECIFICATION Spec
CONSTANTS
    Pipes = {A, B, C}
    NULL = NULL
    Threads = {"t1", "t2"}
    Slots = {1, 2, 3}
    Owner <- MCOwner
    Contents = {c1}
    Metas = {m1}
    None = None
SYMMETRY AnyPipe
CHECK_DEADLOCK FALSE
INVARIANTS
    CursorFollowsPipe
