SPECIFICATION MCSpec
CONSTANTS
    Uses = {"pipe", "queue", "mailbox", "conflate"}
    MaxWmDelta = 2
    Setups <- AllSetups
    Values = {v1, v2}
    MaxWrites = 5
    Senders = {s1, s2}
CHECK_DEADLOCK FALSE
INVARIANTS
    SharedSafely
    FlowControl
    PointersLive
    AsleepMeansDrained
    NeverSplit
    WakeupPerSleep
    NewestOffered
PROPERTIES
    StreamIntact
    PendingAreRead
    TerminationCompletesIfRead
    ImplementsBatchQueue
    CommandsInOrder
    EveryCommandReceived
