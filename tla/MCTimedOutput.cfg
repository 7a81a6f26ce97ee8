SPECIFICATION MCSpec
CONSTANTS
    SeqSpace = 5
    MaxQueuedOutgoing = 2
    MaxFragments = 2
    MaxSequence = 5
    AckWait = 2
    RtoMin = 1
    RtoMax = 3
    Granularity = 1
    MaxAge = 4
INVARIANTS
    TypeOK
    QueueIsOrderedTail
    NothingPassedOver
    FrontIsOldest
    TimeoutHasHeadroom
    NoResendStorm
PROPERTIES
    KarnsRule
CHECK_DEADLOCK FALSE
