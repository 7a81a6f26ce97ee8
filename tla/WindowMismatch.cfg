SPECIFICATION MCSpec
CONSTANTS
    SeqSpace = 16
    MaxQueuedIncoming = 3
    MaxQueuedOutgoing = 2
    AcknowledgeAllData = FALSE
    DataAckWindow = 2
    MaxAckDelay = 1
    MaxFragments = 1
    AcksMayBeLost = FALSE
    MaxSequence = 6
    MaxAcks = 1
    Ids <- MCIds
    Totals <- MCTotals
INVARIANTS
    NothingLost
CHECK_DEADLOCK FALSE
