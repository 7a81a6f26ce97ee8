SPECIFICATION MCFairSpec
CONSTANTS
    SeqSpace = 8
    MaxQueuedIncoming = 1
    MaxQueuedOutgoing = 2
    AcknowledgeAllData = FALSE
    DataAckWindow = 4
    MaxAckDelay = 1
    MaxFragments = 2
    AcksMayBeLost = FALSE
    MaxSequence = 3
    MaxAcks = 2
    Ids <- MCIds
    Totals <- MCTotals
PROPERTIES
    EverythingDelivered
    EverythingAcknowledged
CHECK_DEADLOCK FALSE
