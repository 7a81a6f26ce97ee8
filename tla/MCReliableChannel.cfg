SPECIFICATION MCSpec
CONSTANTS
    SeqSpace = 5
    MaxQueuedIncoming = 1
    MaxQueuedOutgoing = 2
    AcknowledgeAllData = FALSE
    DataAckWindow = 4
    MaxAckDelay = 1
    MaxFragments = 2
    AcksMayBeLost = TRUE
    MaxSequence = 6
    MaxAcks = 2
    Ids <- MCIds
    Totals <- MCTotals
INVARIANTS
    NothingLost
    MaxClientWasReceived
    DispatchIndexExact
    NeverCorrupt
PROPERTIES
    ImplementsStream
CHECK_DEADLOCK FALSE
