SPECIFICATION MCSpec
CONSTANTS
    SeqSpace = 6
    MaxQueuedIncoming = 2
    AcknowledgeAllData = FALSE
    DataAckWindow = 4
    MaxAckDelay = 1
    LastId = 6
    MaxLength = 2
    MaxOutgoing = 2
    Ids <- MCIds
    Totals <- MCTotals
INVARIANTS
    TypeOK
    StashAheadOfWindow
    OnceInOrder
    AcknowledgedIsHeld
PROPERTIES
    StashedStaysUntilProcessed
CHECK_DEADLOCK FALSE
