SPECIFICATION FairSpec
CONSTANTS
    Kinds = {"server", "client", "step", "sync", "drive"}
    MaxDatagrams = 3
    MaxEvents = 2
    MaxPerCall = 2
    MaxCommands = 2
    MaxHandles = 1
INVARIANTS
    NoEventIsLost
    FailureStaysLocal
PROPERTIES
    NothingWaitsForEver
    TickedForEver
CHECK_DEADLOCK FALSE
