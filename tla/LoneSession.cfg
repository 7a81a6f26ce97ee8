SPECIFICATION Spec
CONSTANTS
    ChannelCount = 2
    Window = 1
    HeartbeatAfter = 1
    InactivityTimeout = 2
    Ids = {1}
    Keys = {1, 2}
    MaxBundle = 2
    MaxQueued = 1
INVARIANTS
    TypeOK
    Lifecycle
    DataAfterOpened
    DisconnectIsLast
CHECK_DEADLOCK FALSE
