SPECIFICATION Spec
CONSTANTS
    a1 = a1
    a2 = a2
    b1 = b1
    Addr <- MCAddr
    SameHost <- MCSameHost
    AllowPortRemaps = TRUE
    ChannelCount = 1
    Window = 1
    HeartbeatAfter = 0
    InactivityTimeout = 1
    Ids = {1}
    Keys = {1}
    MaxBirths = 3
    MaxQueued = 0
SYMMETRY Ports
INVARIANTS
    NoSessionVanishes
    ToldInOrder
    ViewIsTrue
PROPERTIES
    RemapMovesWhole
CHECK_DEADLOCK FALSE
