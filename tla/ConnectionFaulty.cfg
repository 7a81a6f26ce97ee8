SPECIFICATION Spec
CONSTANTS
    ChannelCount = 1
    Window = 1
    HeartbeatAfter = 0
    InactivityTimeout = 1
    Ids = {1, 2}
    Keys = {1, 2, 3, 4}
    Links = {"faulty"}
    MaxSessions = 2
    MaxQueued = 0
    LiveQueued = 0
    MaxNet = 1
    MaxCopies = 1
INVARIANTS
    EventsInOrder
    ByRemoteIsTrue
CHECK_DEADLOCK FALSE
