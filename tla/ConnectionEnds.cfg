SPECIFICATION FairSpec
CONSTANTS
    ChannelCount = 1
    Window = 1
    HeartbeatAfter = 1
    InactivityTimeout = 2
    Ids = {1, 2}
    Keys = {1, 2, 3, 4}
    Links = {"faulty", "live"}
    MaxSessions = 1
    MaxQueued = 0
    LiveQueued = 2
    MaxNet = 1
    MaxCopies = 1
PROPERTIES
    MismatchEnds
    NegotiationEnds
    NoSessionOutlivesItsClient
    LiveLinkHolds
CHECK_DEADLOCK FALSE
