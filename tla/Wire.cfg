SPECIFICATION Spec
CONSTANTS
    Configs <- MCConfigs
    Key <- MCKey
    Seed = 7
    Data <- MCData
    Pairs <- MCPairs
    Controls <- MCControls
    UsedChannels = {0, 3}
    MaxMessages = 2
INVARIANTS
    DeliveredIntact
    KeysInStep
    FitsRemote
CHECK_DEADLOCK FALSE
