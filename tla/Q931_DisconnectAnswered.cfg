SPECIFICATION FairSpec
CONSTANTS
    LocalNetwork = FALSE
    Refs = {r1}
    Chans = {1}
    Loads <- MCOne
PROPERTIES DisconnectAnswered
CHECK_DEADLOCK FALSE
