SPECIFICATION FairSpec
CONSTANTS
    Mod = 4
    K = 2
    N200 = 1
    Loads <- MCOneWay
    MaxWire = 2
    MaxDown = 1
PROPERTIES
    Resolved
CHECK_DEADLOCK FALSE
