SPECIFICATION Spec
CONSTANTS
    Mod = 4
    K = 2
    N200 = 1
    Loads <- MCLoads
    MaxWire = 2
    MaxDown = 1
INVARIANTS
    TypeOK
    WindowKept
    Supervised
PROPERTIES
    ServiceKept
CHECK_DEADLOCK FALSE
