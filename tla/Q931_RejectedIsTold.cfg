SPECIFICATION Spec
CONSTANTS
    LocalNetwork = FALSE
    Refs = {r1}
    Chans = {1}
    Loads <- MCOne
INVARIANTS
    RejectedIsTold
CHECK_DEADLOCK FALSE
