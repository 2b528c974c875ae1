SPECIFICATION FairSpec
CONSTANTS
    LocalNetwork = FALSE
    Refs = {r1, r2}
    Chans = {1, 2}
    Loads <- MCLoads
INVARIANTS
    TypeOK
    EventNamesLiveCall
    ClearingIsWatched
    AliveIsServed
PROPERTIES ClearedInTheEnd
CHECK_DEADLOCK FALSE
