SPECIFICATION Spec
CONSTANT NumChans = 2
CHECK_DEADLOCK FALSE
INVARIANT JoinedHasNotified
