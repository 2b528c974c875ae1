SPECIFICATION FairSpec
CONSTANT NumChans = 2
CHECK_DEADLOCK FALSE
INVARIANTS
  TypeOK
  NoEndForgotten
  DetachedIsBeingJoined
  CancelledNeverNotifies
  EndedHoldsNoSocket
PROPERTIES
  CancelReturns
  EndIsReaped
