SPECIFICATION FairSpec
CONSTANTS
  Rates = {1, 2, 4}
  SyncFrames = 2
  Starts = {0, 3}
  DataLines <- MCDataLines
  Slips = 1
  MaxSlips <- MCMaxSlips
INVARIANTS
  TypeOK
  IdleAligns
  DataIsHeard
PROPERTIES
  AcceptsWholeFrames
  Connects
