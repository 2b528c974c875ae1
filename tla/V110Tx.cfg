SPECIFICATION FairSpec
CONSTANTS
  BufLen = 3
  Thresh = 2
  NumChars = 4
  Inputs <- MCInputs
INVARIANTS
  TypeOK
  InStep
  NothingLost
PROPERTY AllHeard
