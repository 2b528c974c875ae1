SPECIFICATION Spec
CONSTANTS
  BufLen = 4
  SyncFrames = 2
  NumChars = 5
  Inputs <- MCInputs
  Patience = {TRUE, FALSE}
  LateStart = FALSE
INVARIANTS
  TypeOK
  InStep
  ReceivedIsSent
  HoldsOffForAReason
PROPERTY FinishedStay
