SPECIFICATION Spec
CONSTANTS
    Switchtypes <- MCSwitchtypes
    MaxCut = 2
INVARIANTS
    RoundTrip
    IndefiniteRead
    NotMisread
    CutRefused
