SPECIFICATION Spec
CONSTANTS
    MaxLines = 6
    MapMayFail = TRUE
    CloneMayFail = TRUE
INVARIANTS TypeOK Accounted
PROPERTIES NoLineAfterExit PrintsAll ImplementsQuota
