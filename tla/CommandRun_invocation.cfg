SPECIFICATION Spec
CONSTANTS
    MaxInt = 7
    BackendValues <- MCBackendValues
    PathValues <- MCPathValues
    Values <- MCValues
INVARIANTS
    HighestLayerWins
    TopLeftCorner
    ExitIsSettled
CHECK_DEADLOCK FALSE
