SPECIFICATION Spec
CONSTANTS
    Launches = {l1, l2}
    Panes = {p1, p2}
    Versions <- MCVersions
    MaxUserToggles = 1
INVARIANTS
    UndisturbedServerLives
PROPERTY UndisturbedZoomComesBack
CHECK_DEADLOCK FALSE
