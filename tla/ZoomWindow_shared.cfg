SPECIFICATION Spec
CONSTANTS
    Launches = {l1, l2}
    Panes = {p1, p2}
    Versions <- MCVersions
    MaxUserToggles = 0
INVARIANT NoPaneOverZoom
CHECK_DEADLOCK FALSE
