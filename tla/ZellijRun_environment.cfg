SPECIFICATION Spec
CONSTANTS
    Lines = 2
    Room = 1
INVARIANT PayloadHasItsEnvironment
CHECK_DEADLOCK FALSE
