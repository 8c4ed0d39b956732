SPECIFICATION FairSpec
CONSTANTS
    Lines = 2
    Room = 1
INVARIANTS
    DirOutlivesDelivery
    CleanWaitMeansWholeEnvironment
PROPERTIES
    KeepsRun
    FailedLauncherEndsWait
    CanceledDeliveryEnds
CHECK_DEADLOCK FALSE
