SPECIFICATION Spec
CONSTANT Launches <- AllLaunches
INVARIANTS
    TypeOK
    FifoOutlivesRelay
    RestoredLast
    NothingKept
    EndpointsAccountedFor
    NoDismissalAfterRelease
    NoticedCancelDismisses
    CleanVerdictMeansPayloadRan
PROPERTIES
    KeepsLease
    KeepsRun
CHECK_DEADLOCK FALSE
