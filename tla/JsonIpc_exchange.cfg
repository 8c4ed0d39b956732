SPECIFICATION FairSpec
CONSTANT MaxValues = 2
INVARIANTS
    CleanVerdictIsWhole
    StreamOutlivesLauncher
PROPERTIES
    KeepsRun
    KeepsOutput
    FailedLauncherEndsExchange
    CanceledExchangeReturns
CHECK_DEADLOCK FALSE
