SPECIFICATION FairSpec
CONSTANT Retains = {TRUE, FALSE}
INVARIANTS
    TerminalHeldForPinentry
    VerdictIsPinentrys
    SettledOnReturn
PROPERTIES
    KeepsRun
    CanceledCallReturns
    CallEndsWithPinentry
    WaitingPopupGoes
CHECK_DEADLOCK FALSE
