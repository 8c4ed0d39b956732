SPECIFICATION FairSpec
CONSTANT Launches <- LivenessLaunches
PROPERTIES
    CanceledWaitReturns
    WaitReturnsAfterPopup
    CanceledLaunchDismissed
CHECK_DEADLOCK FALSE
