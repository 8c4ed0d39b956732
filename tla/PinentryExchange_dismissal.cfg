SPECIFICATION FairSpec
CONSTANT Retains = {TRUE, FALSE}
PROPERTY DismissedPopupGoes
CHECK_DEADLOCK FALSE
