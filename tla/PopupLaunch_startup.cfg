SPECIFICATION FairSpec
CONSTANT Launches <- ExecLaunches
PROPERTY StartupOnAClock
CHECK_DEADLOCK FALSE
