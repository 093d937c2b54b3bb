SPECIFICATION FairSpec
CONSTANT Scenarios <- FramesAndDisconnect
PROPERTY DisconnectCompletes
CHECK_DEADLOCK FALSE
