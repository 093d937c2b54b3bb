SPECIFICATION FairSpec
CONSTANT Scenarios <- TrackingAndPlayspace
PROPERTY DisconnectCompletes
CHECK_DEADLOCK FALSE
