SPECIFICATION FairSpec
CONSTANTS
  AvoidGlitching = TRUE
  MaxQueued = 1
  MaxInFlight = 2
  MaxControl = 1
  MaxFailures = 0
  MaxConnections = 2
PROPERTY VideoStarts
