SPECIFICATION FairSpec
CONSTANTS
  AvoidGlitching = TRUE
  MaxQueued = 1
  MaxInFlight = 2
  MaxControl = 1
  MaxFailures = 2
  MaxConnections = 2
INVARIANTS TypeOK GlitchFree
PROPERTIES ClientRecovers FirstVideoStarts
