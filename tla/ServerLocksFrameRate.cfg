SPECIFICATION FairSpec
CONSTANT Scenarios <- StatisticsAndFrameRate
PROPERTY FrameRateUpdates
CHECK_DEADLOCK FALSE
