SPECIFICATION FairSpec
CONSTANT Scenarios <- Compatible
INVARIANTS TypeOK NoCircularWait
PROPERTIES DisconnectCompletes FramesGoOn
