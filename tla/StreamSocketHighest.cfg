SPECIFICATION Spec
CHECK_DEADLOCK FALSE
CONSTANTS
  VIDEO = VIDEO
  Streams = {VIDEO}
  MaxBuffers = 5
  IndexMod = 8
  KeepWindow = 1
  ShardCounts <- SmallFrames
  MaxPackets = 10
  MaxLag = 2
  MaxDuplicates = 1
  MaxLost = 0
  MaxErrors = 0
INVARIANTS
  HighestCoversPacket
