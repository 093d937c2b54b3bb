SPECIFICATION Spec
CHECK_DEADLOCK FALSE
CONSTANTS
  VIDEO = VIDEO
  Streams = {VIDEO}
  MaxBuffers = 2
  IndexMod = 16
  KeepWindow = 1
  ShardCounts <- MixedFrames
  MaxPackets = 3
  MaxLag = 3
  MaxDuplicates = 1
  MaxLost = 1
  MaxErrors = 1
INVARIANTS
  BufferConservation
  PacketsIntact
  ShardsCountedOnce
  HighestCoversPacket
PROPERTIES
  ReadInOrder
  SkippedExact
