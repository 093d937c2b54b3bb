SPECIFICATION Spec
CHECK_DEADLOCK FALSE
CONSTANTS
  NumChains = 2
  NumImages = 3
  MaxPresents = 3
  FaultyChains = {1}
  PipeCapacity = 1
  EncodedChains = 1
  NumBuffers = 2
  MaxFrames = 4
INVARIANTS
  TypeOK
  ImageOwnedOnce
  AcquireFindsImage
  SoleWaiter
  WaitsOnTheLiving
  NewestNotDrawnInto
  StagingStable
  NoFrameMixed
  LabelLag
PROPERTIES
  AncestorFlippedFirst
  AcquireReturns
  TeardownEnds
  PresentReturns
