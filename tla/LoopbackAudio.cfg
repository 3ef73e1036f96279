SPECIFICATION FairSpec
CONSTANTS
  FrameSize = 3
  PacketSizes = {1, 2, 4}
  Capacity = 3
  Wrap = 8
INVARIANTS
  TypeOK
  NoCallAfterStop
  SamplesInOrder
PROPERTIES
  StopReturns
