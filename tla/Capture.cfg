SPECIFICATION FairSpec
CONSTANTS
  s1 = s1
  s2 = s2
  Devices = {1, 2, 3, 4}
  Sinks = {s1, s2}
  FailureLimit = 2
  MaxFaults = 4
INVARIANTS
  TypeOK
  BufferOnItsDevice
  NoFrameAfterRemoveSink
PROPERTIES
  DuplicationRecovers
  FramesKeepComing
  StopReturns
CHECK_DEADLOCK FALSE
