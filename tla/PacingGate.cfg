SPECIFICATION GateSpec
CONSTANTS
  Interval = 3
  Slack = 1
  MaxTime = 25
INVARIANTS
  GateTypeOK
  FramesAreBooked
  GateReopens
  WakeBounded
CHECK_DEADLOCK FALSE
