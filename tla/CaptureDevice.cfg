SPECIFICATION Spec
CONSTANTS
  s1 = s1
  s2 = s2
  Devices = {1, 2, 3, 4}
  Sinks = {s1, s2}
  FailureLimit = 2
  MaxFaults = 4
CHECK_DEADLOCK FALSE
INVARIANT
  EncoderSharesDevice
