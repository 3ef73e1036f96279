SPECIFICATION Spec
CONSTANTS
  BufferCount = 2
  Bitrates = {0, 1, 2}
  FrameRates = {0, 1, 2}
  DefaultBitrate = 1
  DefaultFrameRate = 2
  FreshBitrate = 2
  MaxKept = 3
INVARIANTS
  TypeOK
  NothingLeaked
  RatesAgree
  FrameRatePositive
