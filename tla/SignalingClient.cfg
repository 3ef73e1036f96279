SPECIFICATION FairSpec
CONSTANTS
  rtc = rtc
  runner = runner
  main = main
  Senders = {rtc}
  Runner = runner
  Main = main
INVARIANTS
  TypeOK
PROPERTIES
  HandleFreedOnlyAfterFailedRegister
  NoTightReconnect
  StopReturns
  TriesAgain
CHECK_DEADLOCK FALSE
