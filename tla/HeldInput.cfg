SPECIFICATION FairSpec
CONSTANTS
  k1 = k1
  b1 = b1
  pad = pad
  net = net
  main = main
  ws = ws
  Keys = {k1}
  Buttons = {b1}
  Pads = {pad}
  Net = net
  Main = main
  Callers = {ws}
  MouseEnabled = TRUE
  KeyboardEnabled = TRUE
INVARIANTS
  TypeOK
  Accounted
  SessionEndsClean
PROPERTIES
  ShutdownLifts
  PromiseKept
