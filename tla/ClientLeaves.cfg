SPECIFICATION FairSpec
CONSTANT MaxEvents = 3
PROPERTY
  ClientLeavingClosesPeer
CHECK_DEADLOCK FALSE
