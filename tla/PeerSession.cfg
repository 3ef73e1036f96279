SPECIFICATION FairSpec
CONSTANT MaxEvents = 5
INVARIANTS
  TypeOK
  ClosedOnceAlone
  NullChannelOnlyInShutdown
PROPERTIES
  NegotiationSettles
  StopCompletes
CHECK_DEADLOCK FALSE
