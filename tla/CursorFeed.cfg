SPECIFICATION FairSpec
CONSTANTS
  Shapes = {arrow, beam, odd}
  Undecodable = {odd}
  NoShape = noShape
  Spots = {p, q}
  Origin = p
  HideFrames = 1
  NoCursor = noCursor
  MaxChanges = 3
  MaxClients = 2
INVARIANTS
  TypeOK
  ClientHasWhatWasNoted
  NoStrobe
PROPERTIES
  ClientCatchesUp
