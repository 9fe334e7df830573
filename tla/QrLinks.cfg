SPECIFICATION FairSpec
CONSTANTS
  People = {a, b}
  Tokenless = {b}
  MAX_ATTEMPTS = 1
  MaxCodes = 2
  MaxGens = 2
  MaxLookups = 2
  Sockets = {s1, s2}
  None = None
INVARIANTS CardConnectsItsPerson ShownCodeIsLive SocketsAreInHand
PROPERTIES LinksSettle
CHECK_DEADLOCK FALSE
