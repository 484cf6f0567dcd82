\* A callback that is not there ends the process.
CHECK_DEADLOCK FALSE
CONSTANTS
  r1 = r1
  r2 = r2
  r3 = r3
  p1 = p1
  p2 = p2
  Requests = {r1, r2, r3}
  Server <- TwoPeers
  NoServer = NoServer
  NoRequest = NoRequest
  InitialRows = 1
  Tells = {p1}
  MaxLoad = 3
SPECIFICATION FairReturnsSpec
INVARIANTS
  ReturnsInv
  SerialKeepsCallbacks
  OwnAnswer
  CalledOnce
PROPERTIES
  HandlersReturn
