CONSTANTS
  e1 = e1
  e2 = e2
  e3 = e3
  e4 = e4
  r1 = r1
  NoId = NoId
  NoReturn = NoReturn
  Ids <- OneIds
  Returns <- NoReturns
  Respon <- NoRespon
  Peers = 1
  Home <- OneHome
  Kind <- OneKind
  InitialSlots = 1
  MaxLost = 1
  MaxPosts = 2
  MayHang = TRUE
SPECIFICATION FairSpec
PROPERTIES WaitingIsTaken
CHECK_DEADLOCK FALSE
