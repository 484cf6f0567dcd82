CONSTANTS
  e1 = e1
  e2 = e2
  e3 = e3
  e4 = e4
  r1 = r1
  NoId = NoId
  NoReturn = NoReturn
  Ids <- MixIds
  Returns <- MixReturns
  Respon <- MixRespon
  Peers = 2
  Home <- MixHome
  Kind <- MixKind
  InitialSlots = 1
  MaxLost = 1
  MaxPosts = 2
  MayHang = FALSE
SPECIFICATION Spec
INVARIANTS
  IInv
  RunsOnce
  StrandedByLostCalls
  BufferBounded
PROPERTIES
  SweepSparesListed
