CONSTANTS
  Peers = 2
  MaxOn = 2
  MaxOff = 3
SPECIFICATION FairSpec
INVARIANTS
  IInv
  SafeIfPaired
  OffStopsThreads
  EachOffEndsAPair
PROPERTIES
  OffEndsOrLost
CHECK_DEADLOCK FALSE
