CONSTANTS
  w1 = w1
  w2 = w2
  tasker = tasker
  node = node
  Workers <- MCWorkers
  Groups <- MCGroups
  NoGroup = NoGroup
  NameServer <- tasker
  Messages <- MCMessages
  InitialSlots = 1
  MaxClock = 3
  NoHash = NoHash
  UnknownId = UnknownId
  NoJson = NoJson
SYMMETRY WorkerSymmetry
SPECIFICATION Spec
INVARIANTS
  IInv
  OneGrantPerId
PROPERTIES
  MisroutedStays
  ImplementsBoard
