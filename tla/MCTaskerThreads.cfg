CONSTANTS
  t1 = t1
  t2 = t2
  w1 = w1
  tasker = tasker
  node = node
  Threads <- MCThreads
  NoThread = NoThread
  Workers <- MCWorkers
  Groups <- MCGroups
  NoGroup = NoGroup
  NameServer <- tasker
  Messages <- MCMessages
  InitialSlots = 1
  MaxClock = 2
  NoHash = NoHash
  UnknownId = UnknownId
  NoJson = NoJson
SPECIFICATION Spec
INVARIANTS
  IInv
  NoMoveUnderFoot
  InnerLocksNeverContended
PROPERTIES
  ImplementsTasker
  GateIsReleased
