CONSTANTS
  Threads = {t1, t2, t3}
  NoThread = NoThread
  MaxDepth = 2
SPECIFICATION Spec
INVARIANTS
  IInv
PROPERTIES
  ImplementsLock
