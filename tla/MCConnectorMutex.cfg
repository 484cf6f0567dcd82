CONSTANTS
  Threads = {t1, t2, t3}
  MaxDepth = 2
  MaxCount = 4
SPECIFICATION Spec
INVARIANTS
  IInv
  SerialIsSound
PROPERTIES
  StuckIsForever
CHECK_DEADLOCK FALSE
