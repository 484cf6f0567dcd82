CONSTANTS
  Conns = {c1, c2}
  Timeout = 1
  Sends = {"whole", "last", "head", "expect", "rest", "bad", "pair", "unrouted"}
  MaxAnswers = 3
  MaxTime = 4
  MaxIds = 3
SPECIFICATION Spec
INVARIANTS
  IInv
  OneWriteAtATime
PROPERTIES
  LostOnlyToDeadless
CHECK_DEADLOCK FALSE
