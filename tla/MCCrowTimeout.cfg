CONSTANTS
  Conns = {c1, c2}
  Timeout = 1
  Sends = {"whole"}
  MaxAnswers = 3
  MaxTime = 4
  MaxIds = 3
SPECIFICATION Spec
INVARIANTS
  ClosedInTime
CHECK_DEADLOCK FALSE
