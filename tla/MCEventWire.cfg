\* Reading an answer ends: there is no next step then.
CHECK_DEADLOCK FALSE
CONSTANTS
  Hashes = {a, b, c}
  MaxEvents = 3
  IdSize = 73
  MetaSizes = {8, 105}
  DataSizes = {12}
SPECIFICATION WireSpec
SYMMETRY Symmetry
INVARIANTS
  WholeAnswersAreRead
  NoSilentMisread
