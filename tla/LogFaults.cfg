SPECIFICATION Spec
CONSTANTS
  Client = {c1, c2}
  RunIDs = {a, b}
  MaxSeq = 1
  MaxAppends = 3
  MaxOpens = 3
  Refusing = TRUE
  Size <- ShortAndLong
  MaxLine = 4
  MaxPieces = 5
  MaxEntries = 4
SYMMETRY Interchangeable
INVARIANTS
  TypeOK
  FirstTearLosesNothing
  ReplayIsInOrder
  AtMostTheLastIsLost
PROPERTIES
  ImplementsMemLog
CHECK_DEADLOCK FALSE
