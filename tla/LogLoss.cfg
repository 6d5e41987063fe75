SPECIFICATION Spec
CONSTANTS
  Client = {c1, c2}
  RunIDs = {a, b}
  MaxSeq = 1
  MaxAppends = 2
  MaxOpens = 2
  Refusing = FALSE
  Size <- AllShort
  MaxLine = 4
  MaxPieces = 3
  MaxEntries = 2
INVARIANTS
  AckedIsReplayed
CHECK_DEADLOCK FALSE
