SPECIFICATION Spec
CONSTANTS
  None = None
  MaxCalls = 2
  MaxPieces = 5
  MaxAhead = 2
INVARIANTS
  TypeOK
  PiecesInOrder
  BlocksWellFormed
  EndIsComplete
PROPERTIES
  StreamIsClosed
CHECK_DEADLOCK FALSE
