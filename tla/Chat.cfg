CONSTANTS
  t1 = t1
  t2 = t2
  NoText = NoText
  Texts <- TwoTexts
  SendCap = 3
  QueueCap = 1
  PageSize = 2
  MaxPieces = 2
  MaxBreaks = 1
  MaxAsks = 1
SPECIFICATION Spec
SYMMETRY Symmetric
INVARIANTS
  TypeOK
  SaidInOrder
  TypedOnce
  QuietNotWorking
CHECK_DEADLOCK FALSE
