CONSTANTS
  Indexes <- TwoCalls
  MaxLines = 3
  ChanCap = 4
SPECIFICATION FairReplySpec
INVARIANTS
  TypeOK
  WholeCalls
  CallOnce
  NothingLostAtBodyEnd
  NobodyNeeded
  NoPartialAnswer
PROPERTIES
  KeepsProtocol
  ParserEnds
CHECK_DEADLOCK FALSE
