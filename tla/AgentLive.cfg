CONSTANTS
  c1 = c1
  c2 = c2
  t1 = t1
  t2 = t2
  t3 = t3
  NoText = NoText
  Clients <- OneClient
  Texts <- TwoTexts
  QueueCap = 1
  StreamCap = 1
  MaxTools = 1
  ContextBound = 4
  StopBound = 1
  DbMayFail = TRUE
SPECIFICATION FairSpec
PROPERTIES
  StopEnds
  QueuedIsSettled
CHECK_DEADLOCK FALSE
