CONSTANTS
  c1 = c1
  c2 = c2
  t1 = t1
  t2 = t2
  t3 = t3
  NoText = NoText
  Clients <- OneClient
  Texts <- TwoTexts
  QueueCap = 1
  StreamCap = 1
  MaxTools = 2
  ContextBound = 5
  StopBound = 1
  DbMayFail = FALSE
SPECIFICATION FairSpec
PROPERTIES
  InterruptServed
CHECK_DEADLOCK FALSE
