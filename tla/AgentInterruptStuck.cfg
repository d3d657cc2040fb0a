CONSTANTS
  c1 = c1
  c2 = c2
  t1 = t1
  t2 = t2
  t3 = t3
  NoText = NoText
  Clients <- TwoClients
  Texts <- OneText
  QueueCap = 1
  StreamCap = 1
  MaxTools = 1
  ContextBound = 2
  StopBound = 2
  DbMayFail = FALSE
SPECIFICATION FairSpec
PROPERTIES
  InterruptReturns
CHECK_DEADLOCK FALSE
