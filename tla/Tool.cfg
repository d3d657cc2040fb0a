CONSTANTS
  p1 = p1
  p2 = p2
  Procs <- TwoProcs
  OutputLimit = 1
  MaxCalls = 2
  MaxWrites = 2
SPECIFICATION FairSpec
INVARIANTS
  TypeOK
  OutputIsWhole
  NobodyHoldsOutput
  VerdictFits
PROPERTIES
  ToolReturns
CHECK_DEADLOCK FALSE
