CONSTANTS
  a1 = a1
  a2 = a2
  Agents <- TwoAgents
  Viewed = a1
  Limits <- AskedLimits
  DefaultLimit = 2
  MaxRows = 5
  MaxSecond = 2
SPECIFICATION Spec
INVARIANTS
  TypeOK
  PagesGoBack
  MissesOnlyTies
  PagesInSavedOrder
PROPERTIES
  ReadingShrinks
