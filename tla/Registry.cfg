CONSTANTS
  c1 = c1
  c2 = c2
  c3 = c3
  a1 = a1
  a2 = a2
  a3 = a3
  NoId = NoId
  Clients <- ThreeClients
  Ids <- TwoIds
  Kinds <- Both
  DbMayFail = TRUE
SPECIFICATION Spec
SYMMETRY Symmetric
INVARIANTS
  TypeOK
  
  AnnouncedIsDurable
  NoLeakedLoop

  
