CONSTANTS
  c1 = c1
  c2 = c2
  c3 = c3
  a1 = a1
  a2 = a2
  a3 = a3
  NoId = NoId
  Clients <- TwoClients
  Ids <- TwoIds
  Kinds <- MainOnly
  DbMayFail = FALSE
SPECIFICATION Spec
INVARIANTS
  OneMain
