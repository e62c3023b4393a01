SPECIFICATION Spec
CONSTANTS
  e1 = e1
  e2 = e2
  e3 = e3
  Slots = {e1, e2, e3}
  None = None
  Self = 6
  SelfWidth = 4
  Peers <- FewPeers
  Addresses = {"trying"}
  MaxData = 1
  Explored = {"callback"}
CONSTRAINT WithinExplored
SYMMETRY AlikeSlots
VIEW WithoutRet
CHECK_DEADLOCK FALSE
INVARIANTS
  TypeOK
  DomainsDisjoint
  FindsOwner
  DirectRoute
  ResetIsPending
PROPERTIES
  KeepsAvailable
  RefusalJustified
