SPECIFICATION FairSpec
CONSTANTS
  c1 = c1
  c2 = c2
  c3 = c3
  p1 = p1
  Conns = {c1, c2, c3}
  Peers = {p1}
  Self = Self
  None = None
  Explored = {}
CONSTRAINT WithinExplored
CHECK_DEADLOCK FALSE
INVARIANTS
  TypeOK
  LinksMatch
PROPERTIES
  HalfOpenEnds
  ResetReturns
