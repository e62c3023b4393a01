SPECIFICATION FairSpec
CONSTANTS
  k1 = k1
  k2 = k2
  Conns = {k1, k2}
  MaxStarts = 2
  None = None
  Explored = {}
CONSTRAINT WithinExplored
CHECK_DEADLOCK FALSE
INVARIANTS
  TypeOK
  UpWasAccepted
  SameProcess
PROPERTIES
  ComesUp
