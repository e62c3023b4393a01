SPECIFICATION FairSpec
CONSTANTS
  k1 = k1
  k2 = k2
  Conns = {k1, k2}
  MaxStarts = 2
  None = None
  Explored = {"late"}
CONSTRAINT WithinExplored
CHECK_DEADLOCK FALSE
PROPERTY AcceptedGoesUp
