SPECIFICATION Spec
CONSTANTS
  Nodes <- Everyone
  Ids <- Everywhere
  Father <- Tree
  Domain <- Domains
  Users = {"g", "b"}
  Public = {"a", "b"}
  Ttl <- Hops
  Tolerance = 1
  MaxSends = 2
  MaxBreaks = 1
  None = None
CHECK_DEADLOCK FALSE
INVARIANTS
  TypeOK
  OneFate
  NoLoop
