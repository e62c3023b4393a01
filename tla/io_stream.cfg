SPECIFICATION FairSpec
CONSTANTS
  s1 = s1
  s2 = s2
  Streams = {s1, s2}
  Fds = {1, 2}
  None = None
  MaxSend = 2
  Explored = {}
CONSTRAINT WithinExplored
CHECK_DEADLOCK FALSE
INVARIANTS
  TypeOK
  ClosedIsQuiet
  WriteQueuesAgree
PROPERTIES
  ReportedOnce
  RequestsEnd
