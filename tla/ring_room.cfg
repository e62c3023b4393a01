SPECIFICATION Spec
CONSTANTS
  w1 = w1
  w2 = w2
  Writers = {w1, w2}
  NodeCount = 5
  Protect = 1
  Sizes = {0, 1, 3, 4}
  RecvCaps = {2, 3}
  Tries = 1
  SeqMod = 16
  StartPos = {4}
  StartSeq = {14}
  MaxSend = 1
  MaxElapsed = 1
  Mortal = {w1}
  MaxReaderCrash = 0
  Explored = {"lap", "early", "late", "timeout", "readercrash", "wrap"}
CONSTRAINT WithinExplored
CHECK_DEADLOCK FALSE
INVARIANTS
  TypeOK
  RoomInv
PROPERTY QueueSpec
