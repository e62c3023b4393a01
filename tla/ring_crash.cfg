SPECIFICATION Spec
CONSTANTS
  w1 = w1
  w2 = w2
  Writers = {w1, w2}
  NodeCount = 4
  Protect = 0
  Sizes = {1, 2}
  RecvCaps = {2}
  Tries = 2
  SeqMod = 4
  StartPos = {3}
  StartSeq = {2}
  MaxSend = 1
  MaxElapsed = 1
  Mortal = {w1}
  MaxReaderCrash = 1
  Explored = {"late", "readercrash"}
CONSTRAINT WithinExplored
CHECK_DEADLOCK FALSE
INVARIANTS
  ExclusiveNodes
  NoSilentLoss
  DeliveredOnce
  NoBadBlock
