SPECIFICATION FairSpec
CONSTANTS
  w1 = w1
  w2 = w2
  Writers = {w1, w2}
  NodeCount = 5
  Protect = 0
  Sizes = {2}
  RecvCaps = {2}
  Tries = 1
  SeqMod = 16
  StartPos = {4}
  StartSeq = {14}
  MaxSend = 1
  MaxElapsed = 2
  Mortal = {w1}
  MaxReaderCrash = 1
  Explored = {"late"}
CONSTRAINT WithinExplored
CHECK_DEADLOCK FALSE
PROPERTIES
  SendReturns
  Delivery
