SPECIFICATION Spec
CONSTANTS
  Word = 2
  HeadSize = 2
  Lengths = {0, 1, 3}
  PopSizes = {0, 1, 3}
  Payloads = {"p", "q"}
  Modes <- SmallModes
  Limits <- SmallLimits
CONSTRAINT ShortList
CHECK_DEADLOCK FALSE
INVARIANTS
  TypeOK
  LayoutInv
  CostExact
PROPERTIES
  DequeSpec
  EmptyTakesAll
