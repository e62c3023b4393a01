SPECIFICATION FramingSpec
CONSTANTS
  Crc = 2
  Base = 4
  HeadSize = 8
  MaxBuffer = 14
  Limit = 9
  SendLimit = 13
  Lengths = {0, 1, 5, 10, 13, 14}
  MaxMessages = 3
CHECK_DEADLOCK FALSE
INVARIANTS
  HeardIsRead
  HeadHasRoom
