SPECIFICATION SessionSpec
CONSTANTS
  NumPackets = 4
  FirstOffset = 0
  PacketBytes = 1
  MaxOutputBytes = 3
  FiniteBytes = 2
  MaxTracked = 2
  MaxDuplicates = 0
  MaxMalformed = 0
  FrameBytes = 1
  None = None
INVARIANTS
  NoGapPublished
CHECK_DEADLOCK FALSE
