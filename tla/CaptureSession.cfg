SPECIFICATION SessionSpec
CONSTANTS
  NumPackets = 3
  FirstOffset = 3
  PacketBytes = 2
  MaxOutputBytes = 7
  FiniteBytes = 4
  MaxTracked = 2
  MaxDuplicates = 1
  MaxMalformed = 1
  FrameBytes = 2
  None = None
INVARIANTS
  CoverageExact
  PlacementExact
  CleanEndIsAccounted
  PublishedIsWhole
  PublishedAfterConvergence
  EveryStartIsStopped
PROPERTIES
  ValidatedCaptureIsFrozen
  RunReturns
CHECK_DEADLOCK FALSE
