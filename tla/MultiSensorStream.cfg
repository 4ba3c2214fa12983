SPECIFICATION Spec
CONSTANTS
  Sources = {1, 2}
  Required = {1}
  MaxRecorded = 2
  MaxRadarFrames = 2
INVARIANTS
  ReaderNeverRejects
  TerminalIsTruthful
PROPERTIES
  FinishReturns
CHECK_DEADLOCK FALSE
