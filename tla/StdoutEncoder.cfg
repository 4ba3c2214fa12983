SPECIFICATION Spec
CONSTANT FrameCount = 3
INVARIANTS
  StreamWellFormed
  CommitIsTruthful
PROPERTIES
  CallsReturn
CHECK_DEADLOCK FALSE
