SPECIFICATION Spec
CONSTANTS
  p1 = p1
  p2 = p2
  p3 = p3
  Processes = {p1, p2, p3}
  NoProcess = NoProcess
  MaxWrites = 2
INVARIANTS
  PublishedIsComplete
  CommittedStays
  StageIsOwn
  CaptureIsKept
  FailedIsUnpublished
CHECK_DEADLOCK FALSE
