SPECIFICATION FairSpec
CONSTANTS
  FrameBytes = 3
  FrameLimit = 3
  BufferFrames = 2
  MaxRanges = 1
  MaxWrite = 4
  Tags = {adc, other}
  Genuine = adc
  Callers = {session, app}
  None = None
INVARIANTS
  SlotAccounting
  DeliveryMatchesOutput
  SealedIsExact
PROPERTIES
  OutputNeverRewritten
  ImplementsContract
  AbortConverges
  SealReturns
CHECK_DEADLOCK FALSE
