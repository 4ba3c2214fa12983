SPECIFICATION MSpec
CONSTANTS
  NumSources = 2
  QueueSize = 1
  Filming = {2}
  MaxEvents = 2
  MaxItems = 2
  MaxFaults = 1
  Required = {1}
INVARIANTS
  CompleteIsExact
  NothingLeftBehind
PROPERTIES
  OperationReturns
  ImplementsParticipant
CHECK_DEADLOCK FALSE
