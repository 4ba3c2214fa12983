SPECIFICATION Spec
CONSTANTS
  AsyncLimit = 1
  MaxStatuses = 2
INVARIANTS
  UnconfirmedStartIsStopped
CHECK_DEADLOCK FALSE
