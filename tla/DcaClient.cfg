SPECIFICATION Spec
CONSTANTS
  AsyncLimit = 2
  MaxStatuses = 3
INVARIANTS
  ConfirmedStopIsReal
  AnswersAreFresh
  FatalStatusIsReported
PROPERTIES
  Returns
CHECK_DEADLOCK FALSE
