SPECIFICATION RadarSpec
CONSTANTS
  NConfig = 2
  MaxRepl = 2
  Leftovers = {"sensorStart", "sensorStop"}
  MaxLeft = 2
INVARIANTS AnswersAreOwn ConfirmationIsReal
PROPERTY OperationReturns
CHECK_DEADLOCK FALSE
