SPECIFICATION RadarSpec
CONSTANTS
  NConfig = 2
  MaxRepl = 2
  Leftovers = {"version"}
  MaxLeft = 1
INVARIANT EchoRequired
CHECK_DEADLOCK FALSE
