\* Two events, a retention of one unit, five instants, three processes.
SPECIFICATION Spec
CONSTANTS
  N = 2
  Retention = 1
  Since = 0
  MaxNow = 4
  MaxEnds = 3
  None = None
INVARIANTS TypeOK NoSilentGap ExitTellsTruth
PROPERTIES NothingPassedOver StopReturns
CHECK_DEADLOCK FALSE
