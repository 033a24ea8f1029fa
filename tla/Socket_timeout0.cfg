SPECIFICATION Spec
CONSTANTS
  Timeouts = {0}
  Millis = 2
  IntMax = 7
  MaxLate = 1
  MaxUnits = 4
INVARIANT
  ZeroDisables
CHECK_DEADLOCK FALSE
