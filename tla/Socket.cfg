SPECIFICATION Spec
CONSTANTS
  Timeouts = {0, 2, 4, 9}
  Millis = 2
  IntMax = 7
  MaxLate = 1
  MaxUnits = 4
INVARIANTS
  TypeOK
  TimeoutNotEarly
  ClearStaysOutside
  TlsTornDown
PROPERTIES
  ReadEnds
  GoneClientEnds
CHECK_DEADLOCK FALSE
