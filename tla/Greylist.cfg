SPECIFICATION Spec
CONSTANTS
  Workers = {p1, p2}
  Triples = {t1}
  Modes = {TRUE, FALSE}
  Quarantine = 1
  InvalidExpiry = 2
  ValidExpiry = 3
  MaxSeen = 3
  IntMax = 31
  Epoch = 0
  MaxTime = 5
SYMMETRY Symmetry
INVARIANTS
  TypeOK
  QuarantineServed
  RetryGetsThrough
  OneRowPerTriple
