CONSTANTS
  Workers = {w1, w2}
  Rate = 2
  Interval = 2
  MaxDelay = 5
  MaxTime = 9
SPECIFICATION Spec
SYMMETRY Symmetry
CHECK_DEADLOCK FALSE
INVARIANTS
  PacedUpToDelay
