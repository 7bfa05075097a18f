CONSTANTS
  r1 = r1
  r2 = r2
  r3 = r3
  r4 = r4
  Order <- ThreeRecords
  Oversize = {r2}
  Answers <- NoOutage
  RetryCap = 1
  Concurrency = 2
  Threshold = 2
SPECIFICATION Spec
CHECK_DEADLOCK FALSE
INVARIANT StaleSessionIsRefreshed
