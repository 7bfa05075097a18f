CONSTANTS
  Files <- TwoFiles
  RetryCap = 2
  MinAge = 1
  MaxPass = 1
  StaleAfter = 2
  Window = 3
  MaxRejected = 50
  None = None
  MaxTime = 5
SPECIFICATION Spec
CHECK_DEADLOCK FALSE
INVARIANTS
  HealthyLeavesNothingWaiting
  SilenceMeansAllIsWell
