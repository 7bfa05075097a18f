CONSTANTS
  Months = 5
  LastDay <- WinterMonths
  MaxStep = 92
  MaxSlices = 4
  None = None
  Malformed = Malformed
  Code = "2091"
  Scenes <- BothScenes
SPECIFICATION Spec
CHECK_DEADLOCK FALSE
INVARIANTS
  SoundInputIsProcessed
  ChainIsUnbroken
  OverdueGrowsByTheMonth
  ChainBreaksNoRule
  EveryStuckSubjectIsWritten
