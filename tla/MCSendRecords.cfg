CONSTANTS
  r1 = r1
  r2 = r2
  r3 = r3
  r4 = r4
  Order <- FourRecords
  Oversize = {r2}
  Answers <- AnyAnswer
  RetryCap = 1
  Concurrency = 2
  Threshold = 3
SPECIFICATION FairSpec
CHECK_DEADLOCK FALSE
INVARIANTS
  OutageIsBounded
  EndWithoutAbortIsComplete
  AtMostTwoAuths
  CountsAreTrue
PROPERTIES
  ResendOnlyStale
  StageSteps
  StageEnds
