CONSTANTS
  Notable = Notable
  Benign = Benign
  SessionErr = SessionErr
  OtherErr = OtherErr
  None = None
SPECIFICATION ResponseSpec
CHECK_DEADLOCK FALSE
INVARIANTS
  VerdictIsBureauResult
  DataLossIsSignalled
  QuietMeansClean
  SettledOnlyByState
