CONSTANTS
  f1 = f1
  f2 = f2
  n1 = n1
  r1 = r1
  r2 = r2
  NoFile = NoFile
  NoPass = NoPass
  Files = {f1}
  Names = {n1}
  NameOf <- OneNameOf
  Records = {r1, r2}
  FileOf <- OneFileOf
  Oversize = {r2}
  Passes = {p1, p2}
  Requests = {q1}
  RetryCap = 2
  MaxFaults = 1
SPECIFICATION Spec
SYMMETRY PassSymmetry
INVARIANTS
  TypeOK
  InHandIsSendable
  RetryCapRespected
  DuplicateNeedsLostAnswer
  SentIsDelivered
  ArchivedIsSettled
  SuccessLeavesNothingPending
PROPERTIES
  LedgerSpec
