CONSTANTS
  f1 = f1
  f2 = f2
  n1 = n1
  r1 = r1
  r2 = r2
  NoFile = NoFile
  NoPass = NoPass
  Files = {f1, f2}
  Names = {n1}
  NameOf <- VersionsNameOf
  Records = {r1, r2}
  FileOf <- VersionsFileOf
  Oversize = {r2}
  Passes = {p1}
  Requests = {}
  RetryCap = 1
  MaxFaults = 1
SPECIFICATION FairSpec
INVARIANTS
  NoFileLost
PROPERTY EveryFileCompletes
