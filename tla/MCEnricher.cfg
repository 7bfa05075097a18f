CONSTANTS
  f1 = f1
  f2 = f2
  n1 = n1
  l1 = l1
  l2 = l2
  NoRow = NoRow
  Nothing = Nothing
  NoRun = NoRun
  Raws = {f1, f2}
  Names = {n1}
  NameOf <- TwoNameOf
  Lines = {l1, l2}
  RawOf <- TwoRawOf
  Fragile = {f2}
  Volatile = {l1}
  Rows = {a}
  Runs = {e1, e2}
  MaxFaults = 1
SPECIFICATION FairSpec
INVARIANT TwiceOnlyIfInterrupted
PROPERTIES
  DeliverySpec
  EveryRawIsEnriched
