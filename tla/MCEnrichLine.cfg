CONSTANTS
  u1 = u1
  u2 = u2
  d1 = d1
  d2 = d2
  a = a
  b = b
  x = x
  y = y
  Unsupported = Unsupported
  None = None
  Users = {u1, u2}
  Dlrefs = {d1, d2}
  Inns = {a, b}
  Numbers = {x, y}
  Scenes <- BothScenes
SPECIFICATION Spec
CHECK_DEADLOCK FALSE
INVARIANTS
  RightClient
  SoundLineIsEnriched
  IssuerIsOfThisDocument
  CompleteSourceWins
  PeerCountIsHonest
