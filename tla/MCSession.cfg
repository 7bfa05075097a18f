CONSTANTS
  Sessions <- FiveSessions
  None = None
  MaxDay = 1
  MaxFaults = 1
SPECIFICATION Spec
INVARIANTS
  OldSessionNeedsMidnight
  AuthNeedsReason
  RefusedSessionIsReplaced
