SPECIFICATION Spec
CONSTANTS
  MaxEvents = 4
  MaxCalls = 2
  MaxRebuilds = 1
  MaxKills = 1
  MaxLosses = 1
INVARIANT SearchesTheLog
CHECK_DEADLOCK FALSE
