SPECIFICATION Spec
CONSTANTS
  NumCalls = 1
  Path = {"a"}
  Intent <- Mutations
  Permits = {1}
  MaxKills = 1
  MaxFaults = 0
PROPERTIES UnresolvedIsReadOnly
CHECK_DEADLOCK FALSE
