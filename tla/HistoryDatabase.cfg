SPECIFICATION Spec
CONSTANTS
  MaxEvents = 5
  MaxCalls = 2
  MaxRebuilds = 1
  MaxKills = 1
  MaxLosses = 1
INVARIANTS DerivedIsReplay ArtifactKept PagesAreSnapshot
CHECK_DEADLOCK FALSE
