SPECIFICATION FairSpec
CONSTANTS
  NumCalls = 2
  Path = {"a", "b"}
  Intent <- FewIntents
  Permits = {1, 2}
  MaxKills = 2
  MaxFaults = 1
INVARIANTS NoConflictingBodies RunsAtMostOnce StuckBodyIsReported
PROPERTIES ReplayAccepts NothingStartsAfterUncertainty BatchEnds
CHECK_DEADLOCK FALSE
