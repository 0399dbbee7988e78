SPECIFICATION FairSpec
CONSTANTS
  N = 2
  Existed = {2}
  CrashPoints <- Everywhere
  FaultPoints <- Everywhere
  MaxEdits = 2
  MaxCrashes = 2
  MaxFaults = 1
INVARIANTS NeverTorn OutcomeTruthful
PROPERTIES ExternalBytesSurvive JournalSettled
