SPECIFICATION Spec
CONSTANTS
  N = 3
  Existed = {1, 3}
  CrashPoints <- CommitPoints
  FaultPoints <- CommitFaults
  MaxEdits = 0
  MaxCrashes = 3
  MaxFaults = 2
INVARIANTS TypeOK NeverTorn TornHasBeforeImage ConflictNeedsEdit
