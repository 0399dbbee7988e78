SPECIFICATION Spec
CONSTANTS
  N = 2
  Existed = {1}
  CrashPoints <- RetirePoints
  FaultPoints = {}
  MaxEdits = 0
  MaxCrashes = 2
  MaxFaults = 0
INVARIANTS ConflictNeedsEdit
