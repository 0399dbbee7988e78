SPECIFICATION Spec
CONSTANTS
  N = 2
  Existed = {1}
  CrashPoints <- CommitPoints
  FaultPoints = {}
  MaxEdits = 1
  MaxCrashes = 0
  MaxFaults = 0
PROPERTIES ExternalBytesUntouched
