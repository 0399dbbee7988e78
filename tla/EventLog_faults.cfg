SPECIFICATION Spec
CONSTANTS
  Proc = {p1, p2}
  NoProc = NoProc
  MaxEvents = 3
  MaxKills = 2
  MaxPowerLoss = 1
  MaxFaults = 2
SYMMETRY Interchangeable
INVARIANTS AckedSurvive AckedSessionOpens
PROPERTIES DurableBytesKept IsAppendOnlyLog
