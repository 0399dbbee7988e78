SPECIFICATION Spec
CONSTANTS
  Proc = {p1}
  NoProc = NoProc
  MaxEvents = 1
  MaxKills = 1
  MaxPowerLoss = 0
  MaxFaults = 0
INVARIANTS ReportedIsDurable
