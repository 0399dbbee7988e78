SPECIFICATION HostSpec
CONSTANTS
  p1 = p1  p2 = p2
  Proc = {p1, p2}
  Provider = {"v1"}
  Offers <- FewOffers
  MaxCalls = 3
  MaxKills = 2
  MaxFailures = 1
INVARIANTS SucceededIsApplied SettingsAreSerial InterruptedHadNoEffect
PROPERTIES NoEffectAfterResult
SYMMETRY Procs
CHECK_DEADLOCK FALSE
