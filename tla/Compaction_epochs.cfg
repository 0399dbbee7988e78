SPECIFICATION FairSpec
CONSTANTS
  p1 = p1  p2 = p2
  Proc = {p1, p2}
  Mass = {1}
  Fraction = 60
  MaxAttempts = 2
  Background = TRUE
  MaxTurns = 2
  MaxResets = 1
  MaxAsked = 1
  MaxKills = 1
INVARIANTS OneAttemptOpen OneOutcome FailuresNeedNewTurns
PROPERTIES RetiresOldest AdmissionSettles
