SPECIFICATION Spec
CONSTANTS
  p1 = p1  p2 = p2
  Proc = {p1, p2}
  Mass = {1, 2}
  Fraction = 50
  MaxAttempts = 2
  Background = FALSE
  MaxTurns = 2
  MaxResets = 1
  MaxAsked = 1
  MaxKills = 1
INVARIANTS LostNeverSuppresses

