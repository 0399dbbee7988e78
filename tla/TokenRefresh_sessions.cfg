SPECIFICATION FairSpec
CONSTANTS
  s1 = s1  s2 = s2  c1 = c1  c2 = c2  c3 = c3
  None = None
  Sessions = {s1, s2}  Calls = {c1, c2, c3}  Signalled = {c1}
  Home <- HomeOf
  MaxTokens = 3
INVARIANTS OneRequestPerToken ChoiceStands NobodyElseAborted SlotsAreLive
PROPERTIES CallReturns
CHECK_DEADLOCK FALSE
