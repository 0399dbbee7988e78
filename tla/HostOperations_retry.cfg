SPECIFICATION HostSpec
CONSTANTS
  p1 = p1  p2 = p2
  Proc = {p1}
  Provider = {"v1"}
  Offers <- FewOffers
  MaxCalls = 2
  MaxKills = 1
  MaxFailures = 1
INVARIANTS RetryIsNotRefused
CHECK_DEADLOCK FALSE
