SPECIFICATION HostSpec
CONSTANTS
  p1 = p1  p2 = p2
  Proc = {p1, p2}
  Provider = {"v1"}
  Offers <- FewOffers
  MaxCalls = 2
  MaxKills = 0
  MaxFailures = 0
PROPERTIES ResultIsFinal
CHECK_DEADLOCK FALSE
