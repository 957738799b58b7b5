SPECIFICATION Spec
CONSTANTS
  c1 = c1
  c2 = c2
  p1 = p1
  p2 = p2
  p3 = p3
  Calls = {c1}
  Zips = {z1}
  Texts = {t1}
  Cities = {"sacramento, ca"}
  NoCity = nocity
  CityOf <- MCCityOf
  StateOf <- MCStateOf
  Queries = {"ac"}
  Stems <- MCStems
  Providers = {p2}
  Areas <- MCAreas
  Trades <- MCTrades
  Contains <- MCContains
  Replies <- MCFarReplies
  Limit = 1
  TTL = 1
  Span = 1
  MaxTime = 4
INVARIANTS
  CityIsAuthoritative
CHECK_DEADLOCK FALSE
