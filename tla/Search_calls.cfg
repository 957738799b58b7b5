SPECIFICATION MCSpec
CONSTANTS
  c1 = c1
  c2 = c2
  p1 = p1
  p2 = p2
  p3 = p3
  Calls = {c1, c2}
  Zips = {z1}
  Texts = {t1}
  Cities = {"sacramento, ca", "fresno, ca"}
  NoCity = nocity
  CityOf <- MCCityOf
  StateOf <- MCStateOf
  Queries = {"carpet cleaning", "ac"}
  Stems <- MCStems
  Providers = {p1, p2, p3}
  Areas <- MCAreas
  Trades <- MCTrades
  Contains <- MCContains
  Replies <- MCReplies
  Limit = 1
  TTL = 1
  Span = 1
  MaxTime = 4
INVARIANTS
  TypeOK
  AnswersAreRecent
  NoMatchIsWithheld
PROPERTIES
  FreshStays
  EverySearchEnds
CHECK_DEADLOCK FALSE
