SPECIFICATION FairSpec
CONSTANTS
  Sessions = {s1}
  Exchanges = {x1, x2, x3}
  Calls = {c1}
  NoSession = NoSession
  NoValue = NoValue
  CodeTTL = 1
  SessionTTL = 5
  AccessTTL = 2
  UpstreamTTL = 1
  Span = 1
  MaxTime = 5
INVARIANTS
  TypeOK
  OneRefreshRight
  OneRefreshInFlight
  ReuseNeedsWriteBack
  SessionOutlivesAccess
  AccessWithinUpstream
PROPERTIES
  LostIsFinal
  EveryExchangeEnds
  KeepsLineage
CHECK_DEADLOCK FALSE
