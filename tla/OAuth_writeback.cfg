SPECIFICATION Spec
CONSTANTS
  Sessions = {s1}
  Exchanges = {x1, x2, x3}
  Calls = {c1}
  NoSession = NoSession
  NoValue = NoValue
  CodeTTL = 1
  SessionTTL = 4
  AccessTTL = 2
  UpstreamTTL = 3
  Span = 1
  MaxTime = 5
SYMMETRY Symmetry
INVARIANT
  RotatedTokenNotReused
CHECK_DEADLOCK FALSE
