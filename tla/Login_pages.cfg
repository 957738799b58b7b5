SPECIFICATION MCSpec
CONSTANTS
  NoValue = none
  g = g
  static = static
  r1 = r1
  r2 = r2
  r3 = r3
  x1 = x1
  x2 = x2
  Regs = {g}
  Uris <- MCUris
  Static = static
  Allowed = {"home", "away"}
  Params <- MCParams
  Requests = {r1, r2, r3}
  Exchanges = {x1, x2}
  Phones = {h1}
  NoOtp = nootp
  ClientTTL = 2
  CodeTTL = 1
  MaxTime = 3
INVARIANTS
  TypeOK
  RegisteredRedirects
  OneLoginPerOtp
  ErrorPageLeavesNothing
  TokensToTheBeginner
PROPERTIES
  EveryLoginEnds
  KeepsOneTime
CHECK_DEADLOCK FALSE
