SPECIFICATION Spec
CONSTANTS
  Calls = {c1, c2, c3, c4}
  Buckets = {b1, b2}
  Upstreams = {u1, u2}
  Never = never
  Limit = 2
  Window = 3
  Threshold = 2
  OpenFor = 2
  Span = 1
  MaxTime = 3
SYMMETRY Symmetry
INVARIANTS
  TypeOK
  JustifiedOpen
  NothingSentWhileOpen
  OutageEnds
PROPERTY
  KeepsLimit
CHECK_DEADLOCK FALSE
