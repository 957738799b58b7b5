SPECIFICATION Spec
CONSTANTS
  r1 = r1
  r2 = r2
  i1 = i1
  i2 = i2
  i3 = i3
  i4 = i4
  Requests = {r1, r2, r3}
  Keys = {k1}
  NoKey = NoKey
  NoJob = NoJob
  NoValue = NoValue
  Instances = {i1}
  Table = Table
  Durable = {i1}
  Strict = {}
  TTL = 2
  Span = 1
  Horizon = 3
  MaxTime = 3
INVARIANT
  OneWorkerPerKey
CHECK_DEADLOCK FALSE
