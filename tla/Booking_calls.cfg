SPECIFICATION MCSpec
CONSTANTS
  r1 = r1
  r2 = r2
  i1 = i1
  i2 = i2
  i3 = i3
  i4 = i4
  Requests = {r1, r2}
  Keys = {k1}
  NoKey = NoKey
  NoJob = NoJob
  NoValue = NoValue
  Instances = {i1, i2, i3, i4}
  Table = Table
  Durable = {i1, i2}
  Strict = {i4}
  TTL = 3
  Span = 1
  Horizon = 1
  MaxTime = 3
INVARIANTS
  TypeOK
  AtMostOneSubmission
  ReplayNamesTheBooking
  MemoryNeedsRefusal
PROPERTIES
  CompletedStays
  EveryCallEnds
  KeepsPromise
CHECK_DEADLOCK FALSE
