SPECIFICATION Spec
CONSTANTS
  Calls = {c1, c2}
  Jobs = {j1, j2}
  Homeowners = {h1, h2}
  Blank = blank
SYMMETRY Symmetry
INVARIANTS
  TypeOK
  CancelledIsTrue
  RetrySettles
  StatusIsCurrent
  OwnJobsOnly
  NotFoundIsTrue
CHECK_DEADLOCK FALSE
