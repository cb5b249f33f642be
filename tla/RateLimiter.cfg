SPECIFICATION Spec
CONSTANTS
  Buckets = {b1, b2, b3}
  Threads = {h1, h2}
  Limit = 2
  Window = 2
  MaxEntries = 1
  Interval = 2
  MaxDelay = 1
  MaxTime = 4
  Watched = b1
  Untracked = Untracked
  b1 = b1
  b2 = b2
  b3 = b3
  h1 = h1
  h2 = h2
INVARIANTS
  TypeOK
  BudgetHolds
PROPERTIES
  RefusedOnlyOverLimit
SYMMETRY LimiterSymmetry
CHECK_DEADLOCK FALSE
