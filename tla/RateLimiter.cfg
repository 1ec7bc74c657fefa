CONSTANTS
  login = login
  register = register
  closed = closed
  Buckets <- MCBuckets
  Limit <- MCLimit
  Window = 2
  Horizon = 5
SPECIFICATION Spec
INVARIANTS
  WindowIsLimited
  RefusedOnlyWhenFull
