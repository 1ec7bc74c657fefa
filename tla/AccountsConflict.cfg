CONSTANTS
  Requests = {r1, r2}
  Emails = {e1, e2}
  Names <- MCNames
  DbFails = FALSE
SPECIFICATION Spec
INVARIANTS
  ConflictsAreExplained
CHECK_DEADLOCK FALSE
