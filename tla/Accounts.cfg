CONSTANTS
  Requests = {r1, r2, r3, r4}
  Emails = {e1, e2}
  Names <- MCNames
  DbFails = TRUE
SPECIFICATION Spec
INVARIANTS
  IdentitiesAreUnique
  SessionsStayInTenancy
  LoggedOutIsRefused
SYMMETRY MCSymmetry
CHECK_DEADLOCK FALSE
