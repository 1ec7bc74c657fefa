CONSTANTS
  a1 = a1
  a2 = a2
  a3 = a3
  Accounts <- MCAccounts
  Name <- MCDistinct
  Related <- MCUnrelated
  Surface <- MCSurface
  Recipients <- MCRecipients
  Executions = 2
  Lines = 1
  PageFaults = FALSE
  DataFaults = FALSE
  Crashes = TRUE
SPECIFICATION Spec
INVARIANTS
  NoDuplicateSends
CHECK_DEADLOCK FALSE
