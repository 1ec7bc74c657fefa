CONSTANTS
  a1 = a1
  a2 = a2
  a3 = a3
  Accounts <- MCAccounts
  Name <- MCDistinct
  Related <- MCUnrelated
  Surface <- MCSurface
  Recipients <- MCRecipients
  Executions = 1
  Lines = 2
  PageFaults = FALSE
  DataFaults = FALSE
  Crashes = FALSE
SPECIFICATION Spec
INVARIANTS
  OncePerExecution
CHECK_DEADLOCK FALSE
