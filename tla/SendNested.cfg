CONSTANTS
  a1 = a1
  a2 = a2
  a3 = a3
  Accounts <- MCAccounts
  Name <- MCNested
  Related <- MCUnrelated
  Surface <- MCSurface
  Recipients <- MCRecipients
  Executions = 1
  Lines = 1
  PageFaults = FALSE
  DataFaults = FALSE
  Crashes = FALSE
SPECIFICATION Spec
INVARIANTS
  OnlyRecipientsAreWritten
CHECK_DEADLOCK FALSE
