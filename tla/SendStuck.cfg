CONSTANTS
  a1 = a1
  a2 = a2
  a3 = a3
  Accounts <- MCAccounts
  Name <- MCDistinct
  Related <- MCUnrelated
  Surface <- MCSurface
  Recipients <- MCRecipients
  Executions = 1
  Lines = 1
  PageFaults = FALSE
  DataFaults = TRUE
  Crashes = FALSE
SPECIFICATION Spec
INVARIANTS
  CampaignEndsWithJob
CHECK_DEADLOCK FALSE
