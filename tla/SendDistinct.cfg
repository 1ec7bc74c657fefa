CONSTANTS
  a1 = a1
  a2 = a2
  a3 = a3
  Accounts <- MCAccounts
  Name <- MCDistinct
  Related <- MCRelated
  Surface <- MCSurface
  Recipients <- MCRecipients
  Executions = 2
  Lines = 1
  PageFaults = TRUE
  DataFaults = TRUE
  Crashes = TRUE
SPECIFICATION FairSpec
INVARIANTS
  OnlyRecipientsAreWritten
  SentMeansDelivered
  OncePerExecution
  StoredTotalsAddUp
  ProgressIsSound
PROPERTIES
  CampaignsEndWithTheirJobs
  JobsEnd
CHECK_DEADLOCK FALSE
