CONSTANTS
  ws1 = ws1
  ws2 = ws2
  w1 = w1
  w2 = w2
  r1 = r1
  r2 = r2
  c1 = c1
  None = None
  Workspaces = {ws1}
  Workers = {w1, w2}
  Requests = {r1}
  Campaigns = {c1}
  CampaignHome <- MCHome
  MaxJobs = 2
  RenewalMayFail = FALSE
SPECIFICATION FairSpec
INVARIANTS
  CampaignFollowsItsJob
  EndedJobsHaveStopped
  OneBrowserJobPerWorkspace
PROPERTIES
  OutcomeIsFinal
  SubmittedJobsEnd
