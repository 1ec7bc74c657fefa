CONSTANTS
  ws1 = ws1
  ws2 = ws2
  w1 = w1
  w2 = w2
  r1 = r1
  r2 = r2
  c1 = c1
  None = None
  Workspaces = {ws1}
  Workers = {w1}
  Requests = {r1}
  Campaigns = {}
  CampaignHome <- MCHome
  MaxJobs = 1
  RenewalMayFail = FALSE
SPECIFICATION Spec
INVARIANTS
  CancellationsAreRecorded
