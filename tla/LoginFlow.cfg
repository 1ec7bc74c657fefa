CONSTANTS
  w1 = w1
  w2 = w2
  r1 = r1
  r2 = r2
  r3 = r3
  Workspaces = {w1, w2}
  Requests = {r1, r2}
  FaultSets = {{}, {"runtime", "restart"}, {"runtime", "database", "new page", "restart"}}
SPECIFICATION FairSpec
INVARIANTS
  LoginLeaseFollowsBrowser
  LoginBrowserIsWatched
  AuthenticatedReleasesProfile
  QrWaitIsWatched
PROPERTIES
  PollsKeepLogin
  LoginBrowserCloses
  QrWaitEnds
  RequestsAreAnswered
CHECK_DEADLOCK FALSE
