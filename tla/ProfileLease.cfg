CONSTANTS
  api = api
  worker = worker
  None = None
  Agents = {api, worker}
  Supervised = {api, worker}
  MaxIncarnations = 3
SPECIFICATION FairSpec
PROPERTIES
  UndisturbedReclaimsAreSafe
  LocksOfTheLivingStay
  ActsAsLock
  OrphansAreReclaimed
