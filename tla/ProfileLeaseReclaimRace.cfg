CONSTANTS
  api = api
  worker = worker
  None = None
  Agents = {api, worker}
  Supervised = {api, worker}
  MaxIncarnations = 2
SPECIFICATION Spec
INVARIANTS
  OneProfileOwner
