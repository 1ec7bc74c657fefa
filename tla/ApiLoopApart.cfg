CONSTANTS
  api = api
  worker = worker
  other = other
  a1 = a1
  a2 = a2
  v = v
  k = k
  n = n
  o = o
  row1 = row1
  row2 = row2
  row3 = row3
  row4 = row4
  None = None
  Processes = {api, worker, other}
  Rows = {row1, row2, row3, row4}
  ProcessOf <- MCProcess
  Handlers = {a1, a2}
  Scopes = {v, k, n, o}
  RowOf <- MCApart
SPECIFICATION FairSpec
INVARIANTS
  WaitsEnd
PROPERTIES
  EveryRequestIsAnswered
