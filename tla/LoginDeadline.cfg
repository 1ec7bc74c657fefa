CONSTANTS
  w1 = w1
  w2 = w2
  r1 = r1
  r2 = r2
  r3 = r3
  Workspaces = {w1}
  Requests = {r1, r2, r3}
  FaultSets = {{}}
SPECIFICATION Spec
PROPERTIES
  OnlyUsersDisconnect
CHECK_DEADLOCK FALSE
