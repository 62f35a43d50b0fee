\* Every gate, with a metadata read that may fail.
SPECIFICATION Spec
CONSTANTS
  r1 = r1  r2 = r2  ip1 = ip1  ip2 = ip2  c1 = c1  c2 = c2  x1 = x1  v1 = v1  v2 = v2
  None = None
  Requests = {r1}
  Clients = {ip1}
  Listed = {c1}
  Unlisted = {x1}
  Commitments = {v1}
  Gates <- MCAllGates
  MaxCalls = 16
  MaxRestarts = 0
INVARIANTS GateEnforced
CHECK_DEADLOCK FALSE
