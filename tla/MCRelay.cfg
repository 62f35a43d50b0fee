\* Two calls from one or two addresses under every gate, with one restart.
SPECIFICATION Spec
CONSTANTS
  r1 = r1  r2 = r2  ip1 = ip1  ip2 = ip2  c1 = c1  c2 = c2  x1 = x1  v1 = v1  v2 = v2
  None = None
  Requests = {r1, r2}
  Clients = {ip1, ip2}
  Listed = {c1, c2}
  Unlisted = {x1}
  Commitments = {v1, v2}
  Gates <- MCAllGates
  MaxCalls = 1
  MaxRestarts = 1
SYMMETRY MCSymmetry
INVARIANTS OneSignupPerAccount MarkedMeansSubmitted GateKept
CHECK_DEADLOCK FALSE
