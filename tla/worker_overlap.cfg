SPECIFICATION Spec
CONSTANTS
  j1 = j1
  j2 = j2
  j3 = j3
  c1 = c1
  c2 = c2
  Job = {j1, j2, j3}
  Dispatching = {j1, j2}
  Observing = {}
  Client = {c1}
  MaxCalls = 2
  MaxFaults = 0
  NoClient = NoClient
  Nobody = Nobody
CHECK_DEADLOCK FALSE
INVARIANTS BridgeIsScoped
