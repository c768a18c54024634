SPECIFICATION FairSpec
CONSTANTS
  j1 = j1
  j2 = j2
  j3 = j3
  c1 = c1
  c2 = c2
  Job = {j1, j2, j3}
  Dispatching = {j1}
  Observing = {j2}
  Client = {c1, c2}
  MaxCalls = 2
  MaxFaults = 1
  NoClient = NoClient
  Nobody = Nobody
CHECK_DEADLOCK FALSE
INVARIANTS TypeOK ClientsAreApart BridgeIsScoped
PROPERTIES EveryJobEnds
