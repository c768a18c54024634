SPECIFICATION Spec
CONSTANTS
  a1 = a1
  a2 = a2
  w1 = w1
  w2 = w2
  w3 = w3
  n1 = n1
  n2 = n2
  Network = {n1, n2}
  Address = {a1, a2}
  Poller = {w1, w2}
  NetworkOf <- OnePerNetwork
  Scope <- EveryNetwork
  Reach <- SecondReachesFirst
  ExpectedAmount <- ExpectedOfTwo
  BatchSize = 2
  ClaimTTL = 2
  RescheduleInterval = 1
  PaymentWindow = 1
  MayOverrunLease = FALSE
  MaxAmount = 2
  MaxMoves = 2
  MaxFaults = 2
  Idle = Idle
  ObserverError = ObserverError
INVARIANTS TypeOK SnapshotsAreCurrent
PROPERTIES LifecycleSpec
