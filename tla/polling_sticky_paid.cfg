SPECIFICATION Spec
CONSTANTS
  a1 = a1
  a2 = a2
  w1 = w1
  w2 = w2
  w3 = w3
  n1 = n1
  n2 = n2
  Network = {n1, n2}
  Address = {a1}
  Poller = {w1, w2, w3}
  NetworkOf <- OnFirst
  Scope <- OneApart
  Reach <- OneApart
  ExpectedAmount <- ExpectedTwo
  BatchSize = 1
  ClaimTTL = 1
  RescheduleInterval = 1
  PaymentWindow = 1
  MayOverrunLease = TRUE
  MaxAmount = 2
  MaxMoves = 3
  MaxFaults = 1
  Idle = Idle
  ObserverError = ObserverError
PROPERTIES PaidIsSticky
