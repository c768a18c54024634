SPECIFICATION Spec
CONSTANTS
  p1 = p1
  d1 = d1
  d2 = d2
  Receiver = Receiver
  Bitcoin = Bitcoin
  Poller = {p1}
  Dispatcher = {d1, d2}
  Expected = 2
  PaymentWindow = 1
  MaxAmount = 2
  MaxMoves = 2
  MaxFaults = 1
  BatchSize = 2
  MaxAttempts = 2
  MaxDeaths = 1
  MaxEvents = 3
  Idle = Idle
  ObserverError = ObserverError
PROPERTIES MerchantLearnsTheOutcome
