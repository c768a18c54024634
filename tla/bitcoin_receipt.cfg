SPECIFICATION Spec
CONSTANTS
  t1 = t1
  t2 = t2
  t3 = t3
  Tx = {t1, t2, t3}
  Amount <- Distinct
  Conflicting <- DoubleSpend
  RequiredConfirmations = 2
  PageSize = 1
  MaxReorg = 1
  MaxHeight = 3
  EarlyBlocks = 2
  NoTx = NoTx
  Receiver = Receiver
  Cycle = Cycle
  Bitcoin = Bitcoin
  Expected = 3
  PaymentWindow = 1
  MaxFaults = 1
  Idle = Idle
  ObserverError = ObserverError
INVARIANTS TypeOK SteadyPaymentsAreCounted ReportIsPayable ConfirmedStaysMined
PROPERTIES RestingPaymentIsPaid PaidIsConfirmedInTheEnd
