SPECIFICATION ReceiptSpec
CONSTANTS
  RequiredConfirmations = 2
  MaxReorg = 1
  MaxHeight = 5
  MaxBalance = 2
  Receiver = Receiver
  Cycle = Cycle
  Ethereum = Ethereum
  Expected = 2
  PaymentWindow = 1
  MaxFaults = 1
  Idle = Idle
  ObserverError = ObserverError
INVARIANTS ConfirmedStays ReportIsOneChain
PROPERTIES OnlySweepsUnpay UnsweptPaymentIsConfirmed
