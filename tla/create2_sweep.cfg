SPECIFICATION Spec
CONSTANTS
  r1 = r1
  r2 = r2
  r3 = r3
  f1 = f1
  f2 = f2
  c1 = c1
  c2 = c2
  k1 = k1
  k2 = k2
  eth = eth
  usdt = usdt
  o1 = o1
  Row = {r1, r2, r3}
  Factory = {f1, f2}
  Code = {c1, c2}
  Collector = {k1, k2}
  CollectorOf <- Collectors
  Asset = {eth, usdt}
  AssetOf <- Assets
  Operator = {o1}
  MaxBatch = 2
  MaxPaid <- Payments
  NoMaterial = NoMaterial
  Idle = Idle
SYMMETRY Symmetric
INVARIANTS TypeOK PaymentsAreRecoverable NothingIsLost
PROPERTIES SuccessMeansSwept
CHECK_DEADLOCK FALSE
