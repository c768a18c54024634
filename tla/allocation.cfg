SPECIFICATION FairSpec
CONSTANTS
  r1 = r1
  r2 = r2
  r3 = r3
  r4 = r4
  k1 = k1
  p1 = p1
  p2 = p2
  five = five
  six = six
  NoKey = NoKey
  NoRow = NoRow
  NoRecord = NoRecord
  NoAddress = NoAddress
  Request = {r1, r2, r3, r4}
  Key = {k1}
  Policy = {p1, p2}
  Payload = {five, six}
  Ask <- RetriesAndMisuse
  Address <- Pair
  AddressOf <- InPairs
  Inherited <- FailedSlot
  MaxId = 5
  MaxSlot = 0
CHECK_DEADLOCK FALSE
INVARIANTS TypeOK SlotsAreDense IssuedIsTracked OneAddressPerKey RefusalsAreTrue
PROPERTIES IssuedIsFinal IssuanceSpec EveryRequestIsAnswered
