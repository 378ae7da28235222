\* Three concurrent requests under one key over a pool of two connections.
CONSTANTS
  r1 = r1
  r2 = r2
  r3 = r3
  k1 = k1
  across = across
  relay = relay
  hopline = hopline
  NoBridge = NoBridge
  NoPayment = NoPayment
  Requests <- MCRequests
  Keys <- MCKeys
  Bodies <- MCBodies
  Malformed <- MCMalformed
  TestnetTrips = {"base-eth"}
  MaxTestnetAmount = 1
  Providers <- MCProviders
  Fees = {2, 3, 5}
  FloatStep = 2
  SimBridges = {hopline}
  MaxOpenConns = 2
  MaxFaults = 1
SPECIFICATION Spec
INVARIANTS
  TypeOK
  OnePaymentPerKey
  ConflictIsReal
  RetryNeedsNoRouting
  PaymentIsComplete
  SelectedQuoteExecutes
  NobodyStalls
CHECK_DEADLOCK FALSE
SYMMETRY RequestSymmetry
