\* A provider error after the nonce is allocated, then expiry.
SPECIFICATION Spec
CONSTANTS
  Payments = {p1, p2}
  NoPayment = NoPayment
  OverLimit = {}
  Handlers = {h1}
  Reconcilers = {r1}
  HandlersTimeOut = TRUE
  MaxSigns = 2
  Faulty = {"quote"}
  MaxFaults = 1
SYMMETRY Symmetry
INVARIANTS
  FailedHoldsNoNonce
CHECK_DEADLOCK FALSE
