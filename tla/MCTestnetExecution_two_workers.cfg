\* A rolling deployment: two workers.
SPECIFICATION Spec
CONSTANTS
  Payments = {p1, p2}
  NoPayment = NoPayment
  OverLimit = {}
  Handlers = {h1}
  Reconcilers = {r1, r2}
  HandlersTimeOut = TRUE
  MaxSigns = 2
  Faulty = {"quote"}
  MaxFaults = 1
SYMMETRY Symmetry
INVARIANTS
  NoncesDense
  PaidOnce
CHECK_DEADLOCK FALSE
