\* A crash between recording an outcome and settling the payment.
SPECIFICATION Spec
CONSTANTS
  Payments = {p1, p2}
  NoPayment = NoPayment
  OverLimit = {}
  Handlers = {h1}
  Reconcilers = {r1}
  HandlersTimeOut = TRUE
  MaxSigns = 2
  Faulty = {"crash"}
  MaxFaults = 1
SYMMETRY Symmetry
INVARIANTS
  NoSettlementLost
CHECK_DEADLOCK FALSE
