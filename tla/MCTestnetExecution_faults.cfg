\* One worker, with crashes and every kind of error.
SPECIFICATION Spec
CONSTANTS
  Payments = {p1, p2, p3}
  NoPayment = NoPayment
  OverLimit = {p3}
  Handlers = {h1}
  Reconcilers = {r1}
  HandlersTimeOut = TRUE
  MaxSigns = 2
  Faulty = {"crash", "db", "quote", "send", "evict", "unequipped"}
  MaxFaults = 2
SYMMETRY Symmetry
INVARIANTS
  TypeOK
  RecordedIsSent
  OutcomeMatchesChain
  ObservationApplies
PROPERTIES
  RefinesLifecycle
CHECK_DEADLOCK FALSE
