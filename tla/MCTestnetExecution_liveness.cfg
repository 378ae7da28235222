\* The node fails now and then; every claimed payment still ends.
SPECIFICATION FairSpec
CONSTANTS
  Payments = {p1, p2}
  NoPayment = NoPayment
  OverLimit = {}
  Handlers = {h1}
  Reconcilers = {r1}
  HandlersTimeOut = TRUE
  MaxSigns = 2
  Faulty = {"send", "unequipped"}
  MaxFaults = 2
PROPERTIES
  ProcessingEventuallyTerminal
CHECK_DEADLOCK FALSE
