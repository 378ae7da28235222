\* Two consumer goroutines and one crash of the worker.
CONSTANTS
  p1 = p1
  p2 = p2
  Payments = {p1, p2}
  NoPayment = NoPayment
  Execute <- MCExecute
  NumPartitions = 2
  PartitionOf <- MCPartitionOf
  Publishers = {w1}
  Consumers = {c1, c2}
  MaxCreatedAt = 1
  Faulty = {"crash"}
  MaxFaults = 1
SPECIFICATION Spec
INVARIANT NoPaymentStranded
CHECK_DEADLOCK FALSE
