\* One publisher and one consumer (the defaults), ClaimPayment never fails.
CONSTANTS
  p1 = p1
  p2 = p2
  Payments = {p1, p2}
  NoPayment = NoPayment
  Execute <- MCExecute
  NumPartitions = 2
  PartitionOf <- MCPartitionOf
  Publishers = {w1}
  Consumers = {c1}
  MaxCreatedAt = 2
  Faulty = {"crash", "rebalance", "produce", "publish", "complete", "commit"}
  MaxFaults = 2
SPECIFICATION FairSpec
INVARIANTS CommitAfterSuccess NoPaymentStranded
PROPERTIES RoutedEventuallyTerminal RefinesLifecycle
CHECK_DEADLOCK FALSE
