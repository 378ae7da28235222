\* Two publishers, two consumers, crashes, retried and failed publishes; equal
\* created_at values leave the order of the rows open.
CONSTANTS
  p1 = p1
  p2 = p2
  Payments = {p1, p2}
  NoPayment = NoPayment
  Execute <- MCExecuteAlike
  NumPartitions = 1
  PartitionOf <- MCPartitionOf
  Publishers = {w1, w2}
  Consumers = {c1, c2}
  MaxCreatedAt = 1
  Faulty = {"crash", "rebalance", "produce", "publish", "claim"}
  MaxFaults = 2
SPECIFICATION Spec
INVARIANTS TypeOK ExclusiveClaim OutboxKafkaAgreement DuplicatesNeedFaults
SYMMETRY Symmetry
CHECK_DEADLOCK FALSE
