SPECIFICATION SagaSpec
CONSTANTS
  Payments = {p1}
  WalletCalls = {c1}
  Webhooks = {}
  Users = {u1}
  NoUser = nouser
  NoPayment = nopayment
  Amounts = {1, 2}
  Groups <- MCGroups
  Partitions = {k1}
  NoPartition = nopartition
  NumPartitions = 12
  HashKey <- MCHashKey
  FaultKinds = {"crash"}
  MaxFaults = 1
INVARIANTS
  DebitedOnce
CHECK_DEADLOCK FALSE
