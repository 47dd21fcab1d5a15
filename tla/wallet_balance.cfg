SPECIFICATION SagaSpec
CONSTANTS
  Payments = {p1}
  WalletCalls = {c1, c2}
  Webhooks = {}
  Users = {u1}
  NoUser = nouser
  NoPayment = nopayment
  Amounts = {1}
  Groups <- MCGroups
  Partitions = {k1}
  NoPartition = nopartition
  NumPartitions = 12
  HashKey <- MCHashKey
  FaultKinds = {}
  MaxFaults = 0
INVARIANTS
  BalanceIsExact
CHECK_DEADLOCK FALSE
