SPECIFICATION FairSagaSpec
CONSTANTS
  Payments = {p1}
  WalletCalls = {c1}
  Webhooks = {}
  Users = {u1}
  NoUser = nouser
  NoPayment = nopayment
  Amounts = {1}
  Groups <- MCGroups
  Partitions = {k1, k2}
  NoPartition = nopartition
  NumPartitions = 12
  HashKey <- MCHashKey
  FaultKinds = {"duplicate", "crash", "commit"}
  MaxFaults = 1
INVARIANTS
  AlwaysRebuildable
  ConclusionsJustified
  WalletTypeOK
  CommittedAreAnswered
PROPERTIES
  PublishedPaymentsSettle
CHECK_DEADLOCK FALSE
