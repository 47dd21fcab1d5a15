SPECIFICATION SagaSpec
CONSTANTS
  Payments = {p1}
  WalletCalls = {c1, c2}
  Webhooks = {}
  Users = {u1}
  NoUser = nouser
  NoPayment = nopayment
  Amounts = {1}
  Groups <- MCGroups
  Partitions = {k1}
  NoPartition = nopartition
  NumPartitions = 12
  HashKey <- MCHashKey
  FaultKinds = {"store", "loss", "commit"}
  MaxFaults = 2
INVARIANTS
  AnsweredOnce
  NoOverdraft
  ExactUnlessOverlapped
  PublishedAreStored
  UserEventsTogether
PROPERTIES
  ImplementsLifecycle
SYMMETRY MCSymmetry
CHECK_DEADLOCK FALSE
