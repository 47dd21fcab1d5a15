SPECIFICATION CardSpec
CONSTANTS
  Payments = {p1}
  WalletCalls = {}
  Webhooks = {h1}
  Users = {u1}
  NoUser = nouser
  NoPayment = nopayment
  Amounts = {1}
  Groups <- MCGroups
  Partitions = {k1}
  NoPartition = nopartition
  NumPartitions = 12
  HashKey <- MCHashKey
  FaultKinds = {"store", "loss", "commit"}
  MaxFaults = 2
  MaxAttempts = 5
  InitialDelay = 10
  MaxDelay = 60
  MaxEvents = 2
  Discarded = 1
  GatewayAnswers = {"SUCCESS", "timeout", "error"}
INVARIANTS
  CardTypeOK
  AttemptsBounded
  DeadLettersWereTried
  PausesFollowPolicy
PROPERTIES
  ImplementsLifecycle
CHECK_DEADLOCK FALSE
