SPECIFICATION FairCardSpec
CONSTANTS
  Payments = {p1}
  WalletCalls = {}
  Webhooks = {h1}
  Users = {u1}
  NoUser = nouser
  NoPayment = nopayment
  Amounts = {1}
  Groups <- MCGroups
  Partitions = {k1}
  NoPartition = nopartition
  NumPartitions = 12
  HashKey <- MCHashKey
  FaultKinds = {}
  MaxFaults = 0
  MaxAttempts = 5
  InitialDelay = 5
  MaxDelay = 60
  MaxEvents = 2
  Discarded = 1
  GatewayAnswers = {"SUCCESS", "timeout"}
PROPERTIES
  AcceptedPaymentsComplete
CHECK_DEADLOCK FALSE
