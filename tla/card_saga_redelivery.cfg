SPECIFICATION FairCardSpec
CONSTANTS
  Payments = {p1}
  WalletCalls = {}
  Webhooks = {h1, h2}
  Users = {u1}
  NoUser = nouser
  NoPayment = nopayment
  Amounts = {1}
  Groups <- MCGroups
  Partitions = {k1}
  NoPartition = nopartition
  NumPartitions = 12
  HashKey <- MCHashKey
  FaultKinds = {"crash", "duplicate", "commit"}
  MaxFaults = 1
  MaxAttempts = 2
  InitialDelay = 5
  MaxDelay = 10
  MaxEvents = 2
  Discarded = 1
  GatewayAnswers = {"SUCCESS", "timeout", "error"}
INVARIANTS
  LogFollowsGateway
  CommittedAreTaken
  PaymentEventsTogether
PROPERTIES
  RequestsReachGateway
  StartedWebhooksAnswer
CHECK_DEADLOCK FALSE
