SPECIFICATION MetricsSpec
CONSTANTS
  Groups <- MCGroups
  Partitions = {k1}
  NoPartition = nopartition
  Messages <- MCMessages
  Undecodable <- MCUndecodable
  FaultKinds = {"commit"}
  MaxFaults = 1
PROPERTIES
  FailedCommitsRetried
CHECK_DEADLOCK FALSE
