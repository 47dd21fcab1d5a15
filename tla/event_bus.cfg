SPECIFICATION MetricsSpec
CONSTANTS
  Groups <- MCGroups
  Partitions = {k1, k2}
  NoPartition = nopartition
  Messages <- MCMessages
  Undecodable <- MCUndecodable
  FaultKinds = {"loss", "duplicate", "commit", "crash"}
  MaxFaults = 2
INVARIANTS
  LoopTypeOK
  CommittedWereTried
  TriedInOrder
  CountersMatchTopic
PROPERTIES
  EveryMessageTried
CHECK_DEADLOCK FALSE
