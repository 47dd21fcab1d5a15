SPECIFICATION ReportSpec
CONSTANTS
  MaxEvents = 3
  Discarded = 2
  Handlers = {h1}
  MaxPublished = 5
  FaultKinds = {"store", "crash"}
  MaxFaults = 2
INVARIANTS
  ReportTypeOK
  QueueIsRecentPast
  NoLetterForgotten
PROPERTIES
  QueuedLettersStored
CHECK_DEADLOCK FALSE
