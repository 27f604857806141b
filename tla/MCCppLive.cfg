CONSTANTS
  Capacity = 2
  MaxNow = 1
  FailedAt = {0}
  MaxFaults = 1
  Debuggers = {d1}
  MaxDebug = 2
  MayClose = TRUE
SPECIFICATION Running
\* After close the worker has returned and the subscription stops.
CHECK_DEADLOCK FALSE
INVARIANTS
  DeliveredInOrder
  NotStranded
  AckMeansRetired
PROPERTIES
  CloseReturns
  Converges
