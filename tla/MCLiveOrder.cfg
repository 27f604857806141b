CONSTANTS
  MaxSubs = 1
  Capacity = 3
  MaxNow = 3
  MaxFaults = 1
  Debuggers = {d1}
  MaxDebug = 1
  Fragments = TRUE
  Readers = {}
  MayClose = FALSE
  FailedAt = {2}
SPECIFICATION Spec
INVARIANTS
  VersionsContinue
  SnapshotConsistent
  DeliveredInOrder
