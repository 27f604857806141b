CONSTANTS
  MaxSubs = 1
  Capacity = 2
  MaxNow = 1
  MaxFaults = 1
  Debuggers = {d1}
  MaxDebug = 1
  Fragments = FALSE
  Readers = {}
  MayClose = FALSE
  FailedAt = {}
SPECIFICATION Spec
INVARIANTS
  ConnectionCountExact
