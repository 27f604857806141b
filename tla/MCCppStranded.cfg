CONSTANTS
  Capacity = 2
  MaxNow = 1
  FailedAt = {}
  MaxFaults = 1
  Debuggers = {d1}
  MaxDebug = 1
  MayClose = FALSE
SPECIFICATION Spec
INVARIANTS
  WokenWhenDelivered
