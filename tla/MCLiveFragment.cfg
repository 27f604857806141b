CONSTANTS
  MaxSubs = 1
  Capacity = 2
  MaxNow = 1
  MaxFaults = 0
  Debuggers = {d1}
  MaxDebug = 1
  Fragments = TRUE
  Readers = {}
  MayClose = FALSE
  FailedAt = {}
SPECIFICATION Spec
INVARIANTS
  NoSpuriousProtocolError
