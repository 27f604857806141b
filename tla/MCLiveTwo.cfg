CONSTANTS
  MaxSubs = 2
  Capacity = 1
  MaxNow = 1
  MaxFaults = 1
  Debuggers = {d1}
  MaxDebug = 0
  Fragments = FALSE
  Readers = {}
  MayClose = FALSE
  FailedAt = {}
SPECIFICATION FairSpec
INVARIANTS
  TypeOK
  BaseVersionAgrees
  NoLostAdd
  NoLingeringQuery
PROPERTIES
  Converges
