CONSTANTS
  MaxSubs = 1
  Capacity = 2
  MaxNow = 1
  MaxFaults = 1
  Debuggers = {d1}
  MaxDebug = 0
  Fragments = FALSE
  Readers = {}
  MayClose = FALSE
  FailedAt = {}
SPECIFICATION FairSpec
PROPERTIES
  ErrorIsFollowedByResult
