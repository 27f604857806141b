CONSTANTS
  d1 = d1
  d2 = d2
  MaxSubs = 1
  Capacity = 2
  MaxNow = 1
  MaxFaults = 1
  Debuggers = {d1, d2}
  MaxDebug = 2
  Fragments = FALSE
  Readers = {0}
  MayClose = TRUE
  FailedAt = {}
SPECIFICATION FairSpec
ACTION_CONSTRAINT Scenarios
\* After convex_close the client really stops.
CHECK_DEADLOCK FALSE
PROPERTIES
  DebugReturns
  DebugAckDropsConnection
  FeedsKept
  UnsubscribeReturns
  CloseCompletes
  ReaderEnds
