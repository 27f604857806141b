CONSTANTS
  MaxSubs = 2
  Capacity = 2
  Buffer = 1
  MaxNow = 1
  Written = {0}
  FailedAt = {1}
  MaxTrouble = 1
  Callers = {c1}
SPECIFICATION FairSpec
\* After Close the client really stops.
CHECK_DEADLOCK FALSE
INVARIANTS
  ReconnectArmed
  NoSpuriousProtocolError
  DeliveredInOrder
PROPERTIES
  Converges
  CallersReturn
