CONSTANTS
  Ids = {i1, i2}
  MaxSubs = 3
  MaxUpdates = 2
  Capacity = 1
SPECIFICATION FairSpec
\* After close or the end of its input the adapter stops.
CHECK_DEADLOCK FALSE
INVARIANTS
  OneRecordPerId
  RecordOutlivesRelay
PROPERTIES
  SilentOnceInvalidated
  ClientAsPromised
  CommandsAnswered
  NewestForwarded
