SPECIFICATION FairSpec
CONSTANTS
  Services <- MCServices
  Items = {a, b}
  Deadline = 1
  MaxRequests = 3
  MaxInFlight = 1
  None = None
INVARIANTS
  SucceedsWhenDone
  LoadedIsActive
  PushedOnce
PROPERTIES
  DetectsOwn
  CallsEnd
  OpenedDrops
CHECK_DEADLOCK FALSE
