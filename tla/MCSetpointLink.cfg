SPECIFICATION Spec
CONSTANTS
  Axes = {"x", "y", "z"}
  Level = {}
  MaxTimeout = 1
  NoLimit = NoLimit
  Own = Own
  None = None
  Setpoints <- MCSetpoints
  Streams <- MCStreams
  MaxIds = 2
  MaxKills = 1
  MaxPending = 2
INVARIANTS
  SharedMode
  OneCoordinate
  NothingDrivesOn
PROPERTIES
  KeepsDesk
  StreamsEnd
  ArrivesAtOwn
CHECK_DEADLOCK FALSE
