SPECIFICATION Spec
CONSTANTS
  Axes = {"x", "y", "z"}
  Level = {}
  MaxTimeout = 1
  NoLimit = NoLimit
  Own = Own
  None = None
  Setpoints <- MCAltitudes
  Streams = {}
  MaxIds = 1
  MaxKills = 0
  MaxPending = 1
PROPERTIES
  LostAltitudeFails
CHECK_DEADLOCK FALSE
