SPECIFICATION Spec
CONSTANTS
  StateTimeout = 0
  AttitudeTimeout = 0
  DepthTimeout = 0
  PoseResetTimeout = 1
  FutureTolerance = 0
  RequireKillCycle = TRUE
  Skew = 0
  NoTime = NoTime
  MaxReleases = 2
  MayRestart = FALSE
  MaxResets = 0
  MaxCommands = 2
  MaxPending = 2
  MaxInFlight = 1
INVARIANTS
  CommandsOfThisRelease
  AcceptedIsInForce
