SPECIFICATION Spec
CONSTANTS
  StateTimeout = 0
  AttitudeTimeout = 0
  DepthTimeout = 0
  PoseResetTimeout = 1
  FutureTolerance = 0
  RequireKillCycle = TRUE
  Skew = 0
  NoTime = NoTime
  MaxReleases = 1
  MayRestart = FALSE
  MaxResets = 1
  MaxCommands = 1
  MaxPending = 1
  MaxInFlight = 1
INVARIANTS
  ErrorsReflectCommand
