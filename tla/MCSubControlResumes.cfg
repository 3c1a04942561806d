SPECIFICATION FairSpec
CONSTANTS
  StateTimeout = 1
  AttitudeTimeout = 1
  DepthTimeout = 1
  PoseResetTimeout = 1
  FutureTolerance = 0
  RequireKillCycle = TRUE
  Skew = 0
  NoTime = NoTime
  MaxReleases = 1
  MayRestart = FALSE
  MaxResets = 1
  MaxCommands = 0
  MaxPending = 0
  MaxInFlight = 1
PROPERTIES
  Resumes
