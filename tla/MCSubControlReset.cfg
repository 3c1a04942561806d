SPECIFICATION Spec
CONSTANTS
  StateTimeout = 0
  AttitudeTimeout = 0
  DepthTimeout = 0
  PoseResetTimeout = 1
  FutureTolerance = 0
  RequireKillCycle = TRUE
  Skew = 0
  NoTime = NoTime
  MaxReleases = 1
  MayRestart = TRUE
  MaxResets = 1
  MaxCommands = 0
  MaxPending = 0
  MaxInFlight = 1
INVARIANTS
  DisarmedIsStill
  NoUnattendedStart
  OneResetPerCause
  AssuredFrame
PROPERTIES
  WaitRunsOut
  KeepsInterlock
