SPECIFICATION FairSpec
CONSTANTS
  Depth = 10
  Rate = 1
  Repeats = FALSE
  MaxReleases = 4
INVARIANTS
  TypeOK
  OneMission
  LeavesNothing
  OneRunPerRelease
  MissesNoKill
PROPERTIES
  TicksInItsRelease
  KeepsPromise
  Restarts
CHECK_DEADLOCK FALSE
