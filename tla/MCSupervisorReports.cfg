SPECIFICATION FairSpec
CONSTANTS
  Depth = 4
  Rate = 3
  Repeats = TRUE
  MaxReleases = 2
PROPERTIES
  Restarts
CHECK_DEADLOCK FALSE
