SPECIFICATION FairPathSpec
CONSTANTS
  CommandTimeout = 1
  DataTimeout = 1
  ReconnectPeriod = 1
  Watchdog = 1
  NoTime = NoTime
  NoScrap = NoScrap
  Capacity = 2
  MaxInFlight = 1
INVARIANTS
  StoppedFirst
  RecentDrive
  KilledStops
PROPERTIES
  Reopens
