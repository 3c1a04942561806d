SPECIFICATION Spec
CONSTANTS
  CommandTimeout = 1
  DataTimeout = 1
  ReconnectPeriod = 1
  Watchdog = 1
  NoTime = NoTime
  NoScrap = NoScrap
  Capacity = 3
  MaxInFlight = 1
INVARIANTS
  ExitStops
