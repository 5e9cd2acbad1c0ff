CONSTANTS
  Wins = Wins
  Slash = Slash
  OtherDeps = {}
  WinsAtFirst = {"Stopped", "StartPending", "Running", "StopPending"}
  MaxCrashes = 0
  HostEvents = {"rke2StartsOrStops"}
  Environments <- BusyEnvironments
  MaxRuns = 1
  MaxPolls = 2
SPECIFICATION Spec
PROPERTIES
  RunEnds
CHECK_DEADLOCK FALSE
