CONSTANTS
  Wins = Wins
  Slash = Slash
  OtherDeps = {cni}
  WinsAtFirst = {"Stopped", "StartPending", "Running", "StopPending"}
  MaxCrashes = 1
  HostEvents = {"rke2Installed", "rke2StartsOrStops"}
  Environments <- HostEnvironments
  MaxRuns = 1
  MaxPolls = 1
SPECIFICATION Spec
INVARIANTS
  RollbackIsFaithful
  SuccessIsConfigured
  SuccessIsRestarted
  SuccessIsFresh
  RestartIsUnblocked
  RollbackKeepsOthers
CHECK_DEADLOCK FALSE
