CONSTANTS
  Wins = Wins
  Slash = Slash
  OtherDeps = {cni}
  WinsAtFirst = {"Running", "Stopped"}
  MaxCrashes = 0
  HostEvents = {}
  Environments <- UpgradeEnvironment
  MaxRuns = 1
  MaxPolls = 2
SPECIFICATION Spec
INVARIANTS
  DependencyIsRestored
CHECK_DEADLOCK FALSE
