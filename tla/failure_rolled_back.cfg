CONSTANTS
  Wins = Wins
  Slash = Slash
  OtherDeps = {cni}
  WinsAtFirst = {"Running", "Stopped"}
  MaxCrashes = 0
  HostEvents = {}
  Environments <- UpgradeEnvironment
  MaxRuns = 1
  MaxPolls = 1
SPECIFICATION Spec
INVARIANTS
  FailureIsRolledBack
CHECK_DEADLOCK FALSE
