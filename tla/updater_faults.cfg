CONSTANTS
  Wins = Wins
  Slash = Slash
  OtherDeps = {cni}
  WinsAtFirst = {"Running"}
  MaxCrashes = 0
  HostEvents = {}
  Environments <- BusyEnvironments
  MaxRuns = 2
  MaxPolls = 1
SPECIFICATION UnchangedHostSpec
INVARIANTS
  TypeOK
  SuccessIsConfigured
  RollbackIsFaithful
  SuccessIsUpgraded
PROPERTIES
  OthersUntouched
CHECK_DEADLOCK FALSE
