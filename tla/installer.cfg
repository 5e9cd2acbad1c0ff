CONSTANTS
  DownloadAttempts = 6
  StartPolls = 24
  MaxCommands = 3
SPECIFICATION Spec
INVARIANTS
  TypeOK
  RegisteredForGood
  InstalledIsVerified
  InstalledIsFresh
  UninstalledIsGone
PROPERTIES
  CommandEnds
CHECK_DEADLOCK FALSE
