CONSTANTS
  ConfigFiles <- TwoConfigFiles
  MaxCrashes = 2
SPECIFICATION Spec
INVARIANTS
  TypeOK
  CleanExitWasAskedFor
  ServesOverCsi
  CsiIsStarted
PROPERTIES
  ImplementsHost
  AgentFailureEnds
  StopEnds
  DumpIsOwed
CHECK_DEADLOCK FALSE
