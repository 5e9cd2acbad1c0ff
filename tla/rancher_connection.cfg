CONSTANTS
  Attempts = 6
  Ids = {id1, id2}
SPECIFICATION Spec
INVARIANTS
  TypeOK
  OnlyVerifiedIsTrusted
  UpdateIsAnswered
  TlsIsVerified
  InstallIsConnectable
PROPERTIES
  IdIsForGood
  ScriptEnds
CHECK_DEADLOCK FALSE
