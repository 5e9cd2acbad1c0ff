CONSTANTS
  Wins = Wins
  Slash = Slash
  OtherDeps = {cni, hns}
  MaxLength = 4
SPECIFICATION Spec
INVARIANTS
  TypeOK
  RestoreKeepsRepetitions
PROPERTIES ImplementsSets OthersKeepTheirOrder
CHECK_DEADLOCK FALSE
