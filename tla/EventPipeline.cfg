SPECIFICATION Spec
CONSTANTS
  Texts <- MCTexts
  Env <- MCEnv
  MessageErrors <- MCMessages
  Configs <- MCConfigs
  Kinds <- MCKinds
  Server <- MCServer
  DbNames = {"sales", "stock"}
  DbId = "5"
  Path <- MCPath
  MaxTick = 3
  Zones <- MCZones
  Inexact <- MCInexact
  Backslashed <- MCBackslashed
  Literals <- MCLiterals
INVARIANTS
  TypeOK
  BothValuesKept
  NamedAsItWas
  OnlyWantedSent
  NothingLost
  ModsCommute
CHECK_DEADLOCK FALSE
