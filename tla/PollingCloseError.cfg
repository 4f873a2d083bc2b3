SPECIFICATION FairSpec
CONSTANTS
  Sources <- TwoVersions
  Invalid <- NoVersion
  Modes = {TRUE}
  WatchConfig = TRUE
  EarlyEdits = FALSE
  PromptLaunch = TRUE
  Errors = {"close"}
  MaxGen = 2
  MaxEdits = 1
PROPERTIES
  EditTakesEffect
CHECK_DEADLOCK FALSE
