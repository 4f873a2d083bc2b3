SPECIFICATION FairSpec
CONSTANTS
  Sources <- DupeThenOther
  Invalid <- Third
  Modes = {TRUE}
  WatchConfig = TRUE
  EarlyEdits = FALSE
  PromptLaunch = TRUE
  Errors = {}
  MaxGen = 3
  MaxEdits = 2
PROPERTIES
  EditTakesEffect
  StopCompletes
CHECK_DEADLOCK FALSE
