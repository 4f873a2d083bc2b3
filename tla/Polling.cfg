SPECIFICATION Spec
CONSTANTS
  Sources <- DupeThenOther
  Invalid <- Third
  Modes = {TRUE, FALSE}
  WatchConfig = TRUE
  EarlyEdits = TRUE
  PromptLaunch = FALSE
  Errors = {"open", "close", "panic"}
  MaxGen = 3
  MaxEdits = 2
INVARIANTS
  TypeOK
  OneReaderPerInstance
  ReadersHaveSinks
  SingleRunComplete
CHECK_DEADLOCK FALSE
