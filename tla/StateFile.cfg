SPECIFICATION Spec
CONSTANTS
  MaxPos = 2
  MaxLines = 3
  Columns = {3}
  NullLegacy = FALSE
  Saved <- MCSaved
INVARIANTS
  TypeOK
  PositionKept
  NullFileHasSpare
PROPERTIES
  ImplementsRegister
