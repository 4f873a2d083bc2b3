SPECIFICATION Spec
CONSTANTS
  MaxPos = 2
  Size = 2
  PerFile = 1
  NumSinks = 1
  FileSinks = {1}
  Rows = 0
  Dropped <- NoEvents
  Late <- NoEvents
  MaxFaults = 1
PROPERTIES
  ResetSkipsOnlyOld
