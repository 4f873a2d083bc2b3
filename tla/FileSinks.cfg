SPECIFICATION Spec
CONSTANTS
  Period = 2
  Retention = 3
  Names = {"a", "b"}
  Duration = 2
  Readers = {"r1", "r2"}
  NameOf <- MCNameOf
  Ends <- MCEnds
  Frames <- MCFrames
  MaxTick = 5
  MaxFaults = 1
INVARIANTS
  TypeOK
  SavedKept
  SampleFollows
  WindowShown
CHECK_DEADLOCK FALSE
