SPECIFICATION FairSpec
CONSTANTS
  MaxPos = 3
  Size = 2
  PerFile = 1
  NumSinks = 2
  FileSinks = {1}
  Rows = 3
  Dropped <- DropFirst
  Late <- LastLate
  MaxFaults = 2
INVARIANTS
  TypeOK
  NoGap
  CheckpointFlushed
  OneBlockAtRisk
  OnceWithoutFaults
PROPERTIES
  ImplementsDelivery
  EventuallyAccounted
