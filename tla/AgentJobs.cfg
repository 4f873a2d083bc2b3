SPECIFICATION FairSpec
CONSTANTS
  MaxPos = 5
  NumSinks = 2
  FileSinks = {1}
  Rows = 1
  Early = {1}
  Late = {5}
  Filtered = {3}
  MaxFaults = 1
INVARIANTS
  TypeOK
  NoGap
  OnePollAtRisk
PROPERTIES
  ImplementsDelivery
  EventuallyDelivered
