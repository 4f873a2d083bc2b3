SPECIFICATION FairSpec
CONSTANTS
  Writers = {w1, w2}
  MaxEvents = 2
  MaxFaults = 3
INVARIANTS
  TypeOK
  ReturnedWasSent
  OnceOnTheWire
PROPERTIES
  WritesReturn
