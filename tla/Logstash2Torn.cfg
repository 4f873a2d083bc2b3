SPECIFICATION Spec
CONSTANTS
  Writers = {w1, w2}
  MaxEvents = 1
  MaxFaults = 1
INVARIANTS
  NothingBehindTornLine
