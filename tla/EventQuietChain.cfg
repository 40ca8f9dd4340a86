SPECIFICATION MCSpec
CONSTANTS
  Run = {r1, r2, r3}
  Tasks = {"logging"}
  QueryMaxBlocks = 2
  MaxBlock = 4
  Unregistered = {}
  Quantity = 5
  MaxInFlight = 1
  MaxFaults = 0
INVARIANTS
  NoEventLost
