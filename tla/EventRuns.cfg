SPECIFICATION MCFairSpec
CONSTANTS
  Run = {r1, r2}
  Tasks = {"logging", "rewards", "burns"}
  QueryMaxBlocks = 3
  MaxBlock = 5
  Unregistered = {3, 4}
  Quantity = 2
  MaxInFlight = 2
  MaxFaults = 2
INVARIANTS
  TypeOK
  OnlyRangeEndsAreSkipped
  SerialRewritesNeedFaults
PROPERTY
  RunsEnd
