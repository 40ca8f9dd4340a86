SPECIFICATION Spec
CONSTANTS
  Request = {r1, r2}
  ListId = {l1, l2, l3}
  NOffers = 1
  RevocationListSize = 3
  MetadataListSize = 1
  MaxInFlight = 2
  MaxFaults = 0
INVARIANTS
  IssuedHasRevocationList
