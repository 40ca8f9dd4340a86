SPECIFICATION Spec
CONSTANTS
  Request = {r1, r2}
  ListId = {l1, l2, l3}
  NOffers = 1
  RevocationListSize = 2
  MetadataListSize = 2
  MaxInFlight = 2
  MaxFaults = 2
SYMMETRY Symmetry
INVARIANTS
  TypeOK
  UniqueAllocation
  NoIndexLost
  IssuedIsAnchored
PROPERTY
  ImplementsLedger
