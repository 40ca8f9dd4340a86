SPECIFICATION FairSpec
CONSTANTS
  Request = {r1, r2}
  ListId = {l1, l2, l3}
  NOffers = 2
  RevocationListSize = 2
  MetadataListSize = 2
  MaxInFlight = 1
  MaxFaults = 1
INVARIANTS
  NeverFailsUnprovoked
  IssuedHasRevocationList
PROPERTY
  RequestsSettle
