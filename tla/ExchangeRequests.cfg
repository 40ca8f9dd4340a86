SPECIFICATION MCSpec
CONSTANTS
  o1 = o1
  o2 = o2
  o3 = o3
  c1 = c1
  c2 = c2
  Request = {r1, r2, r3, r4}
  Handler = {"credential-offers", "finalize-offers", "offers", "offers/complete"}
  Offer <- MCOffer
  Content <- MCContent
  Hash <- MCHash
  Preloaded = {o3}
  OfferMode = "all"
  MaxInFlight = 2
  MaxFaults = 1
  MaxOverlapping = 3
SYMMETRY Symmetry
INVARIANTS
  TypeOK
  FinalizedAreDecided
  SerialCompleteIsExact
PROPERTIES
  ImplementsOfferLife
  SerialNotIssuedAfterRejection
