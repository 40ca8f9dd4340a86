SPECIFICATION MCSpec
CONSTANTS
  o1 = o1
  o2 = o2
  o3 = o3
  c1 = c1
  c2 = c2
  Request = {r1, r2, r3}
  Handler = {"credential-offers", "finalize-offers"}
  Offer <- MCOffer
  Content <- MCContent
  Hash <- MCHash
  Preloaded = {o1, o2}
  OfferMode = "preloaded"
  MaxInFlight = 2
  MaxFaults = 0
  MaxOverlapping = 3
SYMMETRY Symmetry
INVARIANTS
  CompleteWhenAnswered
