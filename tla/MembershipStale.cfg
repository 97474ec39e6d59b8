SPECIFICATION Spec
CONSTANTS
  NoPrice = NoPrice
  None = None
  Prep = {s1, s2, s3}
  Coin = {k1}
  Price = {x1, x2}
  Request = {r1}
  Replica = {c1}
  MaxFaults = 0
SYMMETRY Symmetric
INVARIANTS
  OfferIsLive
CHECK_DEADLOCK FALSE
