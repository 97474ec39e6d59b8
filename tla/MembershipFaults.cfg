SPECIFICATION Spec
CONSTANTS
  NoPrice = NoPrice
  None = None
  Prep = {s1, s2}
  Coin = {k1}
  Price = {x1, x2}
  Request = {r1, r2}
  Replica = {c1}
  MaxFaults = 1
SYMMETRY Symmetric
INVARIANTS
  RegistryBacked
  TypeOK
CHECK_DEADLOCK FALSE
