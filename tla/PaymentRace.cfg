SPECIFICATION Spec
CONSTANTS
  b1 = b1
  NoTx = NoTx
  Post = {d1}
  Buyer = {b1}
  Coin = {k1}
  Owner <- OneOwner
  Prep = {1}
  Request = {r1}
  Replica = {c1, c2}
  PreparedTtl = 1
  StaleWorkflow = 5
  Batch = 1
  MaxClock = 2
  MaxFaults = 1
SYMMETRY Symmetric
INVARIANTS
  ReceiptBacked
  ConfirmedBacked
  SingleClaimant
CHECK_DEADLOCK FALSE
