SPECIFICATION Spec
CONSTANTS
  b1 = b1
  NoTx = NoTx
  Post = {d1}
  Buyer = {b1}
  Coin = {k1, k2}
  Owner <- OneOwner
  Prep = {1, 2}
  Request = {r1, r2}
  Replica = {}
  PreparedTtl = 1
  StaleWorkflow = 5
  Batch = 1
  MaxClock = 1
  MaxFaults = 1
SYMMETRY Symmetric
INVARIANTS
  TypeOK
  AnswersKept
PROPERTY PromiseKept
CHECK_DEADLOCK FALSE
