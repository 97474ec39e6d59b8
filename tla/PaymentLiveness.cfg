SPECIFICATION PreparedSpec
CONSTANTS
  b1 = b1
  NoTx = NoTx
  Post = {d1}
  Buyer = {b1}
  Coin = {k1, k2}
  Owner <- OneOwner
  Prep = {1, 2}
  Request = {r1}
  Replica = {c1}
  PreparedTtl = 1
  StaleWorkflow = 5
  Batch = 1
  MaxClock = 2
  MaxFaults = 0
PROPERTIES
  PaidIsReceipted
  DrivenToTerminal
CHECK_DEADLOCK FALSE
