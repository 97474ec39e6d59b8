SPECIFICATION AccessSpec
CONSTANTS
  Client = {k1, k2, k3}
  Limit = 2
  Window = 3
  Second = 2
  MaxKeys = 1
  MaxTick = 6
  MaxChecks = 4
  Wallet = {w1, w2}
  Challenge = {h1}
  Session = {s1, s2}
  Visit = {v1, v2}
  Nobody = Nobody
  ChallengeTtl = 1
  IdleTtl = 2
  MaxInstant = 2
  Payer = {b1, b2, b3}
  Platform = b3
  Price = {1, 2, 3, 4, 5, 6, 7, 8, 9}
  Coin = {1, 2, 3, 6, 12}
  MaxCoins = 3
  FeeBps = 1
  BpsDenominator = 4
  MinPlatformFee = 2
  ChangeDust = 2
  BaseCost = 1
  InputCost = 2
  OutputCost = 1
  MaxAttempts = 2
  MaxSize = 4
  MaxSafe = 5
  MaxPosition = 6
SYMMETRY Symmetric
INVARIANTS
  BurstBounded
  SessionsEarned
  NoLateService
  ProfileKeepsFields
  RelayedVerifies
  RefusedOnlyWhenPoor
  RangeServed
PROPERTIES
  RetryHonoured
CHECK_DEADLOCK FALSE
