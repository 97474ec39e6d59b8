SPECIFICATION RecordsSpec
CONSTANTS
  Person = {p1, p2}
  Id = {i1, i2}
  Digest = {d1, d2}
  Amount = {a1, a2}
  Name = {n1, n2}
  p1 = p1
  p2 = p2
  n1 = n1
  n2 = n2
  q1 = q1
  q2 = q2
  Query = {q1, q2}
  Includes <- MCIncludes
  Like <- MCLike
  Collation <- MCCollation
  Binary <- MCBinary
  Scan <- MCScan
  SearchLimit = 2
  ListLimit = 1
  Absent = Absent
  RowLife = 1
  MaxNow = 2
  Mint = {t1, t2}
  Owner = {o1, o2}
  Creator = {c1, c2}
  Covenant = {x1, x2}
  NoCovenant = NoCovenant
  Buyer = o1
  Of = c1
  MaxDaa = 2
SYMMETRY Symmetric
INVARIANTS
  SameRows
  SameAnswers
  AccessJudged
CHECK_DEADLOCK FALSE
