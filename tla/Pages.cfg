SPECIFICATION PagesSpec
CONSTANTS
  Action = {n1, n2}
  SwitchTimeout = 3
  QuietWindow = 2
  MaxMoves = 2
  MaxStarts = 3
  Account = {a1, a2}
  NoAccount = NoAccount
  MaxEvents = 3
  Creator = {c1, c2}
  NoCreator = NoCreator
  NoReply = NoReply
  MaxLoads = 4
  MaxActs = 2
  Post = {p1, p2}
  NoPost = NoPost
  Unanswered = Unanswered
  MaxPostLoads = 3
INVARIANTS
  QuietOwned
  SignsJustified
  CreatorShown
  PostShown
PROPERTIES
  SwitchEnds
  MismatchSignsOut
  CreatorLoads
CHECK_DEADLOCK FALSE
