SPECIFICATION Spec
CONSTANTS
  None = None
  Media = {m1}
  Post = {p1, p2, p3}
  Deletable = {p1, p2, p3}
  Viewer = {v1, v2}
  PendingTtl = 1
  MaxClock = 2
  MaxFaults = 1
SYMMETRY Symmetric
INVARIANTS
  OnePostPerMedia
  UploadsExclusive
  MediaKept
  GenerationsInFlight
CHECK_DEADLOCK FALSE
