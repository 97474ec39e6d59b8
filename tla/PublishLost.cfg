SPECIFICATION Spec
CONSTANTS
  None = None
  Media = {m1}
  Post = {p1, p2}
  Deletable = {}
  Viewer = {}
  PendingTtl = 1
  MaxClock = 0
  MaxFaults = 1
INVARIANT MediaStored
CHECK_DEADLOCK FALSE
