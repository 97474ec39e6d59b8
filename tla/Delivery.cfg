SPECIFICATION DeliverySpec
CONSTANTS
  Entry = {e1, e2}
  Drain = {d1, d2}
  Lease = 1
  BatchLimit = 2
  MaxOutboxFaults = 1
  FileLimit = 2
  MaxAttempts = 2
INVARIANTS
  NeverLost
  OneLeaseholder
  DuplicatesExplained
  PublishedIsWhole
PROPERTIES
  ThankedIsPosted
  UploadEnds
CHECK_DEADLOCK FALSE
