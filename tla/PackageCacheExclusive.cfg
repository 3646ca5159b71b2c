SPECIFICATION Spec
CONSTANTS
  a = a
  b = b
  h1 = h1
  h2 = h2
  w1 = w1
  w2 = w2
  None = None
  Name = {a, b}
  Hash = {h1, h2}
  Worker = {w1, w2}
  Size <- MCSize2
  MaxBytes = 2
  DiskLimited = TRUE
  Exclusive = TRUE
  Faults = {"torn", "stale", "unlink"}
  MaxTime = 1
INVARIANTS
  TypeOK
  Durable
  IndexTruth
  Grounded
PROPERTIES
  OldestFirst
  PassEnforcesLimit
  LockReleased
  StoreSpec
CONSTRAINT OneDoubt
