SPECIFICATION Spec
CONSTANTS
  a = a
  b = b
  h1 = h1
  h2 = h2
  w1 = w1
  w2 = w2
  None = None
  Name = {a, b}
  Hash = {h1, h2}
  Worker = {w1, w2}
  Size <- MCSize2
  MaxBytes = 2
  DiskLimited = FALSE
  Exclusive = TRUE
  Faults = {}
  MaxTime = 2
INVARIANT WithinLimit
