SPECIFICATION Spec
CONSTANTS
  a = a
  b = b
  h1 = h1
  h2 = h2
  None = None
  Name = {a, b}
  Hash = {h1, h2}
  Faults = {"list", "read", "move", "unlink", "write", "clean"}
  MaxCrashes = 2
INVARIANTS
  TypeOK
  Migrated
  IndexTruth
PROPERTIES
  PackagesKept
  StartEnds
CONSTRAINT
  TwoMishaps
