SPECIFICATION Spec
CONSTANTS
  a = a
  h1 = h1
  h2 = h2
  r1 = r1
  r2 = r2
  None = None
  Hole = Hole
  Name = {a}
  Hash = {h1, h2}
  Request = {r1, r2}
  Inode <- MCInode
  Chunks = 2
  MaxPeers = 2
  Ranges = FALSE
  Exclusive = TRUE
  Faults = {"write"}
  Crashes = FALSE
INVARIANT CachedTruth
