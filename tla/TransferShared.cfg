SPECIFICATION Spec
CONSTANTS
  a = a
  h1 = h1
  h2 = h2
  r1 = r1
  r2 = r2
  None = None
  Hole = Hole
  Name = {a}
  Hash = {h1}
  Request = {r1, r2}
  Inode <- MCInode
  Chunks = 1
  MaxPeers = 1
  Ranges = FALSE
  Exclusive = FALSE
  Faults = {"write", "stall"}
  Crashes = FALSE
VIEW Unsent
INVARIANT TempsOwned
PROPERTY Ends
