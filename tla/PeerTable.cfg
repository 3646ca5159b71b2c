SPECIFICATION Spec
CONSTANTS
  p1 = p1
  p2 = p2
  t1 = t1
  t2 = t2
  None = None
  Peer = {p1, p2}
  Thread = {t1, t2}
  Cooldown = 2
  MaxParallel = 1
  MaxDiags = 2
INVARIANTS
  TypeOK
  ExaminedSinceFailure
PROPERTIES
  CooldownRespected
  Recovers
