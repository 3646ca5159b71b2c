SPECIFICATION Spec
CONSTANTS
  l1 = l1
  l2 = l2
  p = p
  q = q
  s = s
  None = None
  Listener = {l1, l2}
  Report = {p, q, s}
  Crashes = FALSE
INVARIANT StartFailsOnError
