SPECIFICATION Spec
CONSTANTS
  d1 = d1
  d2 = d2
  a = a
  h1 = h1
  h2 = h2
  None = None
  Dnf = {d1, d2}
  Name = {a}
  Hash = {h1, h2}
INVARIANTS
  TypeOK
  RegistrationHolds
PROPERTIES
  TrustedDelivery
  RunEnds
