SPECIFICATION Spec
CONSTANTS
  Emails = {e1, e2}
  Codes = {c1, c2}
  Requests = {r1, r2}
  Attempts = 2
  Ttl = 2
  Cooldown = 1
  MaxTime = 2
  None = None
SYMMETRY Interchangeable
INVARIANTS
  TypeOK
PROPERTIES
  CodesStay
  KeepsPromise
