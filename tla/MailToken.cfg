SPECIFICATION Spec
CONSTANTS
  a = a
  b = b
  Mailboxes = {a, b}
  None = None
  MaxPeriod = 1
  Retries = 1
  MaxAsked = 1
  MaxCalls = 1
SYMMETRY Interchangeable
INVARIANTS
  TokenOfItsMailbox
