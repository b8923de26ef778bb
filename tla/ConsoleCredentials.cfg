SPECIFICATION Spec
CONSTANTS
  Users = {u1, u2}
  Keys = {k1, k2}
  Codes = {}
  MaxUses <- MCMaxUses
  SettingsChoices <- OnlyFree
  FirstSettings <- Free
  MaxStamp = 1
  MaxRequests = 2
  MaxSessions = 1
  None = None
SYMMETRY Interchangeable
INVARIANTS
  TypeOK
  RevokedStaysRevoked
PROPERTIES
  AnAdministratorRemains
