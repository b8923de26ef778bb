SPECIFICATION Spec
CONSTANTS
  Users = {u1, u2, u3}
  Keys = {k1}
  Codes = {c1}
  MaxUses <- MCMaxUses
  SettingsChoices <- MCSettings
  FirstSettings <- Invited
  MaxStamp = 0
  MaxRequests = 1
  MaxSessions = 0
  None = None
SYMMETRY Interchangeable
INVARIANTS
  InvitesAreBounded
