SPECIFICATION FairSpec
CONSTANTS
  a = a
  b = b
  Mailboxes = {a, b}
  None = None
  MaxPeriod = 1
  Retries = 1
  MaxAsked = 1
  MaxCalls = 1
INVARIANTS
  TypeOK
  NothingIsAbandoned
  DisplayFollowsMailbox
PROPERTIES
  StreamReturns
