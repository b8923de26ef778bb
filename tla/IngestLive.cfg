SPECIFICATION FairSpec
CONSTANTS
  alice1 = alice1
  alice2 = alice2
  bob1 = bob1
  alice = alice
  bob = bob
  toAlice = toAlice
  toBoth = toBoth
  AccountIds = {alice1}
  Mails = {toAlice}
  Addresses <- MCAddresses
  AddressOf <- MCAddressOf
  Lifetimes <- MCLifetimes
  MaxTime = 1
  Mailboxes = {alice}
  MailboxOf <- MCMailboxOf
  Envelope <- MCEnvelope
  To <- MCTo
  LikeMatch <- PlainNames
  None = None
PROPERTIES
  MailIsImported
  MissingIsHidden
  ExpiredIsRemoved
