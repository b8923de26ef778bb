SPECIFICATION Spec
CONSTANTS
  alice1 = alice1
  alice2 = alice2
  bob1 = bob1
  alice = alice
  bob = bob
  toAlice = toAlice
  toBoth = toBoth
  AccountIds = {alice1, bob1}
  Mails = {toBoth}
  Addresses <- MCAddresses
  AddressOf <- MCAddressOf
  Lifetimes <- MCLifetimes
  MaxTime = 1
  Mailboxes = {alice, bob}
  MailboxOf <- MCMailboxOf
  Envelope <- MCEnvelope
  To <- MCTo
  LikeMatch <- UnderscoreNames
  None = None
PROPERTIES
  SyncDeletesOnlyMissing
