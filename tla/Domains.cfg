SPECIFICATION Spec
CONSTANTS
  first = first
  second = second
  other = other
  box1 = box1
  theName = theName
  otherName = otherName
  theAddress = theAddress
  AddressOf <- MCAddressOf
  Lifetimes <- MCLifetimes
  NameOf <- MCNameOf
  DomainOf <- MCDomainOf
  AccountIds = {box1}
  Addresses = {theAddress}
  MaxTime = 1
  DomainIds = {first, second}
  Names = {theName}
  PublicNames = {theName}
  Retention = 1
SYMMETRY Registrations
INVARIANTS
  TypeOK
  ActiveIsProven
PROPERTIES
  KeepsRegistry
  SystemStaysActive
