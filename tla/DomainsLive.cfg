SPECIFICATION FairSpec
CONSTANTS
  first = first
  second = second
  other = other
  box1 = box1
  theName = theName
  otherName = otherName
  theAddress = theAddress
  AddressOf <- MCAddressOf
  Lifetimes <- MCLifetimes
  NameOf <- MCNameOf
  DomainOf <- MCDomainOf
  AccountIds = {}
  Addresses = {theAddress}
  MaxTime = 1
  DomainIds = {first}
  Names = {theName}
  PublicNames = {}
  Retention = 1
PROPERTIES
  SettlesVerified
  StaleIsRemoved
