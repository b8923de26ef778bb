SPECIFICATION Spec

CONSTANTS
  Offered <- MCOffered
  Attempts = 2
  MaxSessions = 2
  MaxStates = 2
  MaxRequests = 2
  Items <- MCItems
  MaxRevision = 2
  MaxListCalls = 2
  Fields <- MCFields
  Values <- MCValues
  MaxSettingsCalls = 2
  MaxBatch = 3
  MaxOpenings = 3
  MaxLoads = 4

INVARIANTS
  TypeOK
  SignedOutStaysOut
  CodesAreSentOnce
  BootIsAnswered
  ListsAgree
  LoadingEnds
  NoHiddenEdits
  ZonesOfThisOpening
  ZonesWillCome
  BatchAddsUp

PROPERTIES
  SavesOnlyEdits

CHECK_DEADLOCK FALSE
