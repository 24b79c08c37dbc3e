CONSTANTS
  None = None
  Task = {t1, t2}
  Workspace <- MCWorkspace
  PKey <- MCPKey
  Source <- MCSource
  Column <- MCColumn
  Name <- MCName
  ExternalId <- MCExternalId
  Value <- MCValue
  DataType <- MCDataType
  StorableType <- MCStorableType
  Time = {1}
  Row <- ConcurrentRows
  LookupMatch <- MCNoLookup
  Normalize <- MCNormalize
  Answers <- MCJoins
  Obedient = FALSE
  Exclusive = FALSE
  Faults = {}
  SeedGlobals <- MCScoreGlobal
  Registrations <- MCRegistrations
SPECIFICATION FairSpec
INVARIANTS
  InventoryInStep
PROPERTIES
  InventoryCatchesUp
