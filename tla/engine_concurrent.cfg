CONSTANTS
  None = None
  Task = {t1, t2}
  Workspace <- MCWorkspace
  PKey <- MCPKey
  Source <- MCSource
  Column <- MCColumn
  Name <- MCName
  ExternalId <- MCExternalId
  Value <- MCValue
  DataType <- MCDataType
  StorableType <- MCStorableType
  Time = {1}
  Row <- ConcurrentRows
  LookupMatch <- MCLookup
  Normalize <- MCNormalize
  Answers <- MCFewAnswers
  Obedient = FALSE
  Exclusive = FALSE
  Faults = {"fail", "cancel"}
  SeedGlobals <- MCScoreGlobal
  Registrations <- MCRegistrations
SPECIFICATION Spec
SYMMETRY TaskSymmetry
INVARIANTS
  TypeOK
  FlagsRepeatRoutes
  InventoryJustified
  ValuesAudited
  NoSilentLoss
  OneRowPerExternalId
  IdsAreStable
