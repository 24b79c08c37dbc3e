CONSTANTS
  None = None
  Task = {t1, t2}
  Workspace <- MCWorkspace
  PKey <- MCPKey
  Source <- MCSource
  Column <- MCColumn
  Name <- MCName
  ExternalId <- MCExternalId
  Value <- MCValue
  DataType <- MCDataType
  StorableType <- MCStorableType
  Time = {1}
  Row <- DisagreeingRows
  LookupMatch <- MCLookup
  Normalize <- MCNormalize
  Answers <- MCAllAnswers
  Obedient = TRUE
  Exclusive = TRUE
  Faults = {}
  SeedGlobals <- MCNoGlobals
  Registrations <- MCNoRegistrations
SPECIFICATION Spec
PROPERTIES
  ValuesConform
