CONSTANTS
  None = None
  Task = {t1, t2}
  Workspace <- MCWorkspace
  PKey <- MCPKey
  Source <- MCSource
  Column <- MCColumn
  Name <- MCName
  ExternalId <- MCExternalId
  Value <- MCValue
  DataType <- MCDataType
  StorableType <- MCStorableType
  Time = {1}
  Row <- MailOnlyRows
  LookupMatch <- MCLookup
  Normalize <- MCNormalize
  Answers <- MCFewAnswers
  Obedient = FALSE
  Exclusive = TRUE
  Faults = {"fail"}
  SeedGlobals <- MCScoreGlobal
  Registrations <- MCNoRegistrations
SPECIFICATION Spec
SYMMETRY TaskSymmetry
INVARIANTS
  InventoryComplete
