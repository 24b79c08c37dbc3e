CONSTANTS
  None = None
  Task = {t1, t2}
  Workspace <- MCWorkspace
  PKey <- MCPKey
  Source <- MCTwoSources
  Column <- MCColumn
  Name <- MCName
  ExternalId <- MCExternalId
  Value <- MCValue
  DataType <- MCDataType
  StorableType <- MCStorableType
  Time = {1}
  Row <- TwoSourceRows
  LookupMatch <- MCLookup
  Normalize <- MCNormalize
  Answers <- MCClaims
  Obedient = TRUE
  Exclusive = FALSE
  Faults = {"fail"}
  SeedGlobals <- MCStampGlobal
  Registrations <- MCRegistrations
SPECIFICATION Spec
SYMMETRY TaskSymmetry
INVARIANTS
  GlobalsGovern
