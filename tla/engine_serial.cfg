CONSTANTS
  None = None
  Task = {t1, t2, t3}
  Workspace <- MCWorkspace
  PKey <- MCPKey
  Source <- MCSource
  Column <- MCMailColumns
  Name <- MCName
  ExternalId <- MCExternalId
  Value <- MCValue
  DataType <- MCDataType
  StorableType <- MCStorableType
  Time = {1, 2}
  Row <- SerialRows
  LookupMatch <- MCLookup
  Normalize <- MCNormalize
  Answers <- MCFewAnswers
  Obedient = FALSE
  Exclusive = TRUE
  Faults = {"fail"}
  SeedGlobals <- MCScoreGlobal
  Registrations <- MCNoRegistrations
SPECIFICATION Spec
SYMMETRY TaskSymmetry
INVARIANTS
  RoutedOnce
PROPERTIES
  RoutesAreWriteOnce
