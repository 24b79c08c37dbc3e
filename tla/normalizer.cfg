CONSTANTS
  DataType <- MCDataType
  ProjectCoercer = {"parse geo", "show geo", "careful"}
  Convert <- MCConvert
  Registrations <- MCRegistrations
  ProjectFits <- MCProjectFits
SPECIFICATION Spec
INVARIANTS
  StaysWellTyped
  CrashesOnly
