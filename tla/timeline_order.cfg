CONSTANTS
  None = None
  Attempt <- MCAttempt
  CallOf <- MCCallOf
  MaxCalls = 4
  Workspace <- MCWorkspace
  PKey <- MCPKey
  Source = {"crm"}
  Column <- MCColumn
  Name <- MCName
  ExternalId = {"e1"}
  DataType = {"text", "geo"}
  StorableType = {"text", "geo"}
  Time <- MCTime
SPECIFICATION Spec
INVARIANTS
  TimelineChronological
