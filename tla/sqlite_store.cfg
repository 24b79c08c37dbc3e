CONSTANTS
  None = None
  p1 = p1
  p2 = p2
  Proc <- MCProc
  Attempt <- MCAttempt
  CallOf <- MCCallOf
  ProcOf <- MCProcOf
  Faults = {"crash", "io"}
  MaxCalls = 5
  Workspace = {"acme"}
  PKey = {"ada"}
  Source = {"crm"}
  Column = {"mail"}
  Name = {"contact"}
  ExternalId = {"e1"}
  DataType = {"text", "geo"}
  StorableType = {"text"}
  Time = {1, 2}
SPECIFICATION Spec
INVARIANTS
  TypeOK
  AnswersAreHonest
  ReadsAreCommitted
  ReadYourWrites
  CurrentUnlessRaised
PROPERTIES
  ImplementsContract
