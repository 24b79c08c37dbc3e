CONSTANTS
  None = None
  Request <- MCRequest
  Caller <- MCCaller
  CallerOf <- MCCallerOf
  Sent <- MCSent
  Token = {"a", "x"}
  String = {"append", "join", "merge", "email", "new", "same", "yes", ""}
  Scenarios <- MCScenarios
  Replies <- MCReplies
  Limit = 2
  Window = 3
  Second = 2
  Stall = 1
  MaxTime = 3
SPECIFICATION FairApiSpec
INVARIANTS
  TypeOK
  Spaced
  RefusalsJustified
  RetryAfterHonoured
  WindowsOfKnownCallers
  VerdictsWellFormed
  AcknowledgedIsReadable
PROPERTIES
  EveryRequestIsAnswered
