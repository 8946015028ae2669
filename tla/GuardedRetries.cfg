CONSTANTS
  Calls = {c1, c2, c3}
  Requests <- Retries
  Lists = {"tools"}
  Policies <- Open
  MaxVersion = 1
  Configurations = {TRUE}
  AuditMayFail = FALSE
  None = None
SPECIFICATION MCFairSpec
INVARIANTS
  AtMostOneForwardPerIntent
PROPERTIES
  EveryCallIsAnswered
