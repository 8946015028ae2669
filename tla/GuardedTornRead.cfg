CONSTANTS
  Calls = {c1}
  Requests <- Forwards
  Lists = {"tools", "recipients"}
  Policies <- OpenOrShut
  MaxVersion = 2
  Configurations = {TRUE}
  AuditMayFail = FALSE
  None = None
SPECIFICATION MCSpec
INVARIANT GovernedByRecordedVersion
