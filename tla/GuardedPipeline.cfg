CONSTANTS
  Calls = {c1, c2}
  Requests <- EveryPath
  Lists = {"tools", "recipients"}
  Policies <- OpenOrFrozen
  MaxVersion = 2
  Configurations = {TRUE, FALSE}
  AuditMayFail = TRUE
  None = None
SYMMETRY CallSymmetry
SPECIFICATION MCSpec
INVARIANTS
  OnlyClearedCallsForward
  FreezeStopsNewCalls
  OneTerminalEvent
  AuditIsTruthful
PROPERTIES
  ImplementsGatekeeper
