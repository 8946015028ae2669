\* One tool of every sort, lists of up to two descriptors, duplicates included.
SPECIFICATION Spec
CONSTANTS
  Calls = {c1}
  Names <- MCNames
  Registered <- MCRegistered
  DefaultAllow <- MCDefaultAllow
  Unsupported <- MCUnsupported
  KeyNames <- MCKeyNames
  DangerNames <- MCDangerNames
  MetaNames <- MCMetaNames
  MaxTools = 2
  None = None
INVARIANTS
  AdmittedIsExposed
  ShownAsRegistered
  OutageWidensNothing
  DriftIsReported
PROPERTIES
  ListedIsCallable
