CONSTANTS
  Accounts = {alice}
  Kinds = {tools}
  Items <- MCItems
  ZeroItem = "zero"
  EntryKinds = {spenders, rules}
  EntryKeys <- MCEntryKeys
  ZeroKey = "zero"
  Limits <- MCLimits
  CapValues <- MCCaps
  MaxLength = 3
  MaxVersion = 3
  Candidates <- MCCandidates
  PageSize = 2
  SpenderKinds = {spenders}
SPECIFICATION BoundedFetchSpec
INVARIANTS
  QuietReadIsExact
  FrozenIsRefused
PROPERTIES
  ReadEnds
