CONSTANTS
  Accounts = {alice, bob}
  Kinds = {tools, recipients}
  Items <- MCItems
  ZeroItem = "zero"
  EntryKinds = {spenders}
  EntryKeys <- MCEntryKeys
  ZeroKey = "zero"
  Limits <- MCLimits
  CapValues <- MCCaps
  MaxLength = 2
  MaxVersion = 3
  Candidates <- MCCandidates
SPECIFICATION Spec
INVARIANTS
  MembershipMatchesList
  LookupsAgree
PROPERTIES
  VersionIdentifiesPolicy
