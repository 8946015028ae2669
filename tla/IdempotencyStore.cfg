CONSTANTS
  Calls = {c1, c2, c3, c4}
  Keys = {k1, k2}
  Results = {ok1, ok2}
  Failures = {err}
  KeyError = KeyError
  None = None
SPECIFICATION BoundedFairSpec
INVARIANTS
  AtMostOncePerKey
  OutcomeAgreement
  ReusedFlagIsTruthful
  CommittedBeforeAnswered
PROPERTIES
  SettledEntryIsFinal
  ImplementsAtMostOnce
  EveryCallIsAnswered
