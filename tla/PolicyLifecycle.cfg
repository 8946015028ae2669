CONSTANTS
  Calls = {c1, c2}
  Accounts <- MCAccounts
  Updates <- MCUpdates
  Proposals <- EveryGate
  Callers <- AllOrNothing
  MaxVersion = 3
  None = None
SPECIFICATION MCFairSpec
INVARIANTS
  NothingUnguarded
  OneTransactionPerIntent
  AllowedWasForwarded
PROPERTIES
  OnlyAnOpenForwardHoldsACall
