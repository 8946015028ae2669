SPECIFICATION MCSpec
CONSTANTS
  Requests <- MCRequests
  Policies <- MCPolicies
  Addresses <- MCAddresses
  Unit = 6
  SmallAmount = 4
  Uint256Max = 100
  Monad = Monad
  OtherChain = OtherChain
  None = None
INVARIANTS
  TransfersAreCapped
  ApprovalsAreBounded
  SimulatedAsJudged
