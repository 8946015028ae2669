CONSTANTS
  HostAdds = {"host add_custom_chain"}
  HostSwitches = {"host switch_chain"}
SPECIFICATION MCFairSpec
INVARIANTS
  QuietBootstrapProvisions
  FlagsAreEarned
PROPERTIES
  SignerLostOnlyToLateOrHostCalls
  HostIsServed
