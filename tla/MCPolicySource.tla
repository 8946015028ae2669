--------------------------- MODULE MCPolicySource ---------------------------
(* Instances of the policy read small enough for TLC. *)
EXTENDS PolicySource

MCItems == {"zero", "a", "b", "c"}
MCEntryKeys == {"zero", "k"}
MCLimits == {0, 1}
MCCaps == {10, 20}

Spender(enabled) == [key |-> "k", limit |-> 1, enabled |-> enabled]

MCPolicy(l, es, c, f) ==
  [list |-> [k \in Kinds |-> l], entries |-> [e \in EntryKinds |-> es],
   caps |-> c, frozen |-> f, identified |-> TRUE, safe |-> TRUE]

(* One page more than fits, one page less, another order, a frozen policy,  *)
(* and the duplicate the contract accepts.                                  *)
MCCandidates ==
  {MCPolicy(<<"a", "b", "c">>, <<Spender(TRUE)>>, 10, FALSE),
   MCPolicy(<<"c">>, <<>>, 20, FALSE),
   MCPolicy(<<"b", "a">>, <<Spender(FALSE)>>, 10, TRUE),
   MCPolicy(<<>>, <<Spender(FALSE), Spender(TRUE)>>, 10, FALSE)}

(* Once the read is over and no version is left the system may stop. *)
Terminating == at = "done" /\ UNCHANGED fetchVars

BoundedFetchSpec == FetchInit /\ [][FetchNext \/ Terminating]_fetchVars /\ FetchFairness
=============================================================================
