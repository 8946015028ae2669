------------------------- MODULE MCPolicyLifecycle -------------------------
(* An instance of the policy lifecycle small enough for TLC. *)
EXTENDS PolicyLifecycle, TLC

Propose(kind, requester, update) ==
  [kind |-> kind, requester |-> requester, update |-> update,
   consent |-> TRUE, simulation |-> "success", callable |-> TRUE]

(* One update by either account, a bootstrap, another content, and one      *)
(* proposal for each gate that refuses.                                     *)
EveryGate ==
  {Propose("update", "ana", "u1"), Propose("update", "ana", "u2"),
   Propose("update", "bob", "u1"),
   Propose("bootstrap", "ana", "u1"),
   Propose("unknown", None, "u1"),
   [Propose("bootstrap", "ana", "u1") EXCEPT !.consent = FALSE],
   [Propose("update", "ana", "u1") EXCEPT !.simulation = "failed"],
   [Propose("update", "ana", "u1") EXCEPT !.callable = FALSE]}

(* Callers with both collaborators, and callers with neither. *)
AllOrNothing == {[stored |-> TRUE, written |-> TRUE], [stored |-> FALSE, written |-> FALSE]}

MCAccounts == {"ana", "bob"}
MCUpdates == {"u1", "u2"}

(* When every call is answered the system may stop. *)
Terminating == (\A c \in Calls : stage[c] = "done") /\ UNCHANGED vars

MCFairSpec == Init /\ [][Next \/ Terminating]_vars /\ Fairness
=============================================================================
