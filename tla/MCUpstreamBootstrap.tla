------------------------- MODULE MCUpstreamBootstrap -------------------------
(* Instances of the bootstrap small enough for TLC. *)
EXTENDS UpstreamBootstrap

(* Once the host is served the system may stop. *)
Terminating == serving /\ UNCHANGED vars

MCFairSpec == Init /\ [][Next \/ Terminating]_vars /\ Fairness
=============================================================================
