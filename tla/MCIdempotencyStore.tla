------------------------- MODULE MCIdempotencyStore -------------------------
(* Instances of the idempotency store small enough for TLC. *)
EXTENDS IdempotencyStore

(* Sanity: a call may be made only a bounded number of times, so the system *)
(* stops once every call is answered; stopping earlier is a deadlock.       *)
AllAnswered == \A c \in Calls : Finished(c)

Terminating == AllAnswered /\ UNCHANGED vars

BoundedSpec == Init /\ [][Next \/ Terminating]_vars

BoundedFairSpec == BoundedSpec /\ Fairness
=============================================================================
