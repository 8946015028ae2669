--------------------------- MODULE MCStoreRestart ---------------------------
(* Instances of the store with restarts for TLC. *)
EXTENDS StoreRestart

(* The system stops when every call was made and ended one way or another;  *)
(* stopping earlier is a deadlock.                                          *)
Terminating ==
  /\ \A c \in Calls : Finished(c) \/ pc[c] = "lost"
  /\ UNCHANGED restartVars

BoundedRestartSpec == RestartInit /\ [][RestartNext \/ Terminating]_restartVars

BoundedRestartFairSpec == BoundedRestartSpec /\ RestartFairness
=============================================================================
