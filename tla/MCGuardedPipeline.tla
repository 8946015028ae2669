-------------------------- MODULE MCGuardedPipeline --------------------------
(* Instances of the guarded pipeline small enough for TLC. *)
EXTENDS GuardedPipeline, TLC

Ask(id, class, exposure, default, evidence, consent) ==
  [id |-> id, class |-> class, exposure |-> exposure, default |-> default,
   evidence |-> evidence, consent |-> consent]

Transfer == Ask("transfer", "transaction_execute", "visible", "block", TRUE, TRUE)
Approve  == Ask("approve", "token_approval", "visible", "block", TRUE, TRUE)
Balance  == Ask("balance", "read_only", "visible", "allow", TRUE, TRUE)
Garbled  == Ask("garbled", "read_only", "malformed", "allow", TRUE, TRUE)
Drifted  == Ask("drifted", "read_only", "drifted", "allow", TRUE, TRUE)
NoTarget == Ask("no target", "transaction_execute", "visible", "block", TRUE, FALSE)
NoAmount == Ask("no amount", "chain_management", "visible", "block", FALSE, TRUE)

(* Requests forwarded once and directly, with and without a simulation, and *)
(* refused at each of the gates.  A signature is simulated as a transfer is *)
(* and forwarded as a balance is.                                           *)
EveryPath == {Transfer, Balance, Garbled, Drifted, NoTarget, NoAmount}

(* Retries of one intent. *)
Retries == {Approve}

(* The two kinds of forward, once and direct. *)
Forwards == {Transfer, Balance}

(* A policy in force and a frozen one.  Neither lets Balance through, but   *)
(* the caps and the tools of the first with the recipients of the second do.*)
OpenOrFrozen ==
  {[frozen |-> FALSE, caps |-> Requests,
    lists |-> [l \in Lists |-> IF l = "tools" THEN Requests ELSE Requests \ {Balance}]],
   [frozen |-> TRUE, caps |-> Requests \ {Balance},
    lists |-> [l \in Lists |-> IF l = "tools" THEN Requests \ {Balance} ELSE Requests]]}

(* Frozen or not, and every part permits everything or nothing. *)
OpenOrShut == [frozen : BOOLEAN, caps : {{}, Requests},
               lists : [Lists -> {{}, Requests}]]

(* The policy that lets the pipeline run to its end. *)
Open == [frozen : {FALSE}, caps : {Requests}, lists : [Lists -> {Requests}]]

(* Who makes a call does not matter. *)
CallSymmetry == Permutations(Calls)

(* When every call is answered the system may stop. *)
Terminating == (\A c \in Calls : stage[c] = "done") /\ UNCHANGED vars

MCSpec == Init /\ [][Next \/ Terminating]_vars
MCFairSpec == MCSpec /\ Fairness
=============================================================================
