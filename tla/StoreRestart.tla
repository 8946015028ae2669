---------------------------- MODULE StoreRestart ----------------------------
(***************************************************************************)
(* The idempotency store across restarts of the proxy process.             *)
(*                                                                         *)
(* The map is a field of an object built once per process                  *)
(* (guardedPipeline.ts:53) and written nowhere else, so a restart empties  *)
(* it.  Calls that were suspended die with the process; a forward that had *)
(* been started is out of the process's hands and may still take effect.   *)
(***************************************************************************)
EXTENDS IdempotencyStore

CONSTANT MaxRestarts    \* bound on the restarts of a behaviour

ASSUME MaxRestartsIsNat == MaxRestarts \in Nat

VARIABLES
  epoch,      \* number of restarts so far: the identity of the process
  bornIn      \* bornIn[c]: the epoch in which call c was made

restartVars == <<vars, epoch, bornIn>>

RestartInit ==
  /\ Init
  /\ epoch = 0
  /\ bornIn = [c \in Calls |-> 0]

(* A host calls runOnce in the running process. *)
Call(c) ==
  /\ RunOnceMalformed(c) \/ \E k \in Keys : RunOnce(c, k)
  /\ bornIn' = [bornIn EXCEPT ![c] = epoch]
  /\ UNCHANGED epoch

(* Forwards and promise reactions go on, also forwards whose process died.  *)
Forwarding(c) ==
  /\ StartForward(c) \/ SettleForward(c)
  /\ UNCHANGED <<epoch, bornIn>>

Resuming(c) ==
  /\ OwnerResumes(c) \/ JoinerResumes(c)
  /\ UNCHANGED <<epoch, bornIn>>

(* Mutant: the process comes back with the map of the one that died, whose  *)
(* pending entries wait for promises that no longer exist.                  *)
RestartKeepsMap ==
  /\ epoch < MaxRestarts
  /\ epoch' = epoch + 1
  /\ pc' = [c \in Calls |-> IF pc[c] \in {"owner", "joiner"} THEN "lost" ELSE pc[c]]
  /\ promise' = [c \in Calls |-> IF promise[c] = "queued" THEN "none" ELSE promise[c]]
  /\ waiters' = [c \in Calls |-> <<>>]
  /\ UNCHANGED <<store, key, outcome, answer, reused, bornIn>>

(* Mutant: scheduled forwards of the old process are replayed by the new    *)
(* one, with nothing in its map to show for them.                           *)
RestartReplaysQueued ==
  /\ epoch < MaxRestarts
  /\ epoch' = epoch + 1
  /\ store' = [k \in Keys |-> Absent]
  /\ pc' = [c \in Calls |-> IF pc[c] \in {"owner", "joiner"} THEN "lost" ELSE pc[c]]
  /\ waiters' = [c \in Calls |-> <<>>]
  /\ bornIn' = [c \in Calls |-> IF promise[c] = "queued" THEN epoch' ELSE bornIn[c]]
  /\ UNCHANGED <<key, promise, outcome, answer, reused>>

(* The process dies and is started again. *)
Restart ==
  /\ epoch < MaxRestarts
  /\ epoch' = epoch + 1
  /\ store' = [k \in Keys |-> Absent]
  /\ pc' = [c \in Calls |-> IF pc[c] \in {"owner", "joiner"} THEN "lost" ELSE pc[c]]
  /\ promise' = [c \in Calls |-> IF promise[c] = "queued" THEN "none" ELSE promise[c]]
  /\ waiters' = [c \in Calls |-> <<>>]
  /\ UNCHANGED <<key, outcome, answer, reused, bornIn>>

RestartNext ==
  \/ \E c \in Calls : Call(c) \/ Forwarding(c) \/ Resuming(c)
  \/ Restart

RestartSpec == RestartInit /\ [][RestartNext]_restartVars

(* As for the store alone; nothing obliges the process to die. *)
RestartFairness ==
  \A c \in Calls : WF_restartVars(Forwarding(c)) /\ WF_restartVars(Resuming(c))

-----------------------------------------------------------------------------
(* Properties. *)

(* Within one process a key is executed at most once, whatever the          *)
(* processes before it did and whatever of theirs is still running.         *)
AtMostOncePerProcess ==
  \A c, d \in Calls :
    Started(c) /\ Started(d) /\ key[c] = key[d] /\ bornIn[c] = bornIn[d] => c = d

(* No call is answered from an execution of a process that is gone: an      *)
(* answer for a well-formed key comes from a forward of the same process.   *)
AnsweredByOwnProcess ==
  \A c \in Calls :
    Finished(c) /\ key[c] # None =>
      \E d \in Calls : Started(d) /\ key[d] = key[c] /\ bornIn[d] = bornIn[c]
                         /\ outcome[d] = answer[c]

(* A call that is made is answered unless its process dies first.           *)
AnsweredOrLost ==
  \A c \in Calls : (pc[c] # "idle") ~> (Finished(c) \/ pc[c] = "lost")

-----------------------------------------------------------------------------
(* What one process promises, whatever the others did and still do. *)

(* The registers of AtMostOnce as process e keeps them: the forwards its    *)
(* calls started, what those settled with (also after its death), and the   *)
(* answers it gave.                                                         *)
RunsIn(e) == [k \in Keys |-> {c \in Calls : key[c] = k /\ bornIn[c] = e /\ Started(c)}]

SettledIn(e, k) == {c \in Calls : key[c] = k /\ bornIn[c] = e /\ promise[c] = "settled"}

VerdictsIn(e) == [k \in Keys |-> {outcome[c] : c \in SettledIn(e, k)}]

AnsweredIn(e) ==
  [c \in Calls |-> IF bornIn[c] = e /\ answer[c] # None THEN <<key[c], answer[c]>> ELSE None]

InProcess(e) == INSTANCE AtMostOnce WITH
                  runs <- RunsIn(e), verdicts <- VerdictsIn(e), answered <- AnsweredIn(e)

(* Each process implements AtMostOnce over the whole behaviour: no restart  *)
(* before, during or after it starts a forward of a key a second time,      *)
(* changes a verdict or lets a call of it be answered from elsewhere.  In   *)
(* the form TLC takes: every process starts as AtMostOnce does, and every   *)
(* step is a step of AtMostOnce, or a stutter, for every process at once.   *)
EachProcessImplementsAtMostOnce ==
  /\ \A e \in 0 .. MaxRestarts : InProcess(e)!Init
  /\ [][\A e \in 0 .. MaxRestarts : [InProcess(e)!Next]_(InProcess(e)!vars)]_restartVars

=============================================================================
