------------------------- MODULE StoreRestartProofs -------------------------
(***************************************************************************)
(* What each process of the proxy guarantees, for any number of calls,     *)
(* keys and restarts.                                                      *)
(*                                                                         *)
(* The argument is about the process that is running.  Seen from inside    *)
(* it, calls of processes that are gone were never made: RunningStore is   *)
(* the store of IdempotencyStore with those calls masked out.  A step of   *)
(* the running process is a step of RunningStore, a forward of a dead one  *)
(* that settles is invisible to it, and a restart puts it back into its    *)
(* initial state.  So its invariant holds in every process, and what is    *)
(* left to show is that nothing a dead process left behind ever changes.   *)
(***************************************************************************)
EXTENDS StoreRestart, TLAPS

(* f as the running process sees it: a call it did not get has no trace.    *)
Mine(f, none) == [c \in Calls |-> IF bornIn[c] = epoch THEN f[c] ELSE none]

RunningStore == INSTANCE IdempotencyStoreProofs WITH
                  key     <- Mine(key, None),
                  pc      <- Mine(pc, "idle"),
                  promise <- Mine(promise, "none"),
                  outcome <- Mine(outcome, None),
                  answer  <- Mine(answer, None),
                  reused  <- Mine(reused, FALSE)

(* Every variable keeps its shape; a call may be lost. *)
RestartTypeOK ==
  /\ store \in [Keys -> Entry]
  /\ key \in [Calls -> Keys \cup {None}]
  /\ pc \in [Calls -> {"idle", "owner", "joiner", "returned", "threw", "lost"}]
  /\ promise \in [Calls -> {"none", "queued", "running", "settled"}]
  /\ outcome \in [Calls -> Outcomes \cup {None}]
  /\ waiters \in [Calls -> Seq(Calls)]
  /\ answer \in [Calls -> Outcomes \cup {KeyError, None}]
  /\ reused \in [Calls -> BOOLEAN]
  /\ epoch \in 0 .. MaxRestarts
  /\ bornIn \in [Calls -> 0 .. MaxRestarts]

(* A call that was not made left no trace. *)
UnmadeInv ==
  \A c \in Calls : pc[c] = "idle" =>
    /\ key[c] = None /\ promise[c] = "none" /\ outcome[c] = None
    /\ answer[c] = None /\ reused[c] = FALSE

(* Nothing of a dead process is scheduled or suspended: at most a forward   *)
(* of it is still running.  Only dead processes have lost calls.            *)
DeadInv ==
  \A c \in Calls :
    /\ bornIn[c] <= epoch
    /\ bornIn[c] # epoch => /\ pc[c] \in {"idle", "returned", "threw", "lost"}
                            /\ promise[c] # "queued"
                            /\ waiters[c] = <<>>
    /\ pc[c] = "lost" => bornIn[c] # epoch

(* A promise has a key of its own within its process, and an outcome once   *)
(* it settled.                                                              *)
PromisesInv ==
  /\ \A c \in Calls : promise[c] # "none" => key[c] \in Keys
  /\ \A c \in Calls : promise[c] = "settled" => outcome[c] \in Outcomes
  /\ \A c, d \in Calls :
       promise[c] # "none" /\ promise[d] # "none" /\ key[c] = key[d] /\ bornIn[c] = bornIn[d]
         => c = d

(* An answer is given once, and comes from a settled promise of the process. *)
AnswersInv ==
  /\ \A c \in Calls : ~Finished(c) => answer[c] = None
  /\ \A c \in Calls : Finished(c) /\ key[c] # None =>
       \E d \in Calls : /\ key[d] = key[c] /\ bornIn[d] = bornIn[c]
                        /\ promise[d] = "settled" /\ outcome[d] = answer[c]

RestartInv ==
  /\ RestartTypeOK /\ UnmadeInv /\ DeadInv /\ PromisesInv /\ AnswersInv
  /\ RunningStore!StoreInv

-----------------------------------------------------------------------------
LEMMA StartsWell == RestartInit => RestartInv
<1> SUFFICES ASSUME RestartInit PROVE RestartInv
  OBVIOUS
<1>1. RestartTypeOK
  BY MaxRestartsIsNat DEF RestartInit, Init, RestartTypeOK, Entry, Absent
<1>2. UnmadeInv /\ DeadInv /\ PromisesInv /\ AnswersInv
  BY DEF RestartInit, Init, UnmadeInv, DeadInv, PromisesInv, AnswersInv, Finished
<1>3. RunningStore!Init
  BY DEF RestartInit, Init, RunningStore!Init, Mine, Absent, RunningStore!Absent
<1>4. RunningStore!StoreInv
  BY <1>3, RunningStore!StoreInvInit, NoneIsNothing, OutcomesAreDistinct
<1> QED
  BY <1>1, <1>2, <1>4 DEF RestartInv

(* Every variable keeps its shape in every step. *)
LEMMA RestartTypeStep == RestartInv /\ RestartNext => RestartTypeOK'
<1> SUFFICES ASSUME RestartInv, RestartNext PROVE RestartTypeOK'
  OBVIOUS
<1> USE NoneIsNothing, OutcomesAreDistinct, MaxRestartsIsNat DEF RestartTypeOK, Entry, Outcomes
<1>0. RestartTypeOK
  BY DEF RestartInv
<1>1. ASSUME NEW c \in Calls, RunOnceMalformed(c), Call(c) PROVE RestartTypeOK'
  BY <1>0, <1>1 DEF RunOnceMalformed, Finish, Call
<1>2. ASSUME NEW c \in Calls, NEW k \in Keys, RunOnceFresh(c, k), Call(c) PROVE RestartTypeOK'
  BY <1>0, <1>2 DEF RunOnceFresh, Pending, Call
<1>3. ASSUME NEW c \in Calls, NEW k \in Keys, RunOnceJoin(c, k), Call(c) PROVE RestartTypeOK'
  <2>1. waiters' \in [Calls -> Seq(Calls)]
    <3>1. \A d \in Calls : Append(waiters[d], c) \in Seq(Calls)
      BY <1>0
    <3> QED
      BY <1>0, <1>3, <3>1 DEF RunOnceJoin
  <2> QED
    BY <1>0, <1>3, <2>1 DEF RunOnceJoin, Call
<1>4. ASSUME NEW c \in Calls, NEW k \in Keys, RunOnceSettled(c, k), Call(c) PROVE RestartTypeOK'
  BY <1>0, <1>4 DEF RunOnceSettled, Finish, Call
<1>5. ASSUME NEW c \in Calls, StartForward(c), Forwarding(c) PROVE RestartTypeOK'
  BY <1>0, <1>5 DEF StartForward, Forwarding
<1>6. ASSUME NEW c \in Calls, SettleForward(c), Forwarding(c) PROVE RestartTypeOK'
  BY <1>0, <1>6 DEF SettleForward, Forwarding
<1>7. ASSUME NEW c \in Calls, OwnerResumes(c), Resuming(c) PROVE RestartTypeOK'
  <2>1. store' \in [Keys -> Entry]
    BY <1>0, <1>7 DEF OwnerResumes, Committed
  <2>2. waiters' \in [Calls -> Seq(Calls)]
    BY <1>0, <1>7 DEF OwnerResumes
  <2> QED
    BY <1>0, <1>7, <2>1, <2>2 DEF OwnerResumes, Finish, Resuming
<1>8. ASSUME NEW c \in Calls, JoinerResumes(c), Resuming(c) PROVE RestartTypeOK'
  BY <1>0, <1>8 DEF JoinerResumes, Finish, Resuming
<1>9. ASSUME Restart PROVE RestartTypeOK'
  BY <1>0, <1>9 DEF Restart, Absent
<1> QED
  BY <1>1, <1>2, <1>3, <1>4, <1>5, <1>6, <1>7, <1>8, <1>9
     DEF RestartNext, Call, Forwarding, Resuming, RunOnce

(* What a step keeps: a settled promise stays as it is; a call of a dead    *)
(* process (after the step) at most sees its running forward settle; and a  *)
(* call nobody has made is untouched.                                       *)
LEMMA Kept ==
  ASSUME RestartInv, RestartNext, NEW d \in Calls
  PROVE  /\ promise[d] = "settled" => /\ promise'[d] = "settled" /\ outcome'[d] = outcome[d]
                                      /\ key'[d] = key[d] /\ bornIn'[d] = bornIn[d]
         /\ bornIn'[d] # epoch' =>
              /\ bornIn'[d] = bornIn[d] /\ key'[d] = key[d] /\ answer'[d] = answer[d]
              /\ pc'[d] = pc[d] \/ (~Finished(d) /\ pc'[d] = "lost")
              /\ \/ promise'[d] = promise[d] /\ outcome'[d] = outcome[d]
                 \/ promise[d] = "queued" /\ promise'[d] = "none" /\ outcome'[d] = outcome[d]
                 \/ promise[d] = "running" /\ promise'[d] = "settled" /\ outcome'[d] \in Outcomes
         /\ pc'[d] = "idle" =>
              /\ pc[d] = "idle" /\ key'[d] = key[d] /\ promise'[d] = promise[d]
              /\ outcome'[d] = outcome[d] /\ answer'[d] = answer[d] /\ reused'[d] = reused[d]
<1> DEFINE Goal ==
  /\ promise[d] = "settled" => /\ promise'[d] = "settled" /\ outcome'[d] = outcome[d]
                               /\ key'[d] = key[d] /\ bornIn'[d] = bornIn[d]
  /\ bornIn'[d] # epoch' =>
       /\ bornIn'[d] = bornIn[d] /\ key'[d] = key[d] /\ answer'[d] = answer[d]
       /\ pc'[d] = pc[d] \/ (~Finished(d) /\ pc'[d] = "lost")
       /\ \/ promise'[d] = promise[d] /\ outcome'[d] = outcome[d]
          \/ promise[d] = "queued" /\ promise'[d] = "none" /\ outcome'[d] = outcome[d]
          \/ promise[d] = "running" /\ promise'[d] = "settled" /\ outcome'[d] \in Outcomes
  /\ pc'[d] = "idle" =>
       /\ pc[d] = "idle" /\ key'[d] = key[d] /\ promise'[d] = promise[d]
       /\ outcome'[d] = outcome[d] /\ answer'[d] = answer[d] /\ reused'[d] = reused[d]
<1> SUFFICES Goal
  OBVIOUS
<1>0. RestartTypeOK /\ UnmadeInv /\ DeadInv
  BY DEF RestartInv
<1>1. ASSUME NEW c \in Calls, RunOnceMalformed(c), Call(c) PROVE Goal
  BY <1>0, <1>1 DEF RunOnceMalformed, Finish, Call, RestartTypeOK, UnmadeInv
<1>2. ASSUME NEW c \in Calls, NEW k \in Keys, RunOnceFresh(c, k), Call(c) PROVE Goal
  BY <1>0, <1>2 DEF RunOnceFresh, Call, RestartTypeOK, UnmadeInv
<1>3. ASSUME NEW c \in Calls, NEW k \in Keys, RunOnceJoin(c, k), Call(c) PROVE Goal
  BY <1>0, <1>3 DEF RunOnceJoin, Call, RestartTypeOK, UnmadeInv
<1>4. ASSUME NEW c \in Calls, NEW k \in Keys, RunOnceSettled(c, k), Call(c) PROVE Goal
  BY <1>0, <1>4 DEF RunOnceSettled, Finish, Call, RestartTypeOK, UnmadeInv
<1>5. ASSUME NEW c \in Calls, StartForward(c), Forwarding(c) PROVE Goal
  BY <1>0, <1>5 DEF StartForward, Forwarding, RestartTypeOK, UnmadeInv, DeadInv
<1>6. ASSUME NEW c \in Calls, SettleForward(c), Forwarding(c) PROVE Goal
  BY <1>0, <1>6 DEF SettleForward, Forwarding, RestartTypeOK, UnmadeInv
<1>7. ASSUME NEW c \in Calls, OwnerResumes(c), Resuming(c) PROVE Goal
  BY <1>0, <1>7 DEF OwnerResumes, Finish, Resuming, RestartTypeOK, DeadInv
<1>8. ASSUME NEW p \in Calls, JoinerResumes(p), Resuming(p) PROVE Goal
  <2> DEFINE c == Head(waiters[p])
  <2>1. c \in Calls /\ pc[c] = "joiner"
    BY <1>0, <1>8 DEF JoinerResumes, RestartTypeOK
  <2>2. bornIn[c] = epoch
    BY <1>0, <2>1 DEF DeadInv
  <2>3. /\ pc'[c] # "idle"
        /\ \A e \in Calls \ {c} : pc'[e] = pc[e] /\ answer'[e] = answer[e] /\ reused'[e] = reused[e]
        /\ UNCHANGED <<key, promise, outcome, epoch, bornIn>>
    BY <1>0, <1>8 DEF JoinerResumes, Finish, Resuming, RestartTypeOK
  <2> HIDE DEF c
  <2> QED
    BY <2>1, <2>2, <2>3
<1>9. ASSUME Restart PROVE Goal
  BY <1>0, <1>9 DEF Restart, RestartTypeOK, UnmadeInv, Finished
<1> QED
  BY <1>1, <1>2, <1>3, <1>4, <1>5, <1>6, <1>7, <1>8, <1>9
     DEF RestartNext, Call, Forwarding, Resuming, RunOnce

-----------------------------------------------------------------------------
(* The running process. *)

(* A step of the running process that concerns call c only.                 *)
Concerns(c) ==
  /\ epoch' = epoch /\ bornIn'[c] = epoch
  /\ \A d \in Calls \ {c} : bornIn'[d] = bornIn[d]

(* c resolves or rejects, as the process sees it. *)
LEMMA MineFinish ==
  ASSUME RestartTypeOK, NEW c \in Calls, Concerns(c), NEW o, NEW again, Finish(c, o, again)
  PROVE  RunningStore!Finish(c, o, again)
<1>1. DOMAIN pc = Calls /\ DOMAIN answer = Calls /\ DOMAIN reused = Calls
  BY DEF RestartTypeOK
<1>2. Mine(pc, "idle")' = [Mine(pc, "idle") EXCEPT ![c] = IF o \in Results THEN "returned" ELSE "threw"]
  BY <1>1 DEF Concerns, Finish, Mine
<1>3. Mine(answer, None)' = [Mine(answer, None) EXCEPT ![c] = o]
  BY <1>1 DEF Concerns, Finish, Mine
<1>4. Mine(reused, FALSE)' = [Mine(reused, FALSE) EXCEPT ![c] = again /\ o \in Results]
  BY <1>1 DEF Concerns, Finish, Mine
<1> QED
  BY <1>2, <1>3, <1>4 DEF RunningStore!Finish

(* A step of the running process is a step of its store; the forward of a   *)
(* dead process that settles is none of its business.                       *)
LEMMA RunningStep ==
  ASSUME RestartInv, RestartNext, ~Restart
  PROVE  [RunningStore!Next]_(RunningStore!vars)
<1>0. RestartTypeOK /\ UnmadeInv /\ DeadInv
  BY DEF RestartInv
<1>d. DOMAIN key = Calls /\ DOMAIN pc = Calls /\ DOMAIN promise = Calls /\ DOMAIN outcome = Calls
  BY <1>0 DEF RestartTypeOK
<1>c. ASSUME NEW c \in Calls, Call(c), pc[c] = "idle"
      PROVE  /\ Concerns(c)
             /\ key[c] = None /\ promise[c] = "none" /\ outcome[c] = None
             /\ answer[c] = None /\ reused[c] = FALSE
             /\ Mine(pc, "idle")[c] = "idle"
  BY <1>0, <1>c DEF Call, Concerns, RestartTypeOK, UnmadeInv, Mine
<1>1. ASSUME NEW c \in Calls, RunOnceMalformed(c), Call(c) PROVE RunningStore!RunOnceMalformed(c)
  <2>1. pc[c] = "idle" /\ Finish(c, KeyError, FALSE) /\ UNCHANGED <<store, key, promise, outcome, waiters>>
    BY <1>1 DEF RunOnceMalformed
  <2>2. RunningStore!Finish(c, KeyError, FALSE)
    BY <1>0, <1>1, <1>c, <2>1, MineFinish
  <2>3. UNCHANGED <<Mine(key, None), Mine(promise, "none"), Mine(outcome, None)>>
    BY <1>1, <1>c, <2>1 DEF Concerns, Mine
  <2> QED
    BY <1>1, <1>c, <2>1, <2>2, <2>3 DEF RunningStore!RunOnceMalformed
<1>2. ASSUME NEW c \in Calls, NEW k \in Keys, RunOnceFresh(c, k), Call(c)
      PROVE  RunningStore!RunOnceFresh(c, k)
  <2>1. /\ pc[c] = "idle" /\ store[k].status = "absent"
        /\ key' = [key EXCEPT ![c] = k] /\ promise' = [promise EXCEPT ![c] = "queued"]
        /\ pc' = [pc EXCEPT ![c] = "owner"]
        /\ store' = [store EXCEPT ![k] = RunningStore!Pending(c)]
        /\ waiters' = [waiters EXCEPT ![c] = <<c>>]
        /\ UNCHANGED <<outcome, answer, reused>>
    BY <1>2 DEF RunOnceFresh, Pending, RunningStore!Pending
  <2>0. /\ Concerns(c) /\ outcome[c] = None /\ answer[c] = None /\ reused[c] = FALSE
        /\ Mine(pc, "idle")[c] = "idle"
    BY <1>2, <1>c, <2>1
  <2>2. Mine(key, None)' = [Mine(key, None) EXCEPT ![c] = k]
    BY <1>d, <2>0, <2>1 DEF Concerns, Mine
  <2>3. Mine(promise, "none")' = [Mine(promise, "none") EXCEPT ![c] = "queued"]
    BY <1>d, <2>0, <2>1 DEF Concerns, Mine
  <2>4. Mine(pc, "idle")' = [Mine(pc, "idle") EXCEPT ![c] = "owner"]
    BY <1>d, <2>0, <2>1 DEF Concerns, Mine
  <2>5. UNCHANGED <<Mine(outcome, None), Mine(answer, None), Mine(reused, FALSE)>>
    BY <2>0, <2>1 DEF Concerns, Mine
  <2> QED
    BY <2>0, <2>1, <2>2, <2>3, <2>4, <2>5 DEF RunningStore!RunOnceFresh
<1>3. ASSUME NEW c \in Calls, NEW k \in Keys, RunOnceJoin(c, k), Call(c)
      PROVE  RunningStore!RunOnceJoin(c, k)
  <2>1. /\ pc[c] = "idle" /\ store[k].status = "pending"
        /\ key' = [key EXCEPT ![c] = k] /\ pc' = [pc EXCEPT ![c] = "joiner"]
        /\ waiters' = [waiters EXCEPT ![store[k].by] = Append(@, c)]
        /\ UNCHANGED <<store, promise, outcome, answer, reused>>
    BY <1>3 DEF RunOnceJoin
  <2>0. /\ Concerns(c) /\ promise[c] = "none" /\ outcome[c] = None
        /\ answer[c] = None /\ reused[c] = FALSE /\ Mine(pc, "idle")[c] = "idle"
    BY <1>3, <1>c, <2>1
  <2>2. Mine(key, None)' = [Mine(key, None) EXCEPT ![c] = k]
    BY <1>d, <2>0, <2>1 DEF Concerns, Mine
  <2>3. Mine(pc, "idle")' = [Mine(pc, "idle") EXCEPT ![c] = "joiner"]
    BY <1>d, <2>0, <2>1 DEF Concerns, Mine
  <2>4. UNCHANGED <<Mine(promise, "none"), Mine(outcome, None), Mine(answer, None), Mine(reused, FALSE)>>
    BY <2>0, <2>1 DEF Concerns, Mine
  <2> QED
    BY <2>0, <2>1, <2>2, <2>3, <2>4 DEF RunningStore!RunOnceJoin
<1>4. ASSUME NEW c \in Calls, NEW k \in Keys, RunOnceSettled(c, k), Call(c)
      PROVE  RunningStore!RunOnceSettled(c, k)
  <2>1. /\ pc[c] = "idle" /\ store[k].status \in {"done", "failed"}
        /\ key' = [key EXCEPT ![c] = k] /\ Finish(c, store[k].value, TRUE)
        /\ UNCHANGED <<store, promise, outcome, waiters>>
    BY <1>4 DEF RunOnceSettled
  <2>0. /\ Concerns(c) /\ promise[c] = "none" /\ outcome[c] = None
        /\ Mine(pc, "idle")[c] = "idle"
    BY <1>4, <1>c, <2>1
  <2>2. RunningStore!Finish(c, store[k].value, TRUE)
    BY <1>0, <2>0, <2>1, MineFinish
  <2>3. Mine(key, None)' = [Mine(key, None) EXCEPT ![c] = k]
    BY <1>d, <2>0, <2>1 DEF Concerns, Mine
  <2>4. UNCHANGED <<Mine(promise, "none"), Mine(outcome, None)>>
    BY <2>0, <2>1 DEF Concerns, Mine
  <2> QED
    BY <2>0, <2>1, <2>2, <2>3, <2>4 DEF RunningStore!RunOnceSettled
<1>5. ASSUME NEW c \in Calls, StartForward(c), Forwarding(c) PROVE RunningStore!StartForward(c)
  <2>1. /\ promise[c] = "queued" /\ promise' = [promise EXCEPT ![c] = "running"]
        /\ UNCHANGED <<store, key, pc, outcome, waiters, answer, reused, epoch, bornIn>>
    BY <1>5 DEF StartForward, Forwarding
  <2>2. bornIn[c] = epoch
    BY <1>0, <2>1 DEF DeadInv
  <2>3. Mine(promise, "none")[c] = "queued" /\ Concerns(c)
    BY <2>1, <2>2 DEF Mine, Concerns
  <2>4. Mine(promise, "none")' = [Mine(promise, "none") EXCEPT ![c] = "running"]
    BY <1>d, <2>1, <2>3 DEF Concerns, Mine
  <2>5. UNCHANGED <<Mine(key, None), Mine(pc, "idle"), Mine(outcome, None), Mine(answer, None), Mine(reused, FALSE)>>
    BY <2>1 DEF Mine
  <2> QED
    BY <2>1, <2>3, <2>4, <2>5 DEF RunningStore!StartForward
<1>6. ASSUME NEW c \in Calls, SettleForward(c), Forwarding(c)
      PROVE  RunningStore!SettleForward(c) \/ UNCHANGED RunningStore!vars
  <2>1. /\ promise[c] = "running" /\ promise' = [promise EXCEPT ![c] = "settled"]
        /\ UNCHANGED <<store, key, pc, waiters, answer, reused, epoch, bornIn>>
    BY <1>6 DEF SettleForward, Forwarding
  <2>2. PICK o \in Outcomes : outcome' = [outcome EXCEPT ![c] = o]
    BY <1>6 DEF SettleForward
  <2>3. UNCHANGED <<Mine(key, None), Mine(pc, "idle"), Mine(answer, None), Mine(reused, FALSE)>>
    BY <2>1 DEF Mine
  <2>4. CASE bornIn[c] = epoch
    <3>1. Mine(promise, "none")[c] = "running" /\ Concerns(c)
      BY <2>1, <2>4 DEF Mine, Concerns
    <3>2. /\ Mine(promise, "none")' = [Mine(promise, "none") EXCEPT ![c] = "settled"]
          /\ Mine(outcome, None)' = [Mine(outcome, None) EXCEPT ![c] = o]
      BY <1>d, <2>1, <2>2, <3>1 DEF Concerns, Mine
    <3> QED
      BY <2>1, <2>3, <3>1, <3>2 DEF RunningStore!SettleForward, RunningStore!Outcomes, Outcomes
  <2>5. CASE bornIn[c] # epoch
    <3>1. UNCHANGED <<Mine(promise, "none"), Mine(outcome, None)>>
      BY <1>d, <2>1, <2>2, <2>5 DEF Mine
    <3> QED
      BY <2>1, <2>3, <3>1 DEF RunningStore!vars
  <2> QED
    BY <2>4, <2>5
<1>7. ASSUME NEW c \in Calls, OwnerResumes(c), Resuming(c) PROVE RunningStore!OwnerResumes(c)
  <2>1. /\ promise[c] = "settled" /\ waiters[c] # <<>> /\ Head(waiters[c]) = c /\ pc[c] = "owner"
        /\ store' = [store EXCEPT ![key[c]] = RunningStore!Committed(outcome[c])]
        /\ waiters' = [waiters EXCEPT ![c] = Tail(@)]
        /\ Finish(c, outcome[c], FALSE)
        /\ UNCHANGED <<key, promise, outcome, epoch, bornIn>>
    BY <1>7 DEF OwnerResumes, Resuming, Committed, RunningStore!Committed
  <2>2. bornIn[c] = epoch
    BY <1>0, <2>1 DEF DeadInv
  <2>3. /\ Concerns(c) /\ Mine(promise, "none")[c] = "settled" /\ Mine(pc, "idle")[c] = "owner"
        /\ Mine(key, None)[c] = key[c] /\ Mine(outcome, None)[c] = outcome[c]
    BY <2>1, <2>2 DEF Mine, Concerns
  <2>4. RunningStore!Finish(c, outcome[c], FALSE)
    BY <1>0, <2>1, <2>3, MineFinish
  <2>5. UNCHANGED <<Mine(key, None), Mine(promise, "none"), Mine(outcome, None)>>
    BY <2>1 DEF Mine
  <2> QED
    BY <2>1, <2>3, <2>4, <2>5 DEF RunningStore!OwnerResumes
<1>8. ASSUME NEW p \in Calls, JoinerResumes(p), Resuming(p) PROVE RunningStore!JoinerResumes(p)
  <2> DEFINE c == Head(waiters[p])
  <2>0. waiters[p] \in Seq(Calls) /\ waiters[p] # <<>>
    BY <1>0, <1>8 DEF JoinerResumes, RestartTypeOK
  <2>c. c \in Calls
    BY <2>0
  <2>1. /\ promise[p] = "settled" /\ waiters[p] # <<>> /\ pc[c] = "joiner"
        /\ waiters' = [waiters EXCEPT ![p] = Tail(@)]
        /\ Finish(c, outcome[p], TRUE)
        /\ UNCHANGED <<store, key, promise, outcome, epoch, bornIn>>
    BY <1>8 DEF JoinerResumes, Resuming
  <2> HIDE DEF c
  <2>2. bornIn[c] = epoch /\ bornIn[p] = epoch
    BY <1>0, <2>1, <2>c DEF DeadInv
  <2>3. /\ Concerns(c) /\ Mine(promise, "none")[p] = "settled" /\ Mine(pc, "idle")[c] = "joiner"
        /\ Mine(outcome, None)[p] = outcome[p]
    BY <2>1, <2>2, <2>c DEF Mine, Concerns
  <2>4. RunningStore!Finish(c, outcome[p], TRUE)
    BY <1>0, <2>1, <2>3, <2>c, MineFinish
  <2>5. UNCHANGED <<Mine(key, None), Mine(promise, "none"), Mine(outcome, None)>>
    BY <2>1 DEF Mine
  <2> QED
    BY <2>1, <2>3, <2>4, <2>5 DEF RunningStore!JoinerResumes, c
<1> QED
  BY <1>1, <1>2, <1>3, <1>4, <1>5, <1>6, <1>7, <1>8
     DEF RestartNext, Call, Forwarding, Resuming, RunOnce, RunningStore!Next, RunningStore!RunOnce

-----------------------------------------------------------------------------
(* The invariant. *)

(* Dead processes stay dead. *)
LEMMA DeadStep == RestartInv /\ RestartNext => DeadInv'
<1> SUFFICES ASSUME RestartInv, RestartNext PROVE DeadInv'
  OBVIOUS
<1>0. RestartTypeOK /\ UnmadeInv /\ DeadInv
  BY DEF RestartInv
<1> USE MaxRestartsIsNat
<1>1. ASSUME NEW c \in Calls, RunOnceMalformed(c), Call(c) PROVE DeadInv'
  BY <1>0, <1>1 DEF RunOnceMalformed, Finish, Call, RestartTypeOK, DeadInv
<1>2. ASSUME NEW c \in Calls, NEW k \in Keys, RunOnceFresh(c, k), Call(c) PROVE DeadInv'
  BY <1>0, <1>2 DEF RunOnceFresh, Call, RestartTypeOK, DeadInv
<1>3. ASSUME NEW c \in Calls, NEW k \in Keys, RunOnceJoin(c, k), Call(c) PROVE DeadInv'
  <2> DEFINE o == store[k].by
  <2>1. o \in Calls /\ bornIn[o] = epoch
    <3>1. o \in Calls /\ Mine(pc, "idle")[o] = "owner"
      BY <1>3 DEF RestartInv, RunningStore!StoreInv, RunningStore!PendingInv, RunOnceJoin
    <3> QED
      BY <3>1 DEF Mine
  <2>2. /\ \A d \in Calls \ {o} : waiters'[d] = waiters[d]
        /\ pc'[c] = "joiner" /\ \A d \in Calls \ {c} : pc'[d] = pc[d] /\ bornIn'[d] = bornIn[d]
        /\ bornIn'[c] = epoch /\ UNCHANGED <<promise, epoch>>
    BY <1>0, <1>3, <2>1 DEF RunOnceJoin, Call, RestartTypeOK
  <2> HIDE DEF o
  <2>3. bornIn'[o] = epoch /\ epoch <= epoch
    BY <1>0, <2>1, <2>2 DEF RestartTypeOK
  <2> QED
    BY <1>0, <2>1, <2>2, <2>3 DEF DeadInv
<1>4. ASSUME NEW c \in Calls, NEW k \in Keys, RunOnceSettled(c, k), Call(c) PROVE DeadInv'
  BY <1>0, <1>4 DEF RunOnceSettled, Finish, Call, RestartTypeOK, DeadInv
<1>5. ASSUME NEW c \in Calls, StartForward(c), Forwarding(c) PROVE DeadInv'
  BY <1>0, <1>5 DEF StartForward, Forwarding, RestartTypeOK, DeadInv
<1>6. ASSUME NEW c \in Calls, SettleForward(c), Forwarding(c) PROVE DeadInv'
  BY <1>0, <1>6 DEF SettleForward, Forwarding, RestartTypeOK, DeadInv
<1>7. ASSUME NEW c \in Calls, OwnerResumes(c), Resuming(c) PROVE DeadInv'
  <2>1. bornIn[c] = epoch /\ UNCHANGED <<promise, epoch, bornIn>>
    BY <1>0, <1>7 DEF OwnerResumes, Resuming, DeadInv
  <2>2. /\ \A d \in Calls \ {c} : pc'[d] = pc[d] /\ waiters'[d] = waiters[d]
        /\ pc'[c] \in {"returned", "threw"}
    BY <1>0, <1>7 DEF OwnerResumes, Finish, RestartTypeOK
  <2> QED
    BY <1>0, <2>1, <2>2 DEF DeadInv
<1>8. ASSUME NEW p \in Calls, JoinerResumes(p), Resuming(p) PROVE DeadInv'
  <2> DEFINE c == Head(waiters[p])
  <2>1. bornIn[p] = epoch /\ UNCHANGED <<promise, epoch, bornIn>>
    BY <1>0, <1>8 DEF JoinerResumes, Resuming, DeadInv
  <2>2. /\ \A d \in Calls \ {p} : waiters'[d] = waiters[d]
        /\ \A d \in Calls : pc'[d] = pc[d] \/ pc'[d] \in {"returned", "threw"}
    BY <1>0, <1>8 DEF JoinerResumes, Finish, RestartTypeOK
  <2> QED
    BY <1>0, <2>1, <2>2 DEF DeadInv
<1>9. ASSUME Restart PROVE DeadInv'
  <2>1. epoch \in Nat /\ epoch' = epoch + 1 /\ \A d \in Calls : bornIn[d] \in Nat /\ bornIn'[d] = bornIn[d]
    BY <1>0, <1>9 DEF Restart, RestartTypeOK
  <2>2. \A d \in Calls : bornIn'[d] <= epoch' /\ bornIn'[d] # epoch'
    BY <1>0, <2>1 DEF DeadInv
  <2>3. \A d \in Calls : /\ pc'[d] \in {"idle", "returned", "threw", "lost"}
                        /\ promise'[d] # "queued" /\ waiters'[d] = <<>>
    BY <1>0, <1>9 DEF Restart, RestartTypeOK
  <2> QED
    BY <2>2, <2>3 DEF DeadInv
<1> QED
  BY <1>1, <1>2, <1>3, <1>4, <1>5, <1>6, <1>7, <1>8, <1>9
     DEF RestartNext, Call, Forwarding, Resuming, RunOnce

(* The store as the running process sees it keeps its shape. *)
LEMMA RunningTypes == RestartTypeOK /\ DeadInv => RunningStore!TypeOK
<1> SUFFICES ASSUME RestartTypeOK, DeadInv PROVE RunningStore!TypeOK
  OBVIOUS
<1>1. Mine(key, None) \in [Calls -> Keys \cup {None}]
  BY DEF RestartTypeOK, Mine
<1>2. Mine(pc, "idle") \in [Calls -> {"idle", "owner", "joiner", "returned", "threw"}]
  BY DEF RestartTypeOK, DeadInv, Mine
<1>3. Mine(promise, "none") \in [Calls -> {"none", "queued", "running", "settled"}]
  BY DEF RestartTypeOK, Mine
<1>4. Mine(outcome, None) \in [Calls -> Outcomes \cup {None}]
  BY DEF RestartTypeOK, Mine
<1>5. Mine(answer, None) \in [Calls -> Outcomes \cup {KeyError, None}]
  BY DEF RestartTypeOK, Mine
<1>6. Mine(reused, FALSE) \in [Calls -> BOOLEAN]
  BY DEF RestartTypeOK, Mine
<1> QED
  BY <1>1, <1>2, <1>3, <1>4, <1>5, <1>6
     DEF RestartTypeOK, RunningStore!TypeOK, RunningStore!Entry, Entry, RunningStore!Outcomes, Outcomes

LEMMA RunningStoreStarts == RunningStore!Init => RunningStore!StoreInv
BY RunningStore!StoreInvInit, NoneIsNothing, OutcomesAreDistinct

(* Every process finds, and keeps, the correspondence between its map and   *)
(* its promises: a new one because its map and its promises are both empty. *)
LEMMA RunningStoreStep == RestartInv /\ RestartNext => RunningStore!StoreInv'
<1> SUFFICES ASSUME RestartInv, RestartNext PROVE RunningStore!StoreInv'
  OBVIOUS
<1>0. RestartTypeOK' /\ DeadInv'
  BY RestartTypeStep, DeadStep
<1>1. RunningStore!TypeOK'
  <2>1. (RestartTypeOK /\ DeadInv => RunningStore!TypeOK)'
    BY RunningTypes, PTL
  <2> QED
    BY <1>0, <2>1
<1>2. CASE ~Restart
  BY <1>1, <1>2, RunningStep, RunningStore!StoreInvStep, NoneIsNothing, OutcomesAreDistinct
     DEF RestartInv
<1>3. CASE Restart
  <2>1. \A d \in Calls : bornIn'[d] # epoch'
    BY <1>3, MaxRestartsIsNat DEF Restart, RestartInv, RestartTypeOK, DeadInv
  <2>2. RunningStore!Init'
    BY <1>3, <2>1 DEF Restart, RunningStore!Init, Mine, Absent, RunningStore!Absent
  <2>3. (RunningStore!Init => RunningStore!StoreInv)'
    BY RunningStoreStarts, PTL
  <2> QED
    BY <2>2, <2>3
<1> QED
  BY <1>2, <1>3

LEMMA RestartInvStep == RestartInv /\ [RestartNext]_restartVars => RestartInv'
<1> SUFFICES ASSUME RestartInv, [RestartNext]_restartVars PROVE RestartInv'
  OBVIOUS
<1>1. CASE RestartNext
  <2>1. RestartTypeOK' /\ DeadInv' /\ RunningStore!StoreInv'
    BY <1>1, RestartTypeStep, DeadStep, RunningStoreStep
  <2>2. /\ RunningStore!PromiseInv' /\ RunningStore!SettledInv' /\ RunningStore!UniqueInv'
        /\ RunningStore!OpenInv' /\ RunningStore!AnswerInv' /\ RunningStore!DoneInv'
    BY <2>1 DEF RunningStore!StoreInv
  <2>3. UnmadeInv'
    BY <1>1, Kept DEF RestartInv, UnmadeInv
  <2>4. PromisesInv'
    <3>0. PromisesInv
      BY DEF RestartInv
    <3>1. ASSUME NEW c \in Calls, promise'[c] # "none"
          PROVE  key'[c] \in Keys /\ (promise'[c] = "settled" => outcome'[c] \in Outcomes)
      <4>1. CASE bornIn'[c] = epoch'
        BY <2>2, <3>1, <4>1 DEF RunningStore!PromiseInv, RunningStore!SettledInv, Mine,
           RunningStore!Outcomes, Outcomes
      <4>2. CASE bornIn'[c] # epoch'
        BY <1>1, <3>0, <3>1, <4>2, Kept DEF PromisesInv
      <4> QED
        BY <4>1, <4>2
    <3>2. ASSUME NEW c \in Calls, NEW d \in Calls, promise'[c] # "none", promise'[d] # "none",
                 key'[c] = key'[d], bornIn'[c] = bornIn'[d]
          PROVE  c = d
      <4>1. CASE bornIn'[c] = epoch'
        BY <2>2, <3>2, <4>1 DEF RunningStore!UniqueInv, Mine
      <4>2. CASE bornIn'[c] # epoch'
        <5>1. /\ promise[c] # "none" /\ key'[c] = key[c] /\ bornIn'[c] = bornIn[c]
              /\ promise[d] # "none" /\ key'[d] = key[d] /\ bornIn'[d] = bornIn[d]
          BY <1>1, <3>2, <4>2, Kept
        <5> QED
          BY <3>0, <3>2, <5>1 DEF PromisesInv
      <4> QED
        BY <4>1, <4>2
    <3> QED
      BY <3>1, <3>2 DEF PromisesInv
  <2>5. AnswersInv'
    <3>0. AnswersInv
      BY DEF RestartInv
    <3>1. ASSUME NEW c \in Calls, ~Finished(c)' PROVE answer'[c] = None
      <4>1. CASE bornIn'[c] = epoch'
        BY <2>2, <3>1, <4>1 DEF RunningStore!OpenInv, RunningStore!Finished, Finished, Mine
      <4>2. CASE bornIn'[c] # epoch'
        BY <1>1, <3>0, <3>1, <4>2, Kept DEF AnswersInv, Finished
      <4> QED
        BY <4>1, <4>2
    <3>2. ASSUME NEW c \in Calls, Finished(c)', key'[c] # None
          PROVE  \E d \in Calls : /\ key'[d] = key'[c] /\ bornIn'[d] = bornIn'[c]
                                  /\ promise'[d] = "settled" /\ outcome'[d] = answer'[c]
      <4>1. CASE bornIn'[c] = epoch'
        <5>1. key'[c] \in Keys
          BY <2>1, <3>2 DEF RestartTypeOK
        <5>2. store'[key'[c]].status \in {"done", "failed"} /\ store'[key'[c]].value = answer'[c]
          BY <2>2, <3>2, <4>1 DEF RunningStore!AnswerInv, RunningStore!Finished, Finished, Mine
        <5>3. PICK d \in Calls : /\ Mine(key, None)'[d] = key'[c]
                                /\ Mine(promise, "none")'[d] = "settled"
                                /\ store'[key'[c]].value = Mine(outcome, None)'[d]
          BY <2>2, <5>1, <5>2 DEF RunningStore!DoneInv
        <5>4. bornIn'[d] = epoch'
          BY <5>3 DEF Mine
        <5> QED
          BY <4>1, <5>2, <5>3, <5>4 DEF Mine
      <4>2. CASE bornIn'[c] # epoch'
        <5>1. /\ Finished(c) /\ key[c] # None /\ key'[c] = key[c]
              /\ bornIn'[c] = bornIn[c] /\ answer'[c] = answer[c]
          BY <1>1, <3>2, <4>2, Kept DEF Finished
        <5>2. PICK d \in Calls : /\ key[d] = key[c] /\ bornIn[d] = bornIn[c]
                                /\ promise[d] = "settled" /\ outcome[d] = answer[c]
          BY <3>0, <5>1 DEF AnswersInv
        <5> QED
          BY <1>1, <5>1, <5>2, Kept
      <4> QED
        BY <4>1, <4>2
    <3> QED
      BY <3>1, <3>2 DEF AnswersInv, Finished
  <2> QED
    BY <2>1, <2>3, <2>4, <2>5 DEF RestartInv
<1>2. CASE UNCHANGED restartVars
  <2>1. RestartTypeOK' /\ UnmadeInv' /\ DeadInv' /\ PromisesInv' /\ AnswersInv'
    BY <1>2 DEF restartVars, vars, RestartInv, RestartTypeOK, UnmadeInv, DeadInv, PromisesInv,
       AnswersInv, Finished
  <2>2. RunningStore!StoreInv'
    <3>1. RunningStore!TypeOK'
      BY <1>2 DEF restartVars, vars, RestartInv, RunningStore!StoreInv, RunningStore!TypeOK, Mine
    <3>2. UNCHANGED RunningStore!vars
      BY <1>2 DEF restartVars, vars, RunningStore!vars, Mine
    <3> QED
      BY <3>1, <3>2, RunningStore!StoreInvStep, NoneIsNothing, OutcomesAreDistinct DEF RestartInv
  <2> QED
    BY <2>1, <2>2 DEF RestartInv
<1> QED
  BY <1>1, <1>2

(* In every reachable state the running process is a correct store, and     *)
(* whatever the dead ones left is as they left it.                          *)
THEOREM RestartInvariance == RestartSpec => []RestartInv
BY StartsWell, RestartInvStep, PTL DEF RestartSpec

(* Within one process a key is forwarded at most once, for any number of    *)
(* calls and of processes before and after it.                              *)
THEOREM AtMostOncePerProcessHolds == RestartSpec => []AtMostOncePerProcess
<1>1. RestartInv => AtMostOncePerProcess
  BY DEF RestartInv, PromisesInv, AtMostOncePerProcess, Started
<1> QED
  BY <1>1, RestartInvariance, PTL

(* An answer comes from a forward of the process that gave it. *)
THEOREM AnsweredByOwnProcessHolds == RestartSpec => []AnsweredByOwnProcess
<1>1. RestartInv => AnsweredByOwnProcess
  BY DEF RestartInv, AnswersInv, AnsweredByOwnProcess, Started
<1> QED
  BY <1>1, RestartInvariance, PTL

-----------------------------------------------------------------------------
(* The refinement, process by process. *)

(* A step that leaves the started promises of process e alone leaves its    *)
(* registers alone.                                                         *)
LEMMA ProcessFrame ==
  ASSUME NEW e,
         \A d \in Calls : Started(d) /\ bornIn[d] = e =>
           /\ key'[d] = key[d] /\ promise'[d] = promise[d]
           /\ outcome'[d] = outcome[d] /\ bornIn'[d] = e,
         \A d \in Calls : Started(d)' /\ bornIn'[d] = e =>
           key'[d] = key[d] /\ promise'[d] = promise[d] /\ bornIn[d] = e
  PROVE  UNCHANGED <<RunsIn(e), VerdictsIn(e)>>
<1>1. RunsIn(e)' = RunsIn(e)
  BY DEF RunsIn, Started
<1>2. ASSUME NEW k \in Keys
      PROVE  {outcome[c] : c \in SettledIn(e, k)}' = {outcome[c] : c \in SettledIn(e, k)}
  <2>1. SettledIn(e, k)' = SettledIn(e, k)
    BY DEF SettledIn, Started
  <2>2. \A c \in SettledIn(e, k) : outcome'[c] = outcome[c]
    BY DEF SettledIn, Started
  <2> QED
    BY <2>1, <2>2
<1> QED
  BY <1>1, <1>2 DEF VerdictsIn

(* A step that answers no call of process e, and gives no call of it that   *)
(* has its answer another key, leaves the answers of e alone.               *)
LEMMA ProcessAnswersFrame ==
  ASSUME NEW e,
         \A d \in Calls : bornIn[d] = e /\ answer[d] # None =>
           bornIn'[d] = e /\ answer'[d] = answer[d] /\ key'[d] = key[d],
         \A d \in Calls : bornIn'[d] = e /\ answer'[d] # None =>
           bornIn[d] = e /\ answer[d] = answer'[d]
  PROVE  UNCHANGED AnsweredIn(e)
BY DEF AnsweredIn

(* Call c of process e finishes with o: what it reads as an answer comes    *)
(* from a settled promise of its process, by AnswersInv of the next state.  *)
LEMMA ProcessAnswerStep ==
  ASSUME RestartInv, RestartInv', NEW e, NEW c \in Calls, NEW o \in Outcomes \cup {KeyError},
         UNCHANGED <<promise, outcome>>, answer[c] = None, answer'[c] = o,
         bornIn'[c] = e, Finished(c)',
         key'[c] = None <=> o = KeyError,
         Started(c) => key'[c] = key[c] /\ bornIn[c] = e,
         \A d \in Calls \ {c} :
           key'[d] = key[d] /\ answer'[d] = answer[d] /\ bornIn'[d] = bornIn[d]
  PROVE  InProcess(e)!Refuse(c) \/ \E k \in Keys : InProcess(e)!Answer(c, k)
<1>1. o # None
  BY NoneIsNothing DEF Outcomes
<1>2. AnsweredIn(e)[c] = None /\ AnsweredIn(e)' = [AnsweredIn(e) EXCEPT ![c] = <<key'[c], o>>]
  BY <1>1 DEF AnsweredIn
<1>3. CASE o = KeyError
  <2>1. ~Started(c)'
    BY <1>3, NoneIsNothing DEF RestartInv, PromisesInv, Started
  <2>2. UNCHANGED <<RunsIn(e), VerdictsIn(e)>>
    BY <2>1, ProcessFrame DEF Started
  <2> QED
    BY <1>2, <1>3, <2>2 DEF InProcess!Refuse
<1>4. CASE o # KeyError
  <2>1. key'[c] \in Keys
    BY <1>4 DEF RestartInv, RestartTypeOK
  <2>2. PICK d \in Calls : /\ key'[d] = key'[c] /\ bornIn'[d] = e
                          /\ promise'[d] = "settled" /\ outcome'[d] = o
    BY <1>4 DEF RestartInv, AnswersInv
  <2>3. UNCHANGED <<RunsIn(e), VerdictsIn(e)>>
    BY ProcessFrame DEF Started
  <2>4. o \in VerdictsIn(e)'[key'[c]]
    BY <2>1, <2>2 DEF VerdictsIn, SettledIn
  <2> QED
    BY <1>2, <2>1, <2>3, <2>4 DEF InProcess!Answer
<1> QED
  BY <1>3, <1>4

(* The same for a call that was just made or resumed: it finishes, and all  *)
(* other calls and all promises stay.  For the other processes it is        *)
(* nothing.                                                                 *)
LEMMA FinishStep ==
  ASSUME RestartInv, RestartInv', NEW e, NEW c \in Calls, NEW o, NEW again, Finish(c, o, again),
         Concerns(c), UNCHANGED <<promise, outcome>>, answer[c] = None,
         \A d \in Calls \ {c} : key'[d] = key[d],
         (o = KeyError /\ key'[c] = None) \/ (o \in Outcomes /\ key'[c] \in Keys),
         Started(c) => key'[c] = key[c] /\ bornIn[c] = epoch,
         bornIn[c] = epoch \/ ~Started(c)
  PROVE  [InProcess(e)!Next]_(InProcess(e)!vars)
<1>1. /\ answer'[c] = o /\ pc'[c] \in {"returned", "threw"}
      /\ \A d \in Calls \ {c} : answer'[d] = answer[d]
  BY DEF Finish, RestartInv, RestartTypeOK
<1>2. Finished(c)'
  BY <1>1 DEF Finished
<1>3. CASE e = epoch
  <2>1. o \in Outcomes \cup {KeyError} /\ (key'[c] = None <=> o = KeyError)
    BY NoneIsNothing, OutcomesAreDistinct DEF Outcomes
  <2>2. /\ bornIn'[c] = e /\ \A d \in Calls \ {c} : bornIn'[d] = bornIn[d]
        /\ Started(c) => key'[c] = key[c] /\ bornIn[c] = e
    BY <1>3 DEF Concerns
  <2>3. InProcess(e)!Refuse(c) \/ \E k \in Keys : InProcess(e)!Answer(c, k)
    BY <1>1, <1>2, <2>1, <2>2, ProcessAnswerStep
  <2> QED
    BY <2>3 DEF InProcess!Next
<1>4. CASE e # epoch
  <2>1. bornIn'[c] # e /\ (bornIn[c] = e => ~Started(c))
    BY <1>4 DEF Concerns
  <2>2. UNCHANGED <<RunsIn(e), VerdictsIn(e)>>
    BY <2>1, ProcessFrame DEF Concerns, Started
  <2>3. UNCHANGED AnsweredIn(e)
    BY <1>1, <2>1, ProcessAnswersFrame DEF Concerns
  <2> QED
    BY <2>2, <2>3 DEF InProcess!vars
<1> QED
  BY <1>3, <1>4

LEMMA ProcessStep ==
  ASSUME NEW e
  PROVE  RestartInv /\ RestartInv' /\ [RestartNext]_restartVars
           => [InProcess(e)!Next]_(InProcess(e)!vars)
<1> SUFFICES ASSUME RestartInv, RestartInv', [RestartNext]_restartVars
             PROVE  [InProcess(e)!Next]_(InProcess(e)!vars)
  OBVIOUS
<1> DEFINE Goal == [InProcess(e)!Next]_(InProcess(e)!vars)
<1>0. RestartTypeOK /\ UnmadeInv /\ DeadInv /\ PromisesInv /\ AnswersInv
  BY DEF RestartInv
<1>c. ASSUME NEW c \in Calls, Call(c), pc[c] = "idle"
      PROVE  Concerns(c) /\ answer[c] = None /\ key[c] = None /\ promise[c] = "none"
  BY <1>0, <1>c DEF Call, Concerns, RestartTypeOK, UnmadeInv
<1>1. ASSUME NEW c \in Calls, RunOnceMalformed(c), Call(c) PROVE Goal
  <2>1. /\ pc[c] = "idle" /\ Finish(c, KeyError, FALSE) /\ UNCHANGED <<key, promise, outcome>>
    BY <1>1 DEF RunOnceMalformed
  <2>2. Concerns(c) /\ answer[c] = None /\ key'[c] = None /\ ~Started(c)
    BY <1>1, <1>c, <2>1 DEF Started
  <2>3. UNCHANGED <<promise, outcome>> /\ \A d \in Calls \ {c} : key'[d] = key[d]
    BY <2>1
  <2> QED
    BY <2>1, <2>2, <2>3, FinishStep
<1>2. ASSUME NEW c \in Calls, Call(c), pc[c] = "idle", promise'[c] \in {"none", "queued"},
             \A d \in Calls \ {c} : key'[d] = key[d] /\ promise'[d] = promise[d],
             UNCHANGED <<outcome, answer>>
      PROVE  Goal
  <2>1. Concerns(c) /\ answer[c] = None /\ answer'[c] = None /\ ~Started(c) /\ ~Started(c)'
    BY <1>2, <1>c DEF Started
  <2>2. UNCHANGED <<RunsIn(e), VerdictsIn(e)>>
    BY <1>2, <2>1, ProcessFrame DEF Concerns, Started
  <2>3. UNCHANGED AnsweredIn(e)
    BY <1>2, <2>1, ProcessAnswersFrame DEF Concerns
  <2> QED
    BY <2>2, <2>3 DEF InProcess!vars
<1>3. ASSUME NEW c \in Calls, NEW k \in Keys, RunOnceFresh(c, k), Call(c) PROVE Goal
  BY <1>0, <1>2, <1>3 DEF RunOnceFresh, RestartTypeOK
<1>4. ASSUME NEW c \in Calls, NEW k \in Keys, RunOnceJoin(c, k), Call(c) PROVE Goal
  <2>1. promise'[c] = "none"
    BY <1>4, <1>c DEF RunOnceJoin
  <2> QED
    BY <1>0, <1>2, <1>4, <2>1 DEF RunOnceJoin, RestartTypeOK
<1>5. ASSUME NEW c \in Calls, NEW k \in Keys, RunOnceSettled(c, k), Call(c) PROVE Goal
  <2>1. /\ pc[c] = "idle" /\ Finish(c, store[k].value, TRUE) /\ UNCHANGED <<promise, outcome>>
        /\ key'[c] = k /\ \A d \in Calls \ {c} : key'[d] = key[d]
    BY <1>0, <1>5 DEF RunOnceSettled, RestartTypeOK
  <2>2. Concerns(c) /\ answer[c] = None /\ ~Started(c)
    BY <1>5, <1>c, <2>1 DEF Started
  <2>3. store[k].value \in Outcomes
    <3>1. answer'[c] = store[k].value /\ Finished(c)'
      BY <1>0, <2>1 DEF Finish, Finished, RestartTypeOK
    <3>2. key'[c] # None
      BY <2>1, NoneIsNothing
    <3> QED
      BY <3>1, <3>2 DEF RestartInv, AnswersInv, PromisesInv
  <2> QED
    BY <2>1, <2>2, <2>3, FinishStep
<1>6. ASSUME NEW c \in Calls, StartForward(c), Forwarding(c) PROVE Goal
  <2> DEFINE k == key[c]
  <2>1. /\ promise[c] = "queued" /\ promise'[c] = "running" /\ k \in Keys
        /\ \A d \in Calls \ {c} : promise'[d] = promise[d]
        /\ UNCHANGED <<key, outcome, answer, bornIn>>
    BY <1>0, <1>6 DEF StartForward, Forwarding, RestartTypeOK, PromisesInv
  <2>2. UNCHANGED AnsweredIn(e)
    BY <2>1 DEF AnsweredIn
  <2>3. CASE bornIn[c] # e
    <3>1. UNCHANGED <<RunsIn(e), VerdictsIn(e)>>
      BY <2>1, <2>3, ProcessFrame DEF Started
    <3> QED
      BY <2>2, <3>1 DEF InProcess!vars
  <2>4. CASE bornIn[c] = e
    <3>1. \A d \in Calls : promise[d] # "none" /\ key[d] = k /\ bornIn[d] = e => d = c
      BY <1>0, <2>1, <2>4 DEF PromisesInv
    <3>2. RunsIn(e)[k] = {}
      BY <2>1, <3>1 DEF RunsIn, Started
    <3>3. \A j \in Keys : RunsIn(e)'[j] = IF j = k THEN {c} ELSE RunsIn(e)[j]
      BY <2>1, <2>4, <3>1 DEF RunsIn, Started
    <3>4. RunsIn(e)' = [RunsIn(e) EXCEPT ![k] = {c}]
      BY <2>1, <3>3 DEF RunsIn
    <3>5. UNCHANGED VerdictsIn(e)
      <4>1. \A d \in Calls : promise'[d] = "settled" <=> promise[d] = "settled"
        BY <2>1
      <4> QED
        BY <2>1, <4>1 DEF VerdictsIn, SettledIn
    <3>6. InProcess(e)!Execute(c, k)
      BY <2>2, <3>2, <3>4, <3>5 DEF InProcess!Execute
    <3> QED
      BY <2>1, <3>6 DEF InProcess!Next
  <2> QED
    BY <2>3, <2>4
<1>7. ASSUME NEW c \in Calls, SettleForward(c), Forwarding(c) PROVE Goal
  <2> DEFINE k == key[c]
  <2>1. /\ promise[c] = "running" /\ promise'[c] = "settled" /\ k \in Keys
        /\ outcome'[c] \in Results \cup Failures
        /\ \A d \in Calls \ {c} : promise'[d] = promise[d] /\ outcome'[d] = outcome[d]
        /\ UNCHANGED <<key, answer, bornIn>>
    BY <1>0, <1>7 DEF SettleForward, Forwarding, RestartTypeOK, PromisesInv, Outcomes
  <2>2. UNCHANGED AnsweredIn(e)
    BY <2>1 DEF AnsweredIn
  <2>3. CASE bornIn[c] # e
    <3>1. UNCHANGED <<RunsIn(e), VerdictsIn(e)>>
      BY <2>1, <2>3, ProcessFrame DEF Started
    <3> QED
      BY <2>2, <3>1 DEF InProcess!vars
  <2>4. CASE bornIn[c] = e
    <3>1. \A d \in Calls : promise[d] # "none" /\ key[d] = k /\ bornIn[d] = e => d = c
      BY <1>0, <2>1, <2>4 DEF PromisesInv
    <3>2. c \in RunsIn(e)[k] /\ UNCHANGED RunsIn(e)
      BY <2>1, <2>4 DEF RunsIn, Started
    <3>3. SettledIn(e, k) = {} /\ SettledIn(e, k)' = {c}
      BY <2>1, <2>4, <3>1 DEF SettledIn
    <3>4. \A j \in Keys \ {k} : SettledIn(e, j)' = SettledIn(e, j) /\ c \notin SettledIn(e, j)
      BY <2>1 DEF SettledIn
    <3>5. VerdictsIn(e)[k] = {} /\ VerdictsIn(e)'[k] = {outcome'[c]}
      BY <2>1, <3>3 DEF VerdictsIn
    <3>6. ASSUME NEW j \in Keys \ {k} PROVE VerdictsIn(e)'[j] = VerdictsIn(e)[j]
      <4>1. /\ VerdictsIn(e)'[j] = {outcome'[d] : d \in SettledIn(e, j)'}
            /\ VerdictsIn(e)[j] = {outcome[d] : d \in SettledIn(e, j)}
        BY DEF VerdictsIn
      <4>2. \A d \in SettledIn(e, j) : outcome'[d] = outcome[d]
        BY <2>1, <3>4 DEF SettledIn
      <4> QED
        BY <3>4, <4>1, <4>2
    <3>7. VerdictsIn(e)' = [VerdictsIn(e) EXCEPT ![k] = {outcome'[c]}]
      BY <2>1, <3>5, <3>6 DEF VerdictsIn
    <3>8. InProcess(e)!Decide(k)
      BY <2>1, <2>2, <3>2, <3>5, <3>7 DEF InProcess!Decide
    <3> QED
      BY <2>1, <3>8 DEF InProcess!Next
  <2> QED
    BY <2>3, <2>4
<1>8. ASSUME NEW p \in Calls, NEW c \in Calls, pc[c] \in {"owner", "joiner"},
             promise[p] = "settled", UNCHANGED <<epoch, bornIn>>
      PROVE  bornIn[c] = epoch /\ Concerns(c) /\ answer[c] = None /\ outcome[p] \in Outcomes
  BY <1>0, <1>8 DEF DeadInv, Concerns, AnswersInv, PromisesInv, Finished
<1>9. ASSUME NEW c \in Calls, OwnerResumes(c), Resuming(c) PROVE Goal
  <2>1. /\ pc[c] = "owner" /\ promise[c] = "settled" /\ Finish(c, outcome[c], FALSE)
        /\ UNCHANGED <<key, promise, outcome, epoch, bornIn>>
    BY <1>9 DEF OwnerResumes, Resuming
  <2>2. key'[c] \in Keys /\ key'[c] = key[c] /\ \A d \in Calls \ {c} : key'[d] = key[d]
    BY <1>0, <2>1 DEF PromisesInv
  <2>3. bornIn[c] = epoch /\ Concerns(c) /\ answer[c] = None /\ outcome[c] \in Outcomes
    BY <1>8, <2>1
  <2> QED
    BY <2>1, <2>2, <2>3, FinishStep
<1>10. ASSUME NEW p \in Calls, JoinerResumes(p), Resuming(p) PROVE Goal
  <2> DEFINE c == Head(waiters[p])
  <2>1. waiters[p] \in Seq(Calls) /\ waiters[p] # <<>> /\ pc[c] = "joiner"
    BY <1>0, <1>10 DEF JoinerResumes, RestartTypeOK
  <2>2. c \in Calls
    BY <2>1
  <2>3. key[c] \in Keys
    <3>1. Mine(key, None)[p] \in Keys /\ Mine(key, None)[waiters[p][1]] = Mine(key, None)[p]
      BY <2>1 DEF RestartInv, RunningStore!StoreInv, RunningStore!WaitInv
    <3>2. waiters[p][1] = c
      BY <2>1
    <3> QED
      BY <2>2, <3>1, <3>2, NoneIsNothing DEF Mine
  <2>4. /\ Finish(c, outcome[p], TRUE) /\ promise[p] = "settled"
        /\ UNCHANGED <<key, promise, outcome, epoch, bornIn>>
    BY <1>10 DEF JoinerResumes, Resuming
  <2> HIDE DEF c
  <2>5. bornIn[c] = epoch /\ Concerns(c) /\ answer[c] = None /\ outcome[p] \in Outcomes
    BY <1>8, <2>1, <2>2, <2>4
  <2>6. key'[c] \in Keys /\ key'[c] = key[c] /\ \A d \in Calls \ {c} : key'[d] = key[d]
    BY <2>3, <2>4
  <2> QED
    BY <2>2, <2>4, <2>5, <2>6, FinishStep
<1>11. ASSUME Restart PROVE Goal
  <2>1. /\ UNCHANGED <<key, outcome, answer, bornIn>>
        /\ \A d \in Calls : promise'[d] = IF promise[d] = "queued" THEN "none" ELSE promise[d]
    BY <1>11 DEF Restart
  <2>2. UNCHANGED <<RunsIn(e), VerdictsIn(e)>>
    BY <2>1, ProcessFrame DEF Started
  <2>3. UNCHANGED AnsweredIn(e)
    BY <2>1 DEF AnsweredIn
  <2> QED
    BY <2>2, <2>3 DEF InProcess!vars
<1>12. CASE UNCHANGED restartVars
  BY <1>12 DEF restartVars, vars, InProcess!vars, RunsIn, VerdictsIn, SettledIn, AnsweredIn, Started
<1> QED
  BY <1>1, <1>3, <1>4, <1>5, <1>6, <1>7, <1>9, <1>10, <1>11, <1>12
     DEF RestartNext, Call, Forwarding, Resuming, RunOnce

(* Each process implements AtMostOnce over the whole behaviour, for any     *)
(* number of calls, keys and restarts.                                      *)
THEOREM EachProcessRefines == RestartSpec => EachProcessImplementsAtMostOnce
<1>1. RestartInit => \A e \in 0 .. MaxRestarts : InProcess(e)!Init
  BY DEF RestartInit, Init, InProcess!Init, RunsIn, VerdictsIn, SettledIn, AnsweredIn, Started
<1>2. RestartInv /\ RestartInv' /\ [RestartNext]_restartVars
        => [\A e \in 0 .. MaxRestarts : [InProcess(e)!Next]_(InProcess(e)!vars)]_restartVars
  BY ProcessStep
<1> QED
  BY <1>1, <1>2, RestartInvariance, PTL DEF RestartSpec, EachProcessImplementsAtMostOnce

(* The same for one process at a time, as a behaviour of AtMostOnce.        *)
THEOREM ProcessRefinement ==
  ASSUME NEW CONSTANT e \in 0 .. MaxRestarts
  PROVE  RestartSpec => InProcess(e)!Spec
<1>1. RestartInit => InProcess(e)!Init
  BY DEF RestartInit, Init, InProcess!Init, RunsIn, VerdictsIn, SettledIn, AnsweredIn, Started
<1>2. RestartInv /\ RestartInv' /\ [RestartNext]_restartVars
        => [InProcess(e)!Next]_(InProcess(e)!vars)
  BY ProcessStep
<1> QED
  BY <1>1, <1>2, RestartInvariance, PTL DEF RestartSpec, InProcess!Spec

=============================================================================
