----------------------- MODULE IdempotencyStoreProofs -----------------------
(***************************************************************************)
(* What holds of the idempotency store for any number of calls and keys.   *)
(*                                                                         *)
(* At-most-once is not inductive.  What makes it so is the correspondence  *)
(* between the map and the promises: a pending entry names a suspended     *)
(* owner that heads the queue of its own promise, a promise whose owner is *)
(* no longer suspended has its outcome in the map, and a key in use is     *)
(* never absent from the map.  StoreInv states that correspondence.        *)
(***************************************************************************)
EXTENDS IdempotencyStore, SequenceTheorems, TLAPS

(* A call that was not made left no trace. *)
IdleInv ==
  \A c \in Calls : pc[c] = "idle" => key[c] = None /\ promise[c] = "none"

(* A call that has not finished has no answer yet. *)
OpenInv == \A c \in Calls : ~Finished(c) => answer[c] = None

(* A pending entry belongs to a suspended owner. *)
PendingInv ==
  \A k \in Keys : store[k].status = "pending" =>
    /\ store[k].by \in Calls
    /\ key[store[k].by] = k
    /\ pc[store[k].by] = "owner"

(* A suspended owner has its pending entry and heads its own queue. *)
OwnerInv ==
  \A c \in Calls : pc[c] = "owner" =>
    /\ key[c] \in Keys
    /\ store[key[c]] = Pending(c)
    /\ promise[c] # "none"
    /\ waiters[c] # <<>>
    /\ Head(waiters[c]) = c

(* A promise belongs to a suspended owner, or its outcome is committed. *)
PromiseInv ==
  \A c \in Calls : promise[c] # "none" =>
    /\ key[c] \in Keys
    /\ \/ pc[c] = "owner"
       \/ /\ Finished(c)
          /\ promise[c] = "settled"
          /\ store[key[c]] = Committed(outcome[c])

(* Two promises never carry the same key. *)
UniqueInv ==
  \A c, d \in Calls :
    promise[c] # "none" /\ promise[d] # "none" /\ key[c] = key[d] => c = d

(* A call that joined created no promise. *)
JoinerInv == \A c \in Calls : pc[c] = "joiner" => promise[c] = "none"

(* A settled promise has an outcome. *)
SettledInv == \A c \in Calls : promise[c] = "settled" => outcome[c] \in Outcomes

(* A key that some call uses is in the map. *)
KeyInv == \A c \in Calls : key[c] \in Keys => store[key[c]].status # "absent"

(* Whoever waits for a promise waits for it under the promise's key. *)
WaitInv ==
  \A p \in Calls : \A i \in 1 .. Len(waiters[p]) :
    /\ key[p] \in Keys
    /\ key[waiters[p][i]] = key[p]

(* A committed entry comes from a settled promise of its key. *)
DoneInv ==
  \A k \in Keys : store[k].status \in {"done", "failed"} =>
    \E p \in Calls : key[p] = k /\ promise[p] = "settled" /\ store[k].value = outcome[p]

(* An answer is the committed entry of its key. *)
AnswerInv ==
  \A c \in Calls : Finished(c) /\ key[c] # None =>
    /\ store[key[c]].status \in {"done", "failed"}
    /\ store[key[c]].value = answer[c]

StoreInv ==
  /\ TypeOK
  /\ IdleInv /\ OpenInv /\ PendingInv /\ OwnerInv /\ PromiseInv /\ UniqueInv
  /\ JoinerInv /\ SettledInv /\ KeyInv /\ WaitInv /\ DoneInv /\ AnswerInv
  /\ ReusedFlagIsTruthful

-----------------------------------------------------------------------------
(* Every variable keeps its shape. *)
THEOREM TypeCorrect == Spec => []TypeOK
<1> USE NoneIsNothing, OutcomesAreDistinct DEF TypeOK, Entry, Outcomes
<1>1. Init => TypeOK
  BY DEF Init, Absent
<1>2. TypeOK /\ [Next]_vars => TypeOK'
  <2> SUFFICES ASSUME TypeOK, [Next]_vars PROVE TypeOK'
    OBVIOUS
  <2>1. ASSUME NEW c \in Calls, RunOnceMalformed(c) PROVE TypeOK'
    BY <2>1 DEF RunOnceMalformed, Finish
  <2>2. ASSUME NEW c \in Calls, NEW k \in Keys, RunOnceFresh(c, k) PROVE TypeOK'
    BY <2>2 DEF RunOnceFresh, Pending
  <2>3. ASSUME NEW c \in Calls, NEW k \in Keys, RunOnceJoin(c, k) PROVE TypeOK'
    <3>1. CASE store[k].by \in Calls
      <4>1. Append(waiters[store[k].by], c) \in Seq(Calls)
        BY <3>1
      <4> QED
        BY <2>3, <3>1, <4>1 DEF RunOnceJoin
    <3>2. CASE store[k].by \notin Calls
      BY <2>3, <3>2 DEF RunOnceJoin
    <3> QED
      BY <3>1, <3>2
  <2>4. ASSUME NEW c \in Calls, NEW k \in Keys, RunOnceSettled(c, k) PROVE TypeOK'
    BY <2>4 DEF RunOnceSettled, Finish
  <2>5. ASSUME NEW c \in Calls, StartForward(c) PROVE TypeOK'
    BY <2>5 DEF StartForward
  <2>6. ASSUME NEW c \in Calls, SettleForward(c) PROVE TypeOK'
    BY <2>6 DEF SettleForward
  <2>7. ASSUME NEW c \in Calls, OwnerResumes(c) PROVE TypeOK'
    <3>1. store' \in [Keys -> Entry]
      BY <2>7 DEF OwnerResumes, Committed
    <3>2. waiters' \in [Calls -> Seq(Calls)]
      BY <2>7 DEF OwnerResumes
    <3> QED
      BY <2>7, <3>1, <3>2 DEF OwnerResumes, Finish
  <2>8. ASSUME NEW c \in Calls, JoinerResumes(c) PROVE TypeOK'
    BY <2>8 DEF JoinerResumes, Finish
  <2>9. CASE UNCHANGED vars
    BY <2>9 DEF vars
  <2> QED
    BY <2>1, <2>2, <2>3, <2>4, <2>5, <2>6, <2>7, <2>8, <2>9 DEF Next, RunOnce
<1> QED
  BY <1>1, <1>2, PTL DEF Spec

(* The correspondence holds of the empty map. *)
LEMMA StoreInvInit == Init => StoreInv
BY NoneIsNothing DEF Init, StoreInv, TypeOK, Entry, Absent, Outcomes, IdleInv, OpenInv,
  PendingInv, OwnerInv, PromiseInv, UniqueInv, JoinerInv, SettledInv, KeyInv,
  WaitInv, DoneInv, AnswerInv, ReusedFlagIsTruthful, Finished

(* The conjuncts of StoreInv apart from TypeOK, for the steps that need all. *)
LEMMA StoreInvStep == StoreInv /\ TypeOK' /\ [Next]_vars => StoreInv'
<1> SUFFICES ASSUME StoreInv, TypeOK', [Next]_vars PROVE StoreInv'
  OBVIOUS
<1> USE DEF StoreInv
<1>0. \A d \in Calls : key[d] # None => key[d] \in Keys
  BY DEF TypeOK
<1>1. ASSUME NEW c \in Calls, RunOnceMalformed(c) PROVE StoreInv'
  <2>1. /\ key[c] = None /\ promise[c] = "none"
        /\ pc[c] = "idle" /\ pc'[c] = "threw" /\ answer'[c] = KeyError
        /\ \A d \in Calls \ {c} : pc'[d] = pc[d] /\ answer'[d] = answer[d] /\ reused'[d] = reused[d]
        /\ UNCHANGED <<store, key, promise, outcome, waiters>>
    BY <1>1, OutcomesAreDistinct DEF RunOnceMalformed, Finish, IdleInv, TypeOK, Outcomes
  <2>2. SettledInv' /\ KeyInv' /\ WaitInv' /\ UniqueInv' /\ DoneInv'
    BY <2>1 DEF SettledInv, KeyInv, WaitInv, UniqueInv, DoneInv
  <2>3. IdleInv' /\ OpenInv' /\ JoinerInv' /\ PendingInv' /\ OwnerInv' /\ PromiseInv'
    BY <2>1 DEF IdleInv, OpenInv, JoinerInv, PendingInv, OwnerInv, PromiseInv, Finished
  <2>4. AnswerInv' /\ ReusedFlagIsTruthful'
    BY <2>1 DEF AnswerInv, ReusedFlagIsTruthful, Finished, Started
  <2> QED
    BY <2>2, <2>3, <2>4
<1>2. ASSUME NEW c \in Calls, NEW k \in Keys, RunOnceFresh(c, k) PROVE StoreInv'
  <2>1. /\ key[c] = None /\ promise[c] = "none" /\ pc[c] = "idle"
        /\ key'[c] = k /\ promise'[c] = "queued" /\ pc'[c] = "owner" /\ waiters'[c] = <<c>>
        /\ store'[k] = Pending(c) /\ store[k].status = "absent"
        /\ \A d \in Calls \ {c} :
             /\ key'[d] = key[d] /\ promise'[d] = promise[d]
             /\ pc'[d] = pc[d] /\ waiters'[d] = waiters[d]
        /\ \A j \in Keys \ {k} : store'[j] = store[j]
        /\ UNCHANGED <<outcome, answer, reused>>
    BY <1>2 DEF RunOnceFresh, IdleInv, TypeOK
  <2>2. \A d \in Calls : key[d] # k
    BY <2>1 DEF KeyInv
  <2>3. IdleInv' /\ OpenInv' /\ JoinerInv' /\ SettledInv'
    BY <2>1 DEF IdleInv, OpenInv, JoinerInv, SettledInv, Finished
  <2>4. PendingInv' /\ OwnerInv'
    BY <2>1, <2>2 DEF PendingInv, OwnerInv, Pending
  <2>5. PromiseInv' /\ UniqueInv' /\ KeyInv'
    BY <2>1, <2>2 DEF PromiseInv, UniqueInv, KeyInv, Finished, Pending
  <2>6. WaitInv'
    <3> SUFFICES ASSUME NEW p \in Calls, NEW i \in (1 .. Len(waiters[p]))'
                 PROVE (key[p] \in Keys /\ key[waiters[p][i]] = key[p])'
      BY DEF WaitInv
    <3>1. CASE p = c
      BY <2>1, <3>1
    <3>2. CASE p # c
      <4>1. i \in 1 .. Len(waiters[p]) /\ waiters'[p][i] = waiters[p][i] /\ waiters[p][i] \in Calls
        BY <2>1, <3>2 DEF TypeOK
      <4>2. key[p] \in Keys /\ key[waiters[p][i]] = key[p]
        BY <4>1 DEF WaitInv
      <4>3. waiters[p][i] # c
        BY <2>1, <4>2, NoneIsNothing
      <4> QED
        BY <2>1, <3>2, <4>1, <4>2, <4>3
    <3> QED
      BY <3>1, <3>2
  <2>7. DoneInv'
    <3> SUFFICES ASSUME NEW j \in Keys, store'[j].status \in {"done", "failed"}
                 PROVE \E p \in Calls : key'[p] = j /\ promise'[p] = "settled" /\ store'[j].value = outcome'[p]
      BY DEF DoneInv
    <3>1. j # k
      BY <2>1 DEF Pending
    <3>2. PICK p \in Calls : key[p] = j /\ promise[p] = "settled" /\ store[j].value = outcome[p]
      BY <2>1, <3>1 DEF DoneInv
    <3> QED
      BY <2>1, <3>1, <3>2
  <2>8. AnswerInv'
    BY <1>0, <2>1, <2>2 DEF AnswerInv, Finished
  <2>9. ReusedFlagIsTruthful'
    BY <2>1, <2>2 DEF ReusedFlagIsTruthful, Started
  <2> QED
    BY <2>3, <2>4, <2>5, <2>6, <2>7, <2>8, <2>9
<1>3. ASSUME NEW c \in Calls, NEW k \in Keys, RunOnceJoin(c, k) PROVE StoreInv'
  <2> DEFINE o == store[k].by
  <2>1. /\ o \in Calls /\ key[o] = k /\ pc[o] = "owner" /\ o # c
        /\ key[c] = None /\ promise[c] = "none" /\ pc[c] = "idle"
        /\ store[k].status = "pending"
    BY <1>3 DEF RunOnceJoin, PendingInv, IdleInv, TypeOK
  <2>2. /\ key'[c] = k /\ pc'[c] = "joiner" /\ waiters'[o] = Append(waiters[o], c)
        /\ \A d \in Calls \ {c} : key'[d] = key[d] /\ pc'[d] = pc[d]
        /\ \A d \in Calls \ {o} : waiters'[d] = waiters[d]
        /\ UNCHANGED <<store, promise, outcome, answer, reused>>
    BY <1>3, <2>1 DEF RunOnceJoin, TypeOK
  <2> HIDE DEF o
  <2>3. IdleInv' /\ OpenInv' /\ JoinerInv' /\ SettledInv' /\ PendingInv'
    BY <2>1, <2>2 DEF IdleInv, OpenInv, JoinerInv, SettledInv, PendingInv, Finished
  <2>4. OwnerInv'
    <3> SUFFICES ASSUME NEW d \in Calls, pc'[d] = "owner"
                 PROVE /\ key'[d] \in Keys /\ store'[key'[d]] = Pending(d) /\ promise'[d] # "none"
                       /\ waiters'[d] # <<>> /\ Head(waiters'[d]) = d
      BY DEF OwnerInv, Pending
    <3>1. /\ d # c /\ key[d] \in Keys /\ store[key[d]] = Pending(d) /\ promise[d] # "none"
          /\ waiters[d] \in Seq(Calls) /\ waiters[d] # <<>> /\ Head(waiters[d]) = d
      BY <2>1, <2>2 DEF OwnerInv, TypeOK
    <3>2. waiters'[d] # <<>> /\ Head(waiters'[d]) = d
      BY <2>1, <2>2, <3>1
    <3> QED
      BY <2>2, <3>1, <3>2
  <2>5. PromiseInv' /\ UniqueInv' /\ KeyInv'
    BY <2>1, <2>2 DEF PromiseInv, UniqueInv, KeyInv, Finished
  <2>6. WaitInv'
    <3> SUFFICES ASSUME NEW p \in Calls, NEW i \in (1 .. Len(waiters[p]))'
                 PROVE (key[p] \in Keys /\ key[waiters[p][i]] = key[p])'
      BY DEF WaitInv
    <3>1. CASE i \in 1 .. Len(waiters[p]) /\ waiters'[p][i] = waiters[p][i]
      <4>1. waiters[p] \in Seq(Calls)
        BY DEF TypeOK
      <4>2. waiters[p][i] \in Calls
        BY <3>1, <4>1
      <4>3. key[p] \in Keys /\ key[waiters[p][i]] = key[p]
        BY <3>1 DEF WaitInv
      <4> QED
        BY <2>1, <2>2, <3>1, <4>2, <4>3, NoneIsNothing
    <3>2. CASE p = o /\ i = Len(waiters[o]) + 1
      BY <2>1, <2>2, <3>2
    <3>3. waiters[o] \in Seq(Calls)
      BY <2>1 DEF TypeOK
    <3>4. CASE p = o
      <4>1. /\ Len(waiters'[o]) = Len(waiters[o]) + 1
            /\ \A j \in 1 .. Len(waiters[o]) : waiters'[o][j] = waiters[o][j]
        BY <2>2, <3>3
      <4>2. Len(waiters[o]) \in Nat /\ i \in 1 .. Len(waiters[o]) + 1
        BY <3>3, <3>4, <4>1
      <4> QED
        BY <3>1, <3>2, <3>4, <4>1, <4>2
    <3>5. CASE p # o
      BY <2>2, <3>1, <3>5
    <3> QED
      BY <3>4, <3>5
  <2>7. DoneInv'
    <3> SUFFICES ASSUME NEW j \in Keys, store'[j].status \in {"done", "failed"}
                 PROVE \E p \in Calls : key'[p] = j /\ promise'[p] = "settled" /\ store'[j].value = outcome'[p]
      BY DEF DoneInv
    <3>1. PICK p \in Calls : key[p] = j /\ promise[p] = "settled" /\ store[j].value = outcome[p]
      BY <2>2 DEF DoneInv
    <3> QED
      BY <2>1, <2>2, <3>1
  <2>8. AnswerInv'
    BY <2>1, <2>2 DEF AnswerInv, Finished
  <2>9. ReusedFlagIsTruthful'
    BY <2>1, <2>2 DEF ReusedFlagIsTruthful, Started
  <2> QED
    BY <2>3, <2>4, <2>5, <2>6, <2>7, <2>8, <2>9
<1>4. ASSUME NEW c \in Calls, NEW k \in Keys, RunOnceSettled(c, k) PROVE StoreInv'
  <2> DEFINE v == store[k].value
  <2>1. /\ key[c] = None /\ promise[c] = "none" /\ pc[c] = "idle"
        /\ store[k].status \in {"done", "failed"}
        /\ key'[c] = k /\ answer'[c] = v
        /\ pc'[c] = IF v \in Results THEN "returned" ELSE "threw"
        /\ \A d \in Calls \ {c} :
             key'[d] = key[d] /\ pc'[d] = pc[d] /\ answer'[d] = answer[d] /\ reused'[d] = reused[d]
        /\ UNCHANGED <<store, promise, outcome, waiters>>
    BY <1>4 DEF RunOnceSettled, Finish, IdleInv, TypeOK
  <2>r. pc'[c] = "returned" => reused'[c]
    BY <1>4 DEF RunOnceSettled, Finish, TypeOK
  <2> HIDE DEF v
  <2>2. IdleInv' /\ OpenInv' /\ JoinerInv' /\ SettledInv' /\ KeyInv'
    BY <2>1 DEF IdleInv, OpenInv, JoinerInv, SettledInv, KeyInv, Finished
  <2>3. PendingInv' /\ OwnerInv' /\ PromiseInv' /\ UniqueInv'
    BY <2>1 DEF PendingInv, OwnerInv, PromiseInv, UniqueInv, Finished
  <2>4. WaitInv'
    <3> SUFFICES ASSUME NEW p \in Calls, NEW i \in 1 .. Len(waiters[p])
                 PROVE key'[p] \in Keys /\ key'[waiters[p][i]] = key'[p]
      BY <2>1 DEF WaitInv
    <3>1. waiters[p][i] \in Calls /\ key[p] \in Keys /\ key[waiters[p][i]] = key[p]
      BY DEF WaitInv, TypeOK
    <3> QED
      BY <2>1, <3>1, NoneIsNothing
  <2>5. DoneInv'
    <3> SUFFICES ASSUME NEW j \in Keys, store[j].status \in {"done", "failed"}
                 PROVE \E p \in Calls : key'[p] = j /\ promise[p] = "settled" /\ store[j].value = outcome[p]
      BY <2>1 DEF DoneInv
    <3>1. PICK p \in Calls : key[p] = j /\ promise[p] = "settled" /\ store[j].value = outcome[p]
      BY DEF DoneInv
    <3> QED
      BY <2>1, <3>1
  <2>6. AnswerInv'
    BY <1>0, <2>1 DEF AnswerInv, Finished, v
  <2>7. ReusedFlagIsTruthful'
    BY <2>1, <2>r DEF ReusedFlagIsTruthful, Started
  <2> QED
    BY <2>2, <2>3, <2>4, <2>5, <2>6, <2>7
<1>5. ASSUME NEW c \in Calls, StartForward(c) PROVE StoreInv'
  <2>1. /\ promise[c] = "queued" /\ promise'[c] = "running"
        /\ \A d \in Calls \ {c} : promise'[d] = promise[d]
        /\ UNCHANGED <<store, key, pc, outcome, waiters, answer, reused>>
    BY <1>5 DEF StartForward, TypeOK
  <2>2. pc[c] = "owner"
    BY <2>1 DEF PromiseInv
  <2>3. IdleInv' /\ OpenInv' /\ JoinerInv' /\ SettledInv' /\ KeyInv' /\ WaitInv' /\ AnswerInv'
    BY <2>1, <2>2 DEF IdleInv, OpenInv, JoinerInv, SettledInv, KeyInv, WaitInv, AnswerInv, Finished
  <2>4. PendingInv' /\ OwnerInv' /\ PromiseInv' /\ UniqueInv'
    BY <2>1, <2>2 DEF PendingInv, OwnerInv, PromiseInv, UniqueInv, Finished
  <2>5. DoneInv'
    <3> SUFFICES ASSUME NEW j \in Keys, store[j].status \in {"done", "failed"}
                 PROVE \E p \in Calls : key[p] = j /\ promise'[p] = "settled" /\ store[j].value = outcome[p]
      BY <2>1 DEF DoneInv
    <3>1. PICK p \in Calls : key[p] = j /\ promise[p] = "settled" /\ store[j].value = outcome[p]
      BY DEF DoneInv
    <3> QED
      BY <2>1, <3>1
  <2>6. ReusedFlagIsTruthful'
    BY <2>1, <2>2 DEF ReusedFlagIsTruthful, Started
  <2> QED
    BY <2>3, <2>4, <2>5, <2>6
<1>6. ASSUME NEW c \in Calls, SettleForward(c) PROVE StoreInv'
  <2>1. /\ promise[c] = "running" /\ promise'[c] = "settled" /\ outcome'[c] \in Outcomes
        /\ \A d \in Calls \ {c} : promise'[d] = promise[d] /\ outcome'[d] = outcome[d]
        /\ UNCHANGED <<store, key, pc, waiters, answer, reused>>
    BY <1>6 DEF SettleForward, TypeOK
  <2>2. pc[c] = "owner"
    BY <2>1 DEF PromiseInv
  <2>3. IdleInv' /\ OpenInv' /\ JoinerInv' /\ SettledInv' /\ KeyInv' /\ WaitInv' /\ AnswerInv'
    BY <2>1, <2>2 DEF IdleInv, OpenInv, JoinerInv, SettledInv, KeyInv, WaitInv, AnswerInv, Finished
  <2>4. PendingInv' /\ OwnerInv' /\ PromiseInv' /\ UniqueInv'
    BY <2>1, <2>2 DEF PendingInv, OwnerInv, PromiseInv, UniqueInv, Finished
  <2>5. DoneInv'
    <3> SUFFICES ASSUME NEW j \in Keys, store[j].status \in {"done", "failed"}
                 PROVE \E p \in Calls : key[p] = j /\ promise'[p] = "settled" /\ store[j].value = outcome'[p]
      BY <2>1 DEF DoneInv
    <3>1. PICK p \in Calls : key[p] = j /\ promise[p] = "settled" /\ store[j].value = outcome[p]
      BY DEF DoneInv
    <3> QED
      BY <2>1, <3>1
  <2>6. ReusedFlagIsTruthful'
    BY <2>1, <2>2 DEF ReusedFlagIsTruthful, Started
  <2> QED
    BY <2>3, <2>4, <2>5, <2>6
<1>7. ASSUME NEW c \in Calls, OwnerResumes(c) PROVE StoreInv'
  <2> DEFINE k == key[c]
  <2>1. /\ pc[c] = "owner" /\ promise[c] = "settled" /\ k \in Keys
        /\ store[k] = Pending(c) /\ outcome[c] \in Outcomes
    BY <1>7 DEF OwnerResumes, OwnerInv, SettledInv
  <2>2. /\ store'[k] = Committed(outcome[c])
        /\ \A j \in Keys \ {k} : store'[j] = store[j]
        /\ waiters'[c] = Tail(waiters[c])
        /\ \A d \in Calls \ {c} : waiters'[d] = waiters[d]
        /\ answer'[c] = outcome[c]
        /\ pc'[c] = IF outcome[c] \in Results THEN "returned" ELSE "threw"
        /\ \A d \in Calls \ {c} : pc'[d] = pc[d] /\ answer'[d] = answer[d] /\ reused'[d] = reused[d]
        /\ UNCHANGED <<key, promise, outcome>>
    BY <1>7, <2>1 DEF OwnerResumes, Finish, TypeOK
  <2>3. ~reused'[c]
    <3>1. reused \in [Calls -> BOOLEAN]
      BY DEF TypeOK
    <3>2. reused' = [reused EXCEPT ![c] = FALSE]
      BY <1>7 DEF OwnerResumes, Finish
    <3> QED
      BY <3>1, <3>2
  <2>4. IdleInv' /\ OpenInv' /\ JoinerInv' /\ SettledInv'
    BY <2>1, <2>2 DEF IdleInv, OpenInv, JoinerInv, SettledInv, Finished
  <2>5. \A d \in Calls : promise[d] # "none" /\ key[d] = k => d = c
    BY <2>1 DEF UniqueInv
  <2>6. PendingInv' /\ UniqueInv' /\ KeyInv'
    BY <2>1, <2>2, <2>5 DEF PendingInv, UniqueInv, KeyInv, Committed
  <2>7. OwnerInv'
    BY <2>1, <2>2, <2>5 DEF OwnerInv, Pending
  <2>8. PromiseInv'
    BY <2>1, <2>2, <2>5 DEF PromiseInv, Finished
  <2>9. WaitInv'
    <3> SUFFICES ASSUME NEW p \in Calls, NEW i \in 1 .. Len(waiters'[p])
                 PROVE key[p] \in Keys /\ key[waiters'[p][i]] = key[p]
      BY <2>2 DEF WaitInv
    <3>1. CASE p = c
      <4>1. waiters[c] \in Seq(Calls) /\ waiters[c] # <<>>
        BY <2>1 DEF OwnerInv, TypeOK
      <4>2. /\ Len(Tail(waiters[c])) = Len(waiters[c]) - 1
            /\ \A j \in 1 .. Len(Tail(waiters[c])) : Tail(waiters[c])[j] = waiters[c][j + 1]
        BY <4>1, HeadTailProperties
      <4>3. waiters'[c] = Tail(waiters[c]) /\ i \in 1 .. Len(Tail(waiters[c]))
        BY <2>2, <3>1
      <4>4. i + 1 \in 1 .. Len(waiters[c])
        BY <4>1, <4>2, <4>3
      <4>5. waiters'[c][i] = waiters[c][i + 1]
        BY <4>2, <4>3
      <4> QED
        BY <3>1, <4>4, <4>5 DEF WaitInv
    <3>2. CASE p # c
      BY <2>2, <3>2 DEF WaitInv
    <3> QED
      BY <3>1, <3>2
  <2>10. DoneInv'
    <3> SUFFICES ASSUME NEW j \in Keys, store'[j].status \in {"done", "failed"}
                 PROVE \E p \in Calls : key[p] = j /\ promise[p] = "settled" /\ store'[j].value = outcome[p]
      BY <2>2 DEF DoneInv
    <3>1. CASE j = k
      BY <2>1, <2>2, <3>1 DEF Committed
    <3>2. CASE j # k
      BY <2>2, <3>2 DEF DoneInv
    <3> QED
      BY <3>1, <3>2
  <2>11. AnswerInv'
    <3> SUFFICES ASSUME NEW d \in Calls, Finished(d)', key[d] # None
                 PROVE /\ store'[key[d]].status \in {"done", "failed"}
                       /\ store'[key[d]].value = answer'[d]
      BY <2>2 DEF AnswerInv
    <3>1. CASE d = c
      BY <2>1, <2>2, <3>1 DEF Committed
    <3>2. CASE d # c
      <4>1. /\ key[d] \in Keys /\ store[key[d]].status \in {"done", "failed"}
            /\ store[key[d]].value = answer[d]
        BY <1>0, <2>2, <3>2 DEF AnswerInv, Finished
      <4>2. key[d] # k
        BY <2>1, <4>1 DEF Pending
      <4> QED
        BY <2>2, <3>2, <4>1, <4>2
    <3> QED
      BY <3>1, <3>2
  <2>12. ReusedFlagIsTruthful'
    BY <2>1, <2>2, <2>3 DEF ReusedFlagIsTruthful, Started
  <2> QED
    BY <2>4, <2>6, <2>7, <2>8, <2>9, <2>10, <2>11, <2>12
<1>8. ASSUME NEW p \in Calls, JoinerResumes(p) PROVE StoreInv'
  <2> DEFINE c == Head(waiters[p])
             k == key[p]
  <2>1. /\ waiters[p] \in Seq(Calls) /\ waiters[p] # <<>> /\ c \in Calls
        /\ promise[p] = "settled" /\ pc[c] = "joiner" /\ outcome[p] \in Outcomes
    BY <1>8 DEF JoinerResumes, TypeOK, SettledInv
  <2>2. k \in Keys /\ key[c] = k /\ promise[c] = "none" /\ c # p
    BY <2>1 DEF WaitInv, JoinerInv
  <2>3. pc[p] # "owner" /\ store[k] = Committed(outcome[p])
    BY <2>1, <2>2 DEF OwnerInv, PromiseInv
  <2>4. /\ waiters'[p] = Tail(waiters[p])
        /\ \A d \in Calls \ {p} : waiters'[d] = waiters[d]
        /\ answer'[c] = outcome[p]
        /\ pc'[c] = IF outcome[p] \in Results THEN "returned" ELSE "threw"
        /\ \A d \in Calls \ {c} : pc'[d] = pc[d] /\ answer'[d] = answer[d] /\ reused'[d] = reused[d]
        /\ UNCHANGED <<store, key, promise, outcome>>
    BY <1>8, <2>1 DEF JoinerResumes, Finish, TypeOK
  <2>r. pc'[c] = "returned" => reused'[c]
    BY <1>8, <2>1 DEF JoinerResumes, Finish, TypeOK
  <2> HIDE DEF c, k
  <2>5. IdleInv' /\ OpenInv' /\ JoinerInv' /\ SettledInv' /\ KeyInv' /\ DoneInv' /\ UniqueInv'
    BY <2>4 DEF IdleInv, OpenInv, JoinerInv, SettledInv, KeyInv, DoneInv, UniqueInv, Finished
  <2>6. PendingInv' /\ PromiseInv'
    BY <2>1, <2>2, <2>4 DEF PendingInv, PromiseInv, Finished
  <2>7. OwnerInv'
    BY <2>1, <2>2, <2>3, <2>4 DEF OwnerInv, Pending
  <2>8. WaitInv'
    <3> SUFFICES ASSUME NEW q \in Calls, NEW i \in 1 .. Len(waiters'[q])
                 PROVE key[q] \in Keys /\ key[waiters'[q][i]] = key[q]
      BY <2>4 DEF WaitInv
    <3>1. CASE q = p
      <4>1. /\ Len(Tail(waiters[p])) = Len(waiters[p]) - 1
            /\ \A j \in 1 .. Len(Tail(waiters[p])) : Tail(waiters[p])[j] = waiters[p][j + 1]
        BY <2>1, HeadTailProperties
      <4>2. waiters'[p] = Tail(waiters[p]) /\ i \in 1 .. Len(Tail(waiters[p]))
        BY <2>4, <3>1
      <4>3. i + 1 \in 1 .. Len(waiters[p])
        BY <2>1, <4>1, <4>2
      <4>4. waiters'[p][i] = waiters[p][i + 1]
        BY <4>1, <4>2
      <4> QED
        BY <3>1, <4>3, <4>4 DEF WaitInv
    <3>2. CASE q # p
      BY <2>4, <3>2 DEF WaitInv
    <3> QED
      BY <3>1, <3>2
  <2>9. AnswerInv'
    BY <2>1, <2>2, <2>3, <2>4 DEF AnswerInv, Finished, Committed
  <2>10. ReusedFlagIsTruthful'
    BY <2>1, <2>2, <2>4, <2>r DEF ReusedFlagIsTruthful, Started
  <2> QED
    BY <2>5, <2>6, <2>7, <2>8, <2>9, <2>10
<1>9. CASE UNCHANGED vars
  BY <1>9 DEF vars, TypeOK, IdleInv, OpenInv, PendingInv, OwnerInv, PromiseInv,
    UniqueInv, JoinerInv, SettledInv, KeyInv, WaitInv, DoneInv, AnswerInv,
    ReusedFlagIsTruthful, Finished, Started
<1> QED
  BY <1>1, <1>2, <1>3, <1>4, <1>5, <1>6, <1>7, <1>8, <1>9 DEF Next, RunOnce

(* The map and the promises correspond in every reachable state. *)
THEOREM StoreInvariance == Spec => []StoreInv
<1>1. Init => StoreInv
  BY StoreInvInit
<1>2. StoreInv /\ TypeOK' /\ [Next]_vars => StoreInv'
  BY StoreInvStep
<1> QED
  BY <1>1, <1>2, TypeCorrect, PTL DEF Spec

-----------------------------------------------------------------------------
(* What a caller of runOnce relies on. *)

(* For any number of concurrent and later calls, a key's forward is started *)
(* at most once.                                                            *)
THEOREM AtMostOnceHolds == Spec => []AtMostOncePerKey
<1>1. StoreInv => AtMostOncePerKey
  BY DEF StoreInv, UniqueInv, AtMostOncePerKey, Started
<1> QED
  BY <1>1, StoreInvariance, PTL

(* Nobody has an answer before the map has it. *)
THEOREM CommittedBeforeAnsweredHolds == Spec => []CommittedBeforeAnswered
<1>1. StoreInv => CommittedBeforeAnswered
  BY DEF StoreInv, AnswerInv, CommittedBeforeAnswered
<1> QED
  BY <1>1, StoreInvariance, PTL

(* All calls with one key end alike. *)
THEOREM OutcomeAgreementHolds == Spec => []OutcomeAgreement
<1>1. StoreInv => OutcomeAgreement
  BY DEF StoreInv, AnswerInv, OutcomeAgreement
<1> QED
  BY <1>1, StoreInvariance, PTL

(* reused = false is reported by the call whose forward ran, and by no other. *)
THEOREM ReusedFlagHolds == Spec => []ReusedFlagIsTruthful
<1>1. StoreInv => ReusedFlagIsTruthful
  BY DEF StoreInv
<1> QED
  BY <1>1, StoreInvariance, PTL

(* No step changes a committed entry. *)
THEOREM SettledEntryIsFinalHolds == Spec => SettledEntryIsFinal
<1> DEFINE Final == \A k \in Keys : store[k].status \in {"done", "failed"} => store'[k] = store[k]
<1>1. StoreInv /\ [Next]_vars => [Final]_vars
  <2> SUFFICES ASSUME StoreInv, Next, NEW k \in Keys, store[k].status \in {"done", "failed"}
               PROVE store'[k] = store[k]
    OBVIOUS
  <2>1. ASSUME NEW c \in Calls, NEW j \in Keys, RunOnceFresh(c, j) PROVE store'[k] = store[k]
    BY <2>1 DEF RunOnceFresh, StoreInv, TypeOK
  <2>2. ASSUME NEW c \in Calls, OwnerResumes(c) PROVE store'[k] = store[k]
    <3>1. store[key[c]] = Pending(c)
      BY <2>2 DEF OwnerResumes, StoreInv, OwnerInv
    <3>2. key[c] # k
      BY <3>1 DEF Pending
    <3> QED
      BY <2>2, <3>2 DEF OwnerResumes, StoreInv, TypeOK
  <2> QED
    BY <2>1, <2>2 DEF Next, RunOnce, RunOnceMalformed, RunOnceJoin, RunOnceSettled,
      StartForward, SettleForward, JoinerResumes
<1> QED
  BY <1>1, StoreInvariance, PTL DEF Spec, SettledEntryIsFinal

-----------------------------------------------------------------------------
(* The refinement. *)

(* A step that leaves every started promise alone leaves the registers. *)
LEMMA RegistersFrame ==
  ASSUME \A d \in Calls : Started(d) =>
           key'[d] = key[d] /\ promise'[d] = promise[d] /\ outcome'[d] = outcome[d],
         \A d \in Calls : Started(d)' => key[d] = key'[d] /\ promise[d] = promise'[d]
  PROVE  UNCHANGED <<RunsOf, VerdictsOf>>
<1>1. RunsOf' = RunsOf
  BY DEF RunsOf, Started
<1>2. ASSUME NEW k \in Keys
      PROVE {outcome[c] : c \in {d \in Calls : key[d] = k /\ promise[d] = "settled"}}'
            = {outcome[c] : c \in {d \in Calls : key[d] = k /\ promise[d] = "settled"}}
  <2>1. {d \in Calls : key[d] = k /\ promise[d] = "settled"}'
        = {d \in Calls : key[d] = k /\ promise[d] = "settled"}
    BY DEF Started
  <2>2. \A c \in {d \in Calls : key[d] = k /\ promise[d] = "settled"} : outcome'[c] = outcome[c]
    BY DEF Started
  <2> QED
    BY <2>1, <2>2
<1> QED
  BY <1>1, <1>2 DEF VerdictsOf

(* An answer is None only for a call that has none. *)
LEMMA OutcomeIsNotNone == \A o \in Outcomes \cup {KeyError} : o # None
BY NoneIsNothing DEF Outcomes

(* A step that answers nobody leaves the answers alone: a call without an   *)
(* answer may get its key.                                                  *)
LEMMA AnswersFrame ==
  ASSUME UNCHANGED answer, \A d \in Calls : answer[d] # None => key'[d] = key[d]
  PROVE  UNCHANGED AnsweredAs
BY DEF AnsweredAs

(* The step in which c is answered o for key k is one of the abstract store *)
(* when o is a verdict on k.                                                *)
LEMMA AnswerStep ==
  ASSUME NEW c \in Calls, NEW k \in Keys, NEW o \in Outcomes,
         UNCHANGED <<RunsOf, VerdictsOf>>,
         answer[c] = None, answer' = [answer EXCEPT ![c] = o],
         DOMAIN answer = Calls, key'[c] = k, \A d \in Calls \ {c} : key'[d] = key[d],
         \E p \in Calls : key[p] = k /\ promise[p] = "settled" /\ o = outcome[p]
  PROVE  Abstract!Answer(c, k)
<1>1. o \in VerdictsOf[k]
  BY DEF VerdictsOf
<1>2. AnsweredAs[c] = None
  BY DEF AnsweredAs
<1>3. AnsweredAs' = [AnsweredAs EXCEPT ![c] = <<k, o>>]
  <2>1. o # None
    BY OutcomeIsNotNone
  <2>2. answer'[c] = o /\ \A d \in Calls \ {c} : answer'[d] = answer[d]
    OBVIOUS
  <2> QED
    BY <2>1, <2>2 DEF AnsweredAs
<1> QED
  BY <1>1, <1>2, <1>3 DEF Abstract!Answer

LEMMA AbstractInit == Init => Abstract!Init
BY DEF Init, Abstract!Init, RunsOf, VerdictsOf, AnsweredAs, Started

(* Every step of the store is a step of its promise, or a stutter. *)
LEMMA AbstractStep == StoreInv /\ StoreInv' /\ [Next]_vars => [Abstract!Next]_(Abstract!vars)
<1> SUFFICES ASSUME StoreInv, StoreInv', [Next]_vars PROVE [Abstract!Next]_(Abstract!vars)
  OBVIOUS
<1>0. DOMAIN answer = Calls
  BY DEF StoreInv, TypeOK
<1>1. ASSUME NEW c \in Calls, RunOnceMalformed(c) PROVE Abstract!Refuse(c)
  <2>1. /\ UNCHANGED <<key, promise, outcome>>
        /\ answer' = [answer EXCEPT ![c] = KeyError]
        /\ answer[c] = None /\ key[c] = None
    BY <1>1 DEF RunOnceMalformed, Finish, StoreInv, OpenInv, IdleInv, Finished
  <2>2. UNCHANGED <<RunsOf, VerdictsOf>>
    BY <2>1, RegistersFrame DEF Started
  <2>3. AnsweredAs[c] = None /\ AnsweredAs' = [AnsweredAs EXCEPT ![c] = <<None, KeyError>>]
    BY <1>0, <2>1, OutcomeIsNotNone DEF AnsweredAs
  <2> QED
    BY <2>2, <2>3 DEF Abstract!Refuse
<1>2. ASSUME NEW c \in Calls, NEW k \in Keys, RunOnceFresh(c, k) PROVE UNCHANGED Abstract!vars
  <2>1. /\ promise[c] = "none" /\ promise'[c] = "queued" /\ answer[c] = None
        /\ \A d \in Calls \ {c} : key'[d] = key[d] /\ promise'[d] = promise[d]
        /\ UNCHANGED <<outcome, answer>>
    BY <1>2 DEF RunOnceFresh, StoreInv, IdleInv, OpenInv, Finished, TypeOK
  <2>2. UNCHANGED <<RunsOf, VerdictsOf>>
    BY <2>1, RegistersFrame DEF Started
  <2>3. UNCHANGED AnsweredAs
    BY <2>1, AnswersFrame
  <2> QED
    BY <2>2, <2>3 DEF Abstract!vars
<1>3. ASSUME NEW c \in Calls, NEW k \in Keys, RunOnceJoin(c, k) PROVE UNCHANGED Abstract!vars
  <2>1. /\ promise[c] = "none" /\ answer[c] = None
        /\ \A d \in Calls \ {c} : key'[d] = key[d]
        /\ UNCHANGED <<promise, outcome, answer>>
    BY <1>3 DEF RunOnceJoin, StoreInv, IdleInv, OpenInv, Finished, TypeOK
  <2>2. UNCHANGED <<RunsOf, VerdictsOf>>
    BY <2>1, RegistersFrame DEF Started
  <2>3. UNCHANGED AnsweredAs
    BY <2>1, AnswersFrame
  <2> QED
    BY <2>2, <2>3 DEF Abstract!vars
<1>4. ASSUME NEW c \in Calls, NEW k \in Keys, RunOnceSettled(c, k) PROVE Abstract!Answer(c, k)
  <2>1. /\ promise[c] = "none" /\ answer[c] = None
        /\ key'[c] = k /\ \A d \in Calls \ {c} : key'[d] = key[d]
        /\ UNCHANGED <<promise, outcome>>
        /\ answer' = [answer EXCEPT ![c] = store[k].value]
    BY <1>4 DEF RunOnceSettled, Finish, StoreInv, IdleInv, OpenInv, Finished, TypeOK
  <2>2. UNCHANGED <<RunsOf, VerdictsOf>>
    BY <2>1, RegistersFrame DEF Started
  <2>3. PICK p \in Calls : key[p] = k /\ promise[p] = "settled" /\ store[k].value = outcome[p]
    BY <1>4 DEF RunOnceSettled, StoreInv, DoneInv
  <2>4. outcome[p] \in Outcomes
    BY <2>3 DEF StoreInv, SettledInv
  <2> QED
    BY <1>0, <2>1, <2>2, <2>3, <2>4, AnswerStep
<1>5. ASSUME NEW c \in Calls, StartForward(c) PROVE Abstract!Execute(c, key[c]) /\ key[c] \in Keys
  <2> DEFINE k == key[c]
  <2>1. /\ promise[c] = "queued" /\ promise'[c] = "running" /\ k \in Keys
        /\ \A d \in Calls \ {c} : promise'[d] = promise[d]
        /\ UNCHANGED <<key, outcome, answer>>
    BY <1>5 DEF StartForward, StoreInv, TypeOK, PromiseInv
  <2>2. \A d \in Calls : promise[d] # "none" /\ key[d] = k => d = c
    BY <2>1 DEF StoreInv, UniqueInv
  <2>3. RunsOf[k] = {} /\ RunsOf' = [RunsOf EXCEPT ![k] = {c}]
    <3>1. RunsOf[k] = {}
      BY <2>1, <2>2 DEF RunsOf, Started
    <3>2. \A j \in Keys : RunsOf'[j] = IF j = k THEN {c} ELSE RunsOf[j]
      BY <2>1, <2>2 DEF RunsOf, Started
    <3> QED
      BY <2>1, <3>1, <3>2 DEF RunsOf
  <2>4. UNCHANGED VerdictsOf
    <3>1. \A d \in Calls : promise'[d] = "settled" <=> promise[d] = "settled"
      BY <2>1
    <3> QED
      BY <2>1, <3>1 DEF VerdictsOf
  <2>5. UNCHANGED AnsweredAs
    BY <2>1, AnswersFrame
  <2> QED
    BY <2>1, <2>3, <2>4, <2>5 DEF Abstract!Execute
<1>6. ASSUME NEW c \in Calls, SettleForward(c) PROVE Abstract!Decide(key[c]) /\ key[c] \in Keys
  <2> DEFINE k == key[c]
             Settled(j) == {d \in Calls : key[d] = j /\ promise[d] = "settled"}
  <2>1. /\ promise[c] = "running" /\ promise'[c] = "settled" /\ k \in Keys
        /\ outcome'[c] \in Results \cup Failures
        /\ \A d \in Calls \ {c} : promise'[d] = promise[d] /\ outcome'[d] = outcome[d]
        /\ UNCHANGED <<key, answer>>
    BY <1>6 DEF SettleForward, StoreInv, TypeOK, PromiseInv, Outcomes
  <2>2. \A d \in Calls : promise[d] # "none" /\ key[d] = k => d = c
    BY <2>1 DEF StoreInv, UniqueInv
  <2>3. c \in RunsOf[k] /\ UNCHANGED RunsOf
    BY <2>1 DEF RunsOf, Started
  <2>4. Settled(k) = {} /\ Settled(k)' = {c}
    BY <2>1, <2>2
  <2>5. \A j \in Keys \ {k} : Settled(j)' = Settled(j) /\ c \notin Settled(j)
    BY <2>1
  <2>6. VerdictsOf[k] = {} /\ VerdictsOf' = [VerdictsOf EXCEPT ![k] = {outcome'[c]}]
    <3>1. VerdictsOf[k] = {} /\ VerdictsOf'[k] = {outcome'[c]}
      BY <2>1, <2>4 DEF VerdictsOf
    <3>2. ASSUME NEW j \in Keys \ {k} PROVE VerdictsOf'[j] = VerdictsOf[j]
      <4>1. VerdictsOf'[j] = {outcome'[d] : d \in Settled(j)'} /\ VerdictsOf[j] = {outcome[d] : d \in Settled(j)}
        BY DEF VerdictsOf
      <4>2. \A d \in Settled(j) : outcome'[d] = outcome[d]
        BY <2>1, <2>5
      <4> QED
        BY <2>5, <4>1, <4>2
    <3> QED
      BY <2>1, <3>1, <3>2 DEF VerdictsOf
  <2>7. UNCHANGED AnsweredAs
    BY <2>1, AnswersFrame
  <2> QED
    BY <2>1, <2>3, <2>6, <2>7 DEF Abstract!Decide
<1>7. ASSUME NEW c \in Calls, OwnerResumes(c) PROVE Abstract!Answer(c, key[c]) /\ key[c] \in Keys
  <2>1. /\ promise[c] = "settled" /\ key[c] \in Keys /\ answer[c] = None /\ outcome[c] \in Outcomes
        /\ UNCHANGED <<key, promise, outcome>>
        /\ answer' = [answer EXCEPT ![c] = outcome[c]]
    BY <1>7 DEF OwnerResumes, Finish, StoreInv, OwnerInv, OpenInv, SettledInv, Finished
  <2>2. UNCHANGED <<RunsOf, VerdictsOf>>
    BY <2>1, RegistersFrame DEF Started
  <2> QED
    BY <1>0, <2>1, <2>2, AnswerStep
<1>8. ASSUME NEW p \in Calls, JoinerResumes(p)
      PROVE \E c \in Calls : Abstract!Answer(c, key[p]) /\ key[p] \in Keys
  <2> DEFINE c == Head(waiters[p])
  <2>1. /\ c \in Calls /\ pc[c] = "joiner" /\ promise[p] = "settled"
        /\ waiters[p] \in Seq(Calls) /\ waiters[p] # <<>>
    BY <1>8 DEF JoinerResumes, StoreInv, TypeOK
  <2>2. /\ answer[c] = None /\ outcome[p] \in Outcomes
        /\ UNCHANGED <<key, promise, outcome>>
        /\ answer' = [answer EXCEPT ![c] = outcome[p]]
    BY <1>8, <2>1 DEF JoinerResumes, Finish, StoreInv, OpenInv, SettledInv, Finished
  <2>3. key[p] \in Keys /\ key[c] = key[p]
    BY <2>1 DEF StoreInv, WaitInv
  <2>4. UNCHANGED <<RunsOf, VerdictsOf>>
    BY <2>2, RegistersFrame DEF Started
  <2> HIDE DEF c
  <2>5. Abstract!Answer(c, key[p])
    BY <1>0, <2>1, <2>2, <2>3, <2>4, AnswerStep
  <2> QED
    BY <2>1, <2>3, <2>5
<1>9. CASE UNCHANGED vars
  BY <1>9 DEF vars, Abstract!vars, RunsOf, VerdictsOf, AnsweredAs, Started
<1> QED
  BY <1>1, <1>2, <1>3, <1>4, <1>5, <1>6, <1>7, <1>8, <1>9 DEF Next, RunOnce, Abstract!Next

(* The store implements its promise, for any number of calls and keys. *)
THEOREM Refinement == Spec => ImplementsAtMostOnce
BY AbstractInit, AbstractStep, StoreInvariance, PTL DEF Spec, ImplementsAtMostOnce, Abstract!Spec
=============================================================================
