-------------------------- MODULE IdempotencyStore --------------------------
(***************************************************************************)
(* IdempotencyStore.runOnce (coding-agent/src/idempotency), the in-memory  *)
(* map that keeps a mutation from being forwarded twice.                   *)
(*                                                                         *)
(* runOnce is an async function on one JavaScript thread.  Everything up   *)
(* to its first await is one atomic step (RunOnce* below): the lookup and  *)
(* the insertion of the pending entry cannot be separated.  What follows   *)
(* an await runs later, in a reaction of the promise, and other calls run  *)
(* in between.  Reactions of one promise run in the order they were        *)
(* registered, which is the sequence waiters[p].                           *)
(*                                                                         *)
(* A call is identified with the promise it creates, so that nothing in    *)
(* the state says a key has only one promise: that is what is proved.      *)
(***************************************************************************)
EXTENDS Naturals, Sequences, FiniteSets

CONSTANTS
  Calls,      \* invocations of runOnce; a retry by the host is another call
  Keys,       \* well-formed (non-empty string) keys
  Results,    \* what a forward may resolve with
  Failures,   \* what a forward may reject with (upstream error or timeout)
  KeyError,   \* the exception for a malformed key
  None        \* "nothing yet"

ASSUME NoneIsNothing ==
  None \notin Calls \cup Keys \cup Results \cup Failures \cup {KeyError}

ASSUME OutcomesAreDistinct ==
  /\ Results \cap Failures = {}
  /\ KeyError \notin Results \cup Failures

VARIABLES
  store,      \* the map: store[k] is the entry of key k
  key,        \* key[c]: the key call c was made with, None before or if malformed
  pc,         \* pc[c]: where call c is
  promise,    \* promise[c]: state of the promise c created (entry.promise)
  outcome,    \* outcome[c]: what that promise settled with
  waiters,    \* waiters[c]: calls suspended on that promise, in order
  answer,     \* answer[c]: what call c resolved or rejected with
  reused      \* reused[c]: the "reused" flag call c returned

vars == <<store, key, pc, promise, outcome, waiters, answer, reused>>

Outcomes == Results \cup Failures

(* An entry of the map.  "absent" is a key the map does not hold. *)
Entry == [status : {"absent", "pending", "done", "failed"},
          by     : Calls \cup {None},
          value  : Outcomes \cup {None}]

Absent     == [status |-> "absent", by |-> None, value |-> None]
Pending(c) == [status |-> "pending", by |-> c, value |-> None]

(* The entry the owner writes when its promise settled with o. *)
Committed(o) ==
  [status |-> IF o \in Results THEN "done" ELSE "failed", by |-> None, value |-> o]

Init ==
  /\ store = [k \in Keys |-> Absent]
  /\ key = [c \in Calls |-> None]
  /\ pc = [c \in Calls |-> "idle"]
  /\ promise = [c \in Calls |-> "none"]
  /\ outcome = [c \in Calls |-> None]
  /\ waiters = [c \in Calls |-> <<>>]
  /\ answer = [c \in Calls |-> None]
  /\ reused = [c \in Calls |-> FALSE]

-----------------------------------------------------------------------------
(* The synchronous part of runOnce(key, fn): one step per branch. *)

(* Call c resolves (o a result) or rejects (o a failure). *)
Finish(c, o, again) ==
  /\ pc' = [pc EXCEPT ![c] = IF o \in Results THEN "returned" ELSE "threw"]
  /\ answer' = [answer EXCEPT ![c] = o]
  /\ reused' = [reused EXCEPT ![c] = again /\ o \in Results]

RunOnceMalformed(c) ==
  /\ pc[c] = "idle"
  /\ Finish(c, KeyError, FALSE)
  /\ UNCHANGED <<store, key, promise, outcome, waiters>>

(* Mutant: a failed entry is taken for a free one, so a retry broadcasts.   *)
RunOnceFreshRetriesFailed(c, k) ==
  /\ pc[c] = "idle"
  /\ store[k].status \in {"absent", "failed"}
  /\ key' = [key EXCEPT ![c] = k]
  /\ store' = [store EXCEPT ![k] = Pending(c)]
  /\ promise' = [promise EXCEPT ![c] = "queued"]
  /\ waiters' = [waiters EXCEPT ![c] = <<c>>]
  /\ pc' = [pc EXCEPT ![c] = "owner"]
  /\ UNCHANGED <<outcome, answer, reused>>

(* Mutant: only committed entries count, so a call inside the await window  *)
(* of another one starts fn again (check and insert separated by an await). *)
RunOnceFreshIgnoresPending(c, k) ==
  /\ pc[c] = "idle"
  /\ store[k].status \in {"absent", "pending"}
  /\ key' = [key EXCEPT ![c] = k]
  /\ store' = [store EXCEPT ![k] = Pending(c)]
  /\ promise' = [promise EXCEPT ![c] = "queued"]
  /\ waiters' = [waiters EXCEPT ![c] = <<c>>]
  /\ pc' = [pc EXCEPT ![c] = "owner"]
  /\ UNCHANGED <<outcome, answer, reused>>

(* The key is new: insert a pending entry, schedule fn, await it. *)
RunOnceFresh(c, k) ==
  /\ pc[c] = "idle"
  /\ store[k].status = "absent"
  /\ key' = [key EXCEPT ![c] = k]
  /\ store' = [store EXCEPT ![k] = Pending(c)]
  /\ promise' = [promise EXCEPT ![c] = "queued"]
  /\ waiters' = [waiters EXCEPT ![c] = <<c>>]
  /\ pc' = [pc EXCEPT ![c] = "owner"]
  /\ UNCHANGED <<outcome, answer, reused>>

(* Mutant: the newest waiter is served first, before the owner commits. *)
RunOnceJoinJumpsQueue(c, k) ==
  /\ pc[c] = "idle"
  /\ store[k].status = "pending"
  /\ key' = [key EXCEPT ![c] = k]
  /\ waiters' = [waiters EXCEPT ![store[k].by] = <<c>> \o @]
  /\ pc' = [pc EXCEPT ![c] = "joiner"]
  /\ UNCHANGED <<store, promise, outcome, answer, reused>>

(* The key is pending: await the promise of the call that owns it. *)
RunOnceJoin(c, k) ==
  /\ pc[c] = "idle"
  /\ store[k].status = "pending"
  /\ key' = [key EXCEPT ![c] = k]
  /\ waiters' = [waiters EXCEPT ![store[k].by] = Append(@, c)]
  /\ pc' = [pc EXCEPT ![c] = "joiner"]
  /\ UNCHANGED <<store, promise, outcome, answer, reused>>

(* The key is done or failed: answer from the entry, forward nothing. *)
RunOnceSettled(c, k) ==
  /\ pc[c] = "idle"
  /\ store[k].status \in {"done", "failed"}
  /\ key' = [key EXCEPT ![c] = k]
  /\ Finish(c, store[k].value, TRUE)
  /\ UNCHANGED <<store, promise, outcome, waiters>>

-----------------------------------------------------------------------------
(* The promise Promise.resolve().then(fn) and the code behind the awaits. *)

(* The microtask that calls fn: from here on the upstream may have acted. *)
StartForward(c) ==
  /\ promise[c] = "queued"
  /\ promise' = [promise EXCEPT ![c] = "running"]
  /\ UNCHANGED <<store, key, pc, outcome, waiters, answer, reused>>

(* fn's promise resolves, rejects, or its timeout fires. *)
SettleForward(c) ==
  /\ promise[c] = "running"
  /\ promise' = [promise EXCEPT ![c] = "settled"]
  /\ \E o \in Outcomes : outcome' = [outcome EXCEPT ![c] = o]
  /\ UNCHANGED <<store, key, pc, waiters, answer, reused>>

(* Mutant: a failure evicts the entry instead of being remembered. *)
OwnerResumesEvictsFailure(p) ==
  /\ promise[p] = "settled"
  /\ waiters[p] # <<>>
  /\ Head(waiters[p]) = p
  /\ pc[p] = "owner"
  /\ store' = [store EXCEPT ![key[p]] =
                 IF outcome[p] \in Failures THEN Absent ELSE Committed(outcome[p])]
  /\ waiters' = [waiters EXCEPT ![p] = Tail(@)]
  /\ Finish(p, outcome[p], FALSE)
  /\ UNCHANGED <<key, promise, outcome>>

(* Mutant: replacing the pending entry drops the calls that joined it. *)
OwnerResumesDropsJoiners(p) ==
  /\ promise[p] = "settled"
  /\ waiters[p] # <<>>
  /\ Head(waiters[p]) = p
  /\ pc[p] = "owner"
  /\ store' = [store EXCEPT ![key[p]] = Committed(outcome[p])]
  /\ waiters' = [waiters EXCEPT ![p] = <<>>]
  /\ Finish(p, outcome[p], FALSE)
  /\ UNCHANGED <<key, promise, outcome>>

(* First in line is the call that created the promise: it commits. *)
OwnerResumes(p) ==
  /\ promise[p] = "settled"
  /\ waiters[p] # <<>>
  /\ Head(waiters[p]) = p
  /\ pc[p] = "owner"
  /\ store' = [store EXCEPT ![key[p]] = Committed(outcome[p])]
  /\ waiters' = [waiters EXCEPT ![p] = Tail(@)]
  /\ Finish(p, outcome[p], FALSE)
  /\ UNCHANGED <<key, promise, outcome>>

(* Mutant: a call that joined reports the execution as its own. *)
JoinerResumesAsOwner(p) ==
  /\ promise[p] = "settled"
  /\ waiters[p] # <<>>
  /\ pc[Head(waiters[p])] = "joiner"
  /\ waiters' = [waiters EXCEPT ![p] = Tail(@)]
  /\ Finish(Head(waiters[p]), outcome[p], FALSE)
  /\ UNCHANGED <<store, key, promise, outcome>>

(* Next in line is a call that joined: it takes over the outcome. *)
JoinerResumes(p) ==
  /\ promise[p] = "settled"
  /\ waiters[p] # <<>>
  /\ pc[Head(waiters[p])] = "joiner"
  /\ waiters' = [waiters EXCEPT ![p] = Tail(@)]
  /\ Finish(Head(waiters[p]), outcome[p], TRUE)
  /\ UNCHANGED <<store, key, promise, outcome>>

-----------------------------------------------------------------------------
RunOnce(c, k) == RunOnceFresh(c, k) \/ RunOnceJoin(c, k) \/ RunOnceSettled(c, k)

Next ==
  \E c \in Calls :
    \/ RunOnceMalformed(c)
    \/ \E k \in Keys : RunOnce(c, k)
    \/ StartForward(c)
    \/ SettleForward(c)
    \/ OwnerResumes(c)
    \/ JoinerResumes(c)

Spec == Init /\ [][Next]_vars

(***************************************************************************)
(* Microtasks and promise reactions always run, and a forward always       *)
(* settles because UpstreamClient.callTool races it against a timer.       *)
(* Nothing obliges a host to make a call.                                  *)
(***************************************************************************)
Fairness ==
  \A c \in Calls :
    /\ WF_vars(StartForward(c))
    /\ WF_vars(SettleForward(c))
    /\ WF_vars(OwnerResumes(c))
    /\ WF_vars(JoinerResumes(c))

FairSpec == Spec /\ Fairness

-----------------------------------------------------------------------------
(* Properties. *)

(* Every variable keeps its shape. *)
TypeOK ==
  /\ store \in [Keys -> Entry]
  /\ key \in [Calls -> Keys \cup {None}]
  /\ pc \in [Calls -> {"idle", "owner", "joiner", "returned", "threw"}]
  /\ promise \in [Calls -> {"none", "queued", "running", "settled"}]
  /\ outcome \in [Calls -> Outcomes \cup {None}]
  /\ waiters \in [Calls -> Seq(Calls)]
  /\ answer \in [Calls -> Outcomes \cup {KeyError, None}]
  /\ reused \in [Calls -> BOOLEAN]

Started(c)  == promise[c] \in {"running", "settled"}
Finished(c) == pc[c] \in {"returned", "threw"}

(* However calls with one key interleave, fn is started by at most one of   *)
(* them: "run fn at most once per key" (idempotencyStore.js:22).            *)
AtMostOncePerKey ==
  \A c, d \in Calls :
    Started(c) /\ Started(d) /\ key[c] = key[d] => c = d

(* All calls with one key, the owner, those that joined while it was        *)
(* pending and those that came later, end with the same outcome; a failed   *)
(* forward is never turned into a success by a retry.                       *)
OutcomeAgreement ==
  \A c, d \in Calls :
    Finished(c) /\ Finished(d) /\ key[c] # None /\ key[c] = key[d]
      => answer[c] = answer[d]

(* The flag tells the truth: a call that reports reused = false is the one  *)
(* whose fn ran, and one that reports reused = true ran nothing.            *)
ReusedFlagIsTruthful ==
  \A c \in Calls :
    pc[c] = "returned" => (reused[c] <=> ~Started(c))

(* The owner commits before any call that shares its promise continues:     *)
(* once somebody has an answer for k the map holds that answer, so a later  *)
(* call cannot find k pending or absent.  This rests on the order in which  *)
(* promise reactions run.                                                   *)
CommittedBeforeAnswered ==
  \A c \in Calls :
    Finished(c) /\ key[c] # None => store[key[c]].value = answer[c]

(* Whatever a settled entry says stays said: neither a straggling owner nor *)
(* a retry overwrites it.                                                   *)
SettledEntryIsFinal ==
  [][\A k \in Keys :
       store[k].status \in {"done", "failed"} => store'[k] = store[k]]_vars

(* No call is left suspended: each call that was made returns or throws.    *)
EveryCallIsAnswered ==
  \A c \in Calls : (pc[c] # "idle") ~> Finished(c)

-----------------------------------------------------------------------------
(* The store implements its promise. *)

(* The calls that started fn for each key, and what their promises settled  *)
(* with; the answers, each under the key its call was made with.            *)
RunsOf == [k \in Keys |-> {c \in Calls : key[c] = k /\ Started(c)}]

VerdictsOf ==
  [k \in Keys |-> {outcome[c] : c \in {d \in Calls : key[d] = k /\ promise[d] = "settled"}}]

AnsweredAs == [c \in Calls |-> IF answer[c] = None THEN None ELSE <<key[c], answer[c]>>]

Abstract == INSTANCE AtMostOnce WITH
              runs <- RunsOf, verdicts <- VerdictsOf, answered <- AnsweredAs

(* Every behaviour of the store is one of AtMostOnce: executions are the    *)
(* starts of fn, verdicts what its promise settles with, answers what       *)
(* runOnce returns or throws for the key it was called with.                *)
ImplementsAtMostOnce == Abstract!Spec

=============================================================================
