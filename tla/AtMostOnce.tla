----------------------------- MODULE AtMostOnce -----------------------------
(***************************************************************************)
(* What the idempotency store promises the forward path, with the caching, *)
(* the promises and the scheduling left out.                               *)
(*                                                                         *)
(* Every key is a write-once register: the side effect behind a key is     *)
(* started at most once, by one call; it decides at most one verdict; and  *)
(* every call made with that key is answered with that verdict.  A call    *)
(* whose key is malformed is refused and touches no register.              *)
(*                                                                         *)
(* A register holds sets, not values, so that a mapping can show a second  *)
(* start or a second verdict: no action makes either set grow beyond one   *)
(* element, and a state in which it did would not be mapped away.          *)
(***************************************************************************)
CONSTANTS
  Calls,      \* invocations of runOnce; each is answered once
  Keys,       \* well-formed idempotency keys
  Results,    \* outcomes of a side effect that succeeded
  Failures,   \* outcomes of a side effect that failed
  KeyError,   \* the answer to a call with a malformed key
  None        \* "nothing yet"

VARIABLES
  runs,       \* runs[k]: the calls that started the side effect behind k
  verdicts,   \* verdicts[k]: the outcomes it ended with
  answered    \* answered[c]: the key and outcome c was answered with, or None

vars == <<runs, verdicts, answered>>

Init ==
  /\ runs = [k \in Keys |-> {}]
  /\ verdicts = [k \in Keys |-> {}]
  /\ answered = [c \in Calls |-> None]

(* Call c starts the side effect behind k: it is the first, and the last.   *)
Execute(c, k) ==
  /\ runs[k] = {}
  /\ runs' = [runs EXCEPT ![k] = {c}]
  /\ UNCHANGED <<verdicts, answered>>

(* The side effect behind k ends, with a result or with a failure. *)
Decide(k) ==
  /\ runs[k] # {}
  /\ verdicts[k] = {}
  /\ \E o \in Results \cup Failures : verdicts' = [verdicts EXCEPT ![k] = {o}]
  /\ UNCHANGED <<runs, answered>>

(* A call made with k is answered with the verdict on k. *)
Answer(c, k) ==
  /\ answered[c] = None
  /\ \E o \in verdicts[k] : answered' = [answered EXCEPT ![c] = <<k, o>>]
  /\ UNCHANGED <<runs, verdicts>>

(* A call with a malformed key is refused. *)
Refuse(c) ==
  /\ answered[c] = None
  /\ answered' = [answered EXCEPT ![c] = <<None, KeyError>>]
  /\ UNCHANGED <<runs, verdicts>>

Next ==
  \/ \E k \in Keys : Decide(k)
  \/ \E c \in Calls : Refuse(c)
  \/ \E c \in Calls, k \in Keys : Execute(c, k) \/ Answer(c, k)

Spec == Init /\ [][Next]_vars

=============================================================================
