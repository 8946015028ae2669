----------------------------- MODULE Gatekeeper -----------------------------
(***************************************************************************)
(* What the proxy promises the owner of the policy and the host, with the   *)
(* handlers, the snapshots, the promises and the audit log left out.        *)
(*                                                                          *)
(* A call passes the gate at most once, while nobody has been told how it   *)
(* ended, and only if every part of the policy that concerns it let it      *)
(* through.  Only calls that passed are sent to the wallet agent, a         *)
(* transfer or an approval once for all calls that ask for it, and a result *)
(* is told only to calls that passed, after an execution they may share.    *)
(*                                                                          *)
(* The policy is read part by part while its owner may change it, so the    *)
(* promise is about the parts: each was in force at some time while the     *)
(* call was under way.  It is not that they ever were in force together:    *)
(* a call can pass that no single version of the policy lets through.       *)
(***************************************************************************)
EXTENDS Naturals, Sequences

CONSTANTS
  Calls,       \* tools/call requests; a retry is another one
  Requests,    \* what they ask for
  Lists,       \* the lists of a policy
  Policies,    \* contents of the policy contract
  Admissible,  \* requests that the checks of their own content let through
  Unguarded,   \* requests let through when no policy contract is configured
  Once,        \* requests that must not be sent twice
  None

VARIABLES
  guarded,     \* a policy contract is configured
  chain,       \* the policies published so far
  asked,       \* asked[c]: what c asks for, or None
  since,       \* since[c]: the version on chain when c was received
  passed,      \* the calls that passed the gate
  sent,        \* the calls that were sent to the wallet agent
  executed,    \* the calls it has carried out
  told         \* told[c]: what the host was told, "none" before

vars == <<guarded, chain, asked, since, passed, sent, executed, told>>

Init ==
  /\ guarded \in BOOLEAN
  /\ \E p \in Policies : chain = <<p>>
  /\ asked = [c \in Calls |-> None]
  /\ since = [c \in Calls |-> 0]
  /\ passed = {} /\ sent = {} /\ executed = {}
  /\ told = [c \in Calls |-> "none"]

(* A call is received; some are answered at once. *)
Ask(c, r) ==
  /\ asked[c] = None
  /\ asked' = [asked EXCEPT ![c] = r]
  /\ since' = [since EXCEPT ![c] = Len(chain)]
  /\ \E answer \in {"none", "refused", "unavailable", "internal"} :
       told' = [told EXCEPT ![c] = answer]
  /\ UNCHANGED <<guarded, chain, passed, sent, executed>>

(* Without a policy contract there is no gate but the registry. *)
AskUnguarded(c, r) ==
  /\ ~guarded
  /\ r \in Unguarded
  /\ asked[c] = None
  /\ asked' = [asked EXCEPT ![c] = r]
  /\ since' = [since EXCEPT ![c] = Len(chain)]
  /\ passed' = passed \cup {c}
  /\ sent' = sent \cup {c}
  /\ UNCHANGED <<guarded, chain, executed, told>>

(* The parts of the policy permit what c asks for, each as it was when c    *)
(* came to it: not frozen at its version i, within the caps of the same or  *)
(* a later version k, still not frozen at f, and on every list as of some   *)
(* version after that.                                                      *)
Permitted(c) ==
  \E i \in since[c] .. Len(chain) : \E k \in i .. Len(chain) : \E f \in k .. Len(chain) :
    /\ ~chain[i].frozen /\ ~chain[f].frozen
    /\ asked[c] \in chain[k].caps
    /\ \A l \in Lists : \E w \in f .. Len(chain) : asked[c] \in chain[w].lists[l]

(* c passes the gate; what may be sent more than once is sent right away,   *)
(* or lost when there is no connection.                                     *)
Pass(c) ==
  /\ guarded
  /\ asked[c] \in Admissible /\ Permitted(c)
  /\ told[c] = "none" /\ c \notin passed
  /\ passed' = passed \cup {c}
  /\ (sent' = sent) \/ (asked[c] \notin Once /\ sent' = sent \cup {c})
  /\ UNCHANGED <<guarded, chain, asked, since, executed, told>>

(* What must not be sent twice is sent for the first call that asks for it. *)
Send(c) ==
  /\ guarded /\ asked[c] \in Once
  /\ c \in passed /\ told[c] = "none"
  /\ \A d \in sent : asked[d] # asked[c]
  /\ sent' = sent \cup {c}
  /\ UNCHANGED <<guarded, chain, asked, since, passed, executed, told>>

(* The wallet agent acts, however late. *)
Execute(c) ==
  /\ c \in sent \ executed
  /\ executed' = executed \cup {c}
  /\ UNCHANGED <<guarded, chain, asked, since, passed, sent, told>>

(* A result is an execution's: c's own, or for what is sent only once that  *)
(* of any call that asked for the same.                                     *)
Earned(c) ==
  /\ c \in passed
  /\ \/ c \in executed
     \/ guarded /\ asked[c] \in Once /\ \E d \in executed : asked[d] = asked[c]

(* The host is told, once; a call that passed is not refused any more. *)
Tell(c) ==
  /\ asked[c] # None /\ told[c] = "none"
  /\ \E answer \in {"refused", "failed", "internal", "result"} :
       /\ answer = "refused" => c \notin passed
       /\ answer = "result" => Earned(c)
       /\ told' = [told EXCEPT ![c] = answer]
  /\ UNCHANGED <<guarded, chain, asked, since, passed, sent, executed>>

(* The owner changes the policy. *)
Publish ==
  /\ \E p \in Policies : chain' = Append(chain, p)
  /\ UNCHANGED <<guarded, asked, since, passed, sent, executed, told>>

Next ==
  \/ Publish
  \/ \E c \in Calls :
       \/ \E r \in Requests : Ask(c, r) \/ AskUnguarded(c, r)
       \/ Pass(c) \/ Send(c) \/ Execute(c) \/ Tell(c)

Spec == Init /\ [][Next]_vars

=============================================================================
