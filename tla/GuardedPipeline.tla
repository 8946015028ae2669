--------------------------- MODULE GuardedPipeline ---------------------------
(***************************************************************************)
(* A host's tools/call on its way through Compass: handleUpstreamCall of    *)
(* the interceptor, the guarded runner, coverToolCall and guardedForward,   *)
(* together with what they share: the idempotency store, the policy on      *)
(* chain and the connection to the wallet agent.                            *)
(*                                                                          *)
(* The proxy is one JavaScript thread.  An action is the code between two   *)
(* awaits; calls interleave at the awaits, and so do the owner of the       *)
(* policy, the upstream and a shutdown.  The store is the module            *)
(* IdempotencyStore: every action that touches it is one of its actions.    *)
(*                                                                          *)
(* A request is a tool with its arguments.                                  *)
(***************************************************************************)
EXTENDS Naturals, Sequences, FiniteSets

CONSTANTS
  Calls,           \* tools/call requests a host makes; a retry is another one
  Requests,        \* what they ask for
  Lists,           \* the lists of the policy that the checks look into
  Policies,        \* contents the policy contract may be given
  MaxVersion,      \* bound: policy versions published
  Configurations,  \* TRUE: a policy contract is configured; FALSE: none is
  AuditMayFail,    \* appendFileSync may throw
  None

ToolClasses == {"read_only", "simulation", "chain_management",
                "transaction_execute", "token_approval", "signature"}

(* What the pure checks will find in a request:                             *)
(*   exposure  the arguments' shape and the registry (resolveToolForCall)   *)
(*   default   the registry's default_decision                              *)
(*   evidence  the required fields are there                                *)
(*   consent   the fields the consent is made of are not empty strings      *)
Request == [id       : STRING,
            class    : ToolClasses,
            exposure : {"visible", "drifted", "hidden", "malformed"},
            default  : {"allow", "block"},
            evidence : BOOLEAN,
            consent  : BOOLEAN]

(* A policy: the freeze flag, the requests within its caps, and for every   *)
(* list the requests that need nothing the list does not hold.              *)
Policy == [frozen : BOOLEAN, caps : SUBSET Requests, lists : [Lists -> SUBSET Requests]]

ASSUME PipelineConstants ==
  /\ None \notin Calls \cup {"ok", "failed", "malformed key"}
  /\ None \notin Requests
  /\ \A r \in Requests :
       /\ r.class \in ToolClasses
       /\ r.exposure \in {"visible", "drifted", "hidden", "malformed"}
       /\ r.default \in {"allow", "block"}
       /\ r.evidence \in BOOLEAN
       /\ r.consent \in BOOLEAN
  /\ Policies \subseteq Policy
  /\ MaxVersion \in Nat \ {0}
  /\ Configurations \subseteq BOOLEAN
  /\ AuditMayFail \in BOOLEAN

VARIABLES
  guarded,    \* buildGuardedRunner gave a runner: a policy contract is configured
  link,       \* UpstreamClient: "down" before connect, "up", "closed" after shutdown
  chain,      \* the policies published so far; chain[v] is version v
  stage,      \* stage[c]: where the handler of call c is suspended
  request,    \* request[c]: the request c carries
  arrived,    \* arrived[c]: the version on chain when c was received
  sim,        \* sim[c]: status of the simulation evidence
  seen,       \* seen[c]: what c has read of the policy so far
  verdict,    \* verdict[c]: the LLM's verdict
  upstream,   \* upstream[c]: what the wallet agent has done with c's forward
  audit,      \* audit[c]: audit events with c's correlation id, in order
  reply,      \* reply[c]: what the host was told
  store, key, pc, promise, outcome, waiters, answer, reused

surroundings == <<guarded, link, chain>>
callVars  == <<stage, request, arrived, sim, seen, verdict, audit, reply>>
storeVars == <<store, key, pc, promise, outcome, waiters, answer, reused>>
vars == <<guarded, link, chain, stage, request, arrived, sim, seen, verdict,
          upstream, audit, reply, store, key, pc, promise, outcome, waiters, answer, reused>>

(* new IdempotencyStore() of the runner. *)
Store == INSTANCE IdempotencyStore WITH
           Keys     <- Requests,
           Results  <- {"ok"},
           Failures <- {"failed"},
           KeyError <- "malformed key"

(* What a handler knows of the policy, as far as it has read it: permits    *)
(* says whether the caps and the lists it has read let its request through. *)
Snapshot == [version : 1 .. MaxVersion, frozen : BOOLEAN, permits : BOOLEAN,
             unread : SUBSET Lists]

MutationClasses == {"transaction_execute", "token_approval", "signature"}

(* Mutant: approvals are not taken for executions. *)
IdempotentClassesWithoutApprovals == {"transaction_execute"}

IdempotentClasses == {"transaction_execute", "token_approval"}

Init ==
  /\ guarded \in Configurations
  /\ link = "down"
  /\ chain \in {<<p>> : p \in Policies}
  /\ stage = [c \in Calls |-> "idle"]
  /\ request = [c \in Calls |-> None]
  /\ arrived = [c \in Calls |-> 0]
  /\ sim = [c \in Calls |-> "none"]
  /\ seen = [c \in Calls |-> None]
  /\ verdict = [c \in Calls |-> "none"]
  /\ upstream = [c \in Calls |-> "untouched"]
  /\ audit = [c \in Calls |-> <<>>]
  /\ reply = [c \in Calls |-> "none"]
  /\ Store!Init

-----------------------------------------------------------------------------
(* How a handler ends: it appends its terminal event, then answers. *)

(* Outside try, a record that throws rejects the handler: the server says   *)
(* INTERNAL_ERROR.                                                          *)
EndOutsideTry(c, log, event, told) ==
  /\ stage' = [stage EXCEPT ![c] = "done"]
  /\ \/ /\ audit' = [audit EXCEPT ![c] = Append(log, event)]
        /\ reply' = [reply EXCEPT ![c] = told]
     \/ /\ AuditMayFail
        /\ audit' = [audit EXCEPT ![c] = log]
        /\ reply' = [reply EXCEPT ![c] = "internal"]

(* The catch block. *)
EndInCatch(c) == EndOutsideTry(c, audit[c], "upstream_error", "failed")

(* Mutant: the record fails after its line was written. *)
EndInTryFailsLate(c, event, told) ==
  \/ /\ stage' = [stage EXCEPT ![c] = "done"]
     /\ audit' = [audit EXCEPT ![c] = Append(@, event)]
     /\ reply' = [reply EXCEPT ![c] = told]
  \/ /\ AuditMayFail
     /\ EndOutsideTry(c, Append(audit[c], event), "upstream_error", "failed")

(* Inside try, a record that throws lands in the catch block. *)
EndInTry(c, event, told) ==
  \/ /\ stage' = [stage EXCEPT ![c] = "done"]
     /\ audit' = [audit EXCEPT ![c] = Append(@, event)]
     /\ reply' = [reply EXCEPT ![c] = told]
  \/ /\ AuditMayFail
     /\ EndInCatch(c)

Block(c) == EndInTry(c, "blocked", "refused")

(* UpstreamClient.callTool: without a connection it rejects, sending nothing. *)
Send(c) ==
  upstream' = IF link = "up" THEN [upstream EXCEPT ![c] = "requested"] ELSE upstream

-----------------------------------------------------------------------------
(* handleUpstreamCall up to its first await. *)

(* resolveToolForCall: without a tool list a drifted tool passes for visible. *)
Visible(r) == r.exposure = "visible" \/ (r.exposure = "drifted" /\ link = "down")

(* plan: not malformed, visible, and without the pipeline default-allow. *)
PlanForwards(r) ==
  /\ r.exposure # "malformed"
  /\ Visible(r)
  /\ guarded \/ r.default = "allow"

Receive(c, r) ==
  /\ stage[c] = "idle"
  /\ request' = [request EXCEPT ![c] = r]
  /\ arrived' = [arrived EXCEPT ![c] = Len(chain)]
  /\ UNCHANGED <<surroundings, sim, seen, verdict, storeVars>>

(* tool_call_received cannot be written. *)
ReceiveUnaudited(c, r) ==
  /\ AuditMayFail
  /\ Receive(c, r)
  /\ stage' = [stage EXCEPT ![c] = "done"]
  /\ reply' = [reply EXCEPT ![c] = "internal"]
  /\ UNCHANGED <<upstream, audit>>

ReceiveBlocked(c, r) ==
  /\ Receive(c, r)
  /\ ~PlanForwards(r)
  /\ EndOutsideTry(c, <<"received">>, "blocked", "refused")
  /\ UNCHANGED upstream

ReceiveUnavailable(c, r) ==
  /\ Receive(c, r)
  /\ PlanForwards(r)
  /\ link # "up"
  /\ EndOutsideTry(c, <<"received">>, "unavailable", "unavailable")
  /\ UNCHANGED upstream

(* guarded.run: mutations are simulated first. *)
ReceiveGuarded(c, r) ==
  /\ guarded
  /\ Receive(c, r)
  /\ PlanForwards(r)
  /\ link = "up"
  /\ stage' = [stage EXCEPT ![c] =
                 IF r.class \in MutationClasses THEN "simulating" ELSE "identity"]
  /\ audit' = [audit EXCEPT ![c] = <<"received">>]
  /\ UNCHANGED <<upstream, reply>>

(* Without the pipeline the call goes straight to the upstream. *)
ReceiveDirect(c, r) ==
  /\ ~guarded
  /\ Receive(c, r)
  /\ PlanForwards(r)
  /\ link = "up"
  /\ Send(c)
  /\ stage' = [stage EXCEPT ![c] = "forwarding"]
  /\ audit' = [audit EXCEPT ![c] = <<"received">>]
  /\ UNCHANGED reply

-----------------------------------------------------------------------------
(* The guarded pipeline. *)

(* What buildSimulationEvidence answers: eth_call reverts or fails, then    *)
(* eth_estimateGas does, or neither.                                        *)
SimulationStatus == {"success", "failed", "unavailable"}

(* checkConsent of the object the runner has put together for call c. *)
Consented(c) == request[c].consent

(* The fields extractEvidence copies from the arguments include all that    *)
(* the registry requires; the evidence flags it sets itself.                *)
HasRequiredFields(c) == request[c].evidence

(* deriveIdempotencyKey of the candidate digest: a hash of the tool and of  *)
(* its canonical arguments, so two calls share it iff they ask for the same.*)
IdempotencyKey(c) == request[c]

(* buildSimulationEvidence answers; then the consent gate of coverToolCall. *)
Simulate(c) ==
  /\ stage[c] = "simulating"
  /\ \E status \in SimulationStatus : sim' = [sim EXCEPT ![c] = status]
  /\ IF Consented(c)
       THEN stage' = [stage EXCEPT ![c] = "identity"] /\ UNCHANGED <<audit, reply>>
       ELSE Block(c)
  /\ UNCHANGED <<surroundings, request, arrived, seen, verdict, upstream, storeVars>>

(* Mutant: the contract is read once, when the proxy starts. *)
NewestAtStartUp == chain[1]

(* The policy a read finds.  No read names a block, so each one is answered *)
(* from the newest policy by then.                                          *)
Newest == chain[Len(chain)]

(* fetchPolicySnapshot reads one part after the other: the identity ...     *)
ReadIdentity(c) ==
  /\ stage[c] = "identity"
  /\ seen' = [seen EXCEPT ![c] = [version |-> Len(chain), frozen |-> Newest.frozen,
                                  permits |-> TRUE, unread |-> Lists]]
  /\ stage' = [stage EXCEPT ![c] = "caps"]
  /\ UNCHANGED <<surroundings, request, arrived, sim, verdict, upstream,
                 audit, reply, storeVars>>

(* ... the caps ... *)
ReadCaps(c) ==
  /\ stage[c] = "caps"
  /\ seen' = [seen EXCEPT ![c].permits = request[c] \in Newest.caps]
  /\ stage' = [stage EXCEPT ![c] = "flags"]
  /\ UNCHANGED <<surroundings, request, arrived, sim, verdict, upstream,
                 audit, reply, storeVars>>

(* ... the flags, which are frozen if the identity was ... *)
ReadFlags(c) ==
  /\ stage[c] = "flags"
  /\ seen' = [seen EXCEPT ![c].frozen = @ \/ Newest.frozen]
  /\ stage' = [stage EXCEPT ![c] = "lists"]
  /\ UNCHANGED <<surroundings, request, arrived, sim, verdict, upstream,
                 audit, reply, storeVars>>

(* ... and the lists, all at a time, in pages (PolicySource has the pages). *)
(* What the request needs of a list is one entry, so one step stands for a  *)
(* list: the page with the entry, if it is found, was as the list was then. *)
(* An entry that moves between two pages and is missed refuses the call, as *)
(* ReadFails does.                                                          *)
ReadList(c, l) ==
  /\ stage[c] = "lists" /\ l \in seen[c].unread
  /\ seen' = [seen EXCEPT ![c].permits = @ /\ request[c] \in Newest.lists[l],
                          ![c].unread  = @ \ {l}]
  /\ UNCHANGED <<surroundings, stage, request, arrived, sim, verdict, upstream,
                 audit, reply, storeVars>>

(* The stages of fetchPolicySnapshot. *)
Reading == {"identity", "caps", "flags", "lists"}

(* An RPC fails or times out, or the snapshot does not validate. *)
ReadFails(c) ==
  /\ stage[c] \in Reading
  /\ Block(c)
  /\ UNCHANGED <<surroundings, request, arrived, sim, seen, verdict, upstream, storeVars>>

(* Mutant: only a simulation that failed blocks, not one that is missing. *)
DeterministicAllowUnsimulated(c) ==
  /\ ~seen[c].frozen
  /\ HasRequiredFields(c)
  /\ request[c].class \in MutationClasses => sim[c] # "failed"
  /\ seen[c].permits

(* evaluatePolicy on the snapshot. *)
DeterministicAllow(c) ==
  /\ ~seen[c].frozen
  /\ HasRequiredFields(c)
  /\ request[c].class \in MutationClasses => sim[c] = "success"
  /\ seen[c].permits

(* The snapshot is complete: the deterministic decision, and on allow the   *)
(* request to the LLM.                                                      *)
Decide(c) ==
  /\ stage[c] = "lists" /\ seen[c].unread = {}
  /\ IF DeterministicAllow(c)
       THEN stage' = [stage EXCEPT ![c] = "review"] /\ UNCHANGED <<audit, reply>>
       ELSE Block(c)
  /\ UNCHANGED <<surroundings, request, arrived, sim, seen, verdict, upstream, storeVars>>

(* Unsafe, malformed, unavailable or late: anything but an explicit "safe". *)
ReviewVetoed(c) ==
  /\ stage[c] = "review"
  /\ verdict' = [verdict EXCEPT ![c] = "vetoed"]
  /\ Block(c)
  /\ UNCHANGED <<surroundings, request, arrived, sim, seen, upstream, storeVars>>

(* Safe, and the class is one that must not execute twice. *)
ReviewSafeOnce(c) ==
  /\ stage[c] = "review"
  /\ request[c].class \in IdempotentClasses
  /\ verdict' = [verdict EXCEPT ![c] = "safe"]
  /\ stage' = [stage EXCEPT ![c] = "awaiting"]
  /\ Store!RunOnce(c, IdempotencyKey(c))
  /\ UNCHANGED <<surroundings, request, arrived, sim, seen, upstream, audit, reply>>

(* Mutant: whatever the class, the forward is direct. *)
ReviewSafeDirectAnyClass(c) ==
  /\ stage[c] = "review"
  /\ verdict' = [verdict EXCEPT ![c] = "safe"]
  /\ stage' = [stage EXCEPT ![c] = "forwarding"]
  /\ Send(c)
  /\ UNCHANGED <<surroundings, request, arrived, sim, seen, audit, reply, storeVars>>

(* Safe, any other class: forwarded directly. *)
ReviewSafeDirect(c) ==
  /\ stage[c] = "review"
  /\ request[c].class \notin IdempotentClasses
  /\ verdict' = [verdict EXCEPT ![c] = "safe"]
  /\ stage' = [stage EXCEPT ![c] = "forwarding"]
  /\ Send(c)
  /\ UNCHANGED <<surroundings, request, arrived, sim, seen, audit, reply, storeVars>>

-----------------------------------------------------------------------------
(* The forward. *)

(* The microtask of runOnce calls forward. *)
StartForward(c) ==
  /\ Store!StartForward(c)
  /\ Send(c)
  /\ UNCHANGED <<surroundings, callVars>>

(* A result needs an execution; a failure can also be a timeout, before or  *)
(* after the upstream acted, or a call that was never sent.                 *)
SettleForward(c) ==
  /\ Store!SettleForward(c)
  /\ outcome'[c] = "ok" => upstream[c] = "executed"
  /\ UNCHANGED <<surroundings, upstream, callVars>>

(* The reactions inside runOnce. *)
StoreResumes(c) ==
  /\ Store!OwnerResumes(c) \/ Store!JoinerResumes(c)
  /\ UNCHANGED <<surroundings, upstream, callVars>>

(* Mutant: the rejection of runOnce is not caught. *)
ReturnForwardedUncaught(c) ==
  /\ stage[c] = "awaiting"
  /\ pc[c] = "returned"
  /\ EndInTry(c, "forwarded", "result")
  /\ UNCHANGED <<surroundings, request, arrived, sim, seen, verdict, upstream, storeVars>>

(* Mutant: the audit does not look at how runOnce ended. *)
ReturnForwardedAlwaysSuccess(c) ==
  /\ stage[c] = "awaiting"
  /\ pc[c] \in {"returned", "threw"}
  /\ EndInTry(c, "forwarded", "result")
  /\ UNCHANGED <<surroundings, request, arrived, sim, seen, verdict, upstream, storeVars>>

(* runOnce has returned or thrown. *)
ReturnForwarded(c) ==
  /\ stage[c] = "awaiting"
  /\ \/ pc[c] = "returned" /\ EndInTry(c, "forwarded", "result")
     \/ pc[c] = "threw" /\ EndInCatch(c)
  /\ UNCHANGED <<surroundings, request, arrived, sim, seen, verdict, upstream, storeVars>>

(* A direct forward resolves or rejects. *)
ReturnDirect(c) ==
  /\ stage[c] = "forwarding"
  /\ \/ upstream[c] = "executed" /\ EndInTry(c, "forwarded", "result")
     \/ EndInCatch(c)
  /\ UNCHANGED <<surroundings, request, arrived, sim, seen, verdict, upstream, storeVars>>

-----------------------------------------------------------------------------
(* The surroundings. *)

(* The wallet agent handles a request, possibly after its timeout.  An      *)
(* error it reports in its answer is a result of the call like any other.   *)
UpstreamExecutes(c) ==
  /\ upstream[c] = "requested"
  /\ upstream' = [upstream EXCEPT ![c] = "executed"]
  /\ UNCHANGED <<surroundings, callVars, storeVars>>

(* updatePolicy or setFrozen of the contract. *)
PublishPolicy ==
  /\ Len(chain) < MaxVersion
  /\ \E p \in Policies : chain' = Append(chain, p)
  /\ UNCHANGED <<guarded, link, upstream, callVars, storeVars>>

(* The one connect of the proxy succeeds.  main awaits it before it serves  *)
(* the host; when it fails the proxy serves without an upstream.            *)
Connect ==
  /\ link = "down"
  /\ \A c \in Calls : stage[c] = "idle"
  /\ link' = "up"
  /\ UNCHANGED <<guarded, chain, upstream, callVars, storeVars>>

Shutdown ==
  /\ link = "up"
  /\ link' = "closed"
  /\ UNCHANGED <<guarded, chain, upstream, callVars, storeVars>>

-----------------------------------------------------------------------------
ReceiveCall(c) ==
  \E r \in Requests :
    \/ ReceiveUnaudited(c, r)
    \/ ReceiveBlocked(c, r)
    \/ ReceiveUnavailable(c, r)
    \/ ReceiveGuarded(c, r)
    \/ ReceiveDirect(c, r)

Read(c) ==
  \/ ReadIdentity(c)
  \/ ReadCaps(c)
  \/ ReadFlags(c)
  \/ \E l \in Lists : ReadList(c, l)
  \/ ReadFails(c)
  \/ Decide(c)

Review(c) == ReviewVetoed(c) \/ ReviewSafeOnce(c) \/ ReviewSafeDirect(c)

Handler(c) ==
  \/ Simulate(c)
  \/ Read(c)
  \/ Review(c)
  \/ StartForward(c)
  \/ SettleForward(c)
  \/ StoreResumes(c)
  \/ ReturnForwarded(c)
  \/ ReturnDirect(c)

Next ==
  \/ \E c \in Calls : ReceiveCall(c) \/ Handler(c) \/ UpstreamExecutes(c)
  \/ PublishPolicy
  \/ Connect
  \/ Shutdown

Spec == Init /\ [][Next]_vars

(***************************************************************************)
(* Every await has a timer behind it: 15 s on JSON-RPC and on the LLM,      *)
(* viem's own on policy reads, callTimeoutMs on the forward.  So a handler  *)
(* that waits goes on, one way or another.  The upstream owes nothing.      *)
(* Reactions of the store run for the promise they wait on, whichever call  *)
(* owns it, hence fairness for every call.                                  *)
(***************************************************************************)
Fairness ==
  \A c \in Calls :
    /\ WF_vars(Simulate(c))
    /\ WF_vars(Read(c))
    /\ WF_vars(Review(c))
    /\ WF_vars(StartForward(c))
    /\ WF_vars(SettleForward(c))
    /\ WF_vars(StoreResumes(c))
    /\ WF_vars(ReturnForwarded(c))
    /\ WF_vars(ReturnDirect(c))

FairSpec == Spec /\ Fairness

-----------------------------------------------------------------------------
(* Properties. *)

(* Every variable keeps its shape. *)
TypeOK ==
  /\ guarded \in BOOLEAN
  /\ link \in {"down", "up", "closed"}
  /\ chain \in Seq(Policies) /\ Len(chain) \in 1 .. MaxVersion
  /\ stage \in [Calls -> {"idle", "simulating", "identity", "caps", "flags", "lists",
                          "review", "awaiting", "forwarding", "done"}]
  /\ request \in [Calls -> Requests \cup {None}]
  /\ arrived \in [Calls -> 0 .. MaxVersion]
  /\ sim \in [Calls -> SimulationStatus \cup {"none"}]
  /\ seen \in [Calls -> Snapshot \cup {None}]
  /\ verdict \in [Calls -> {"none", "safe", "vetoed"}]
  /\ upstream \in [Calls -> {"untouched", "requested", "executed"}]
  /\ audit \in [Calls -> Seq({"received", "blocked", "unavailable", "forwarded",
                              "upstream_error"})]
  /\ reply \in [Calls -> {"none", "refused", "unavailable", "result", "failed",
                          "internal"}]
  /\ Store!TypeOK

Contacted(c) == upstream[c] # "untouched"
Logged(c, event) == \E i \in DOMAIN audit[c] : audit[c][i] = event

(* All gates passed by call c itself. *)
Cleared(c) ==
  /\ request[c].exposure = "visible"
  /\ IF guarded
       THEN /\ request[c].evidence
            /\ ~seen[c].frozen
            /\ seen[c].permits /\ seen[c].unread = {}
            /\ request[c].class \in MutationClasses
                 => request[c].consent /\ sim[c] = "success"
            /\ verdict[c] = "safe"
       ELSE request[c].default = "allow"

(* Nothing reaches the wallet agent, and no result reaches the host, that   *)
(* did not pass every gate itself: a call that joins the execution of       *)
(* another one has been reviewed too (guardedForward.js:5-12).              *)
OnlyClearedCallsForward ==
  \A c \in Calls : Contacted(c) \/ reply[c] = "result" => Cleared(c)

(* A refused call never contacts the upstream, neither before the refusal   *)
(* nor later through a forward left in the store's queue.                   *)
RefusedNeverContacts ==
  \A c \in Calls :
    reply[c] = "refused" => ~Contacted(c) /\ promise[c] = "none"

(* Freezing the contract stops everything received from then on: a call     *)
(* that reaches the upstream while the newest policy is frozen was received *)
(* under an earlier version, however long its handler took.                 *)
FreezeStopsNewCalls ==
  guarded =>
    \A c \in Calls :
      Contacted(c) /\ chain[Len(chain)].frozen => arrived[c] < Len(chain)

(* However the host retries, the wallet agent is asked at most once for one *)
(* execution or approval, also when the answer came too late.               *)
AtMostOneForwardPerIntent ==
  guarded =>
    \A c, d \in Calls :
      /\ Contacted(c) /\ Contacted(d)
      /\ request[c] = request[d]
      /\ request[c].class \in {"transaction_execute", "token_approval"}
      => c = d

(* The audit log does not lie: a call logged as forwarded was carried out,  *)
(* by itself or by the call it joined, and one logged as blocked was not    *)
(* even sent.  An upstream_error tells neither: the call may have timed out *)
(* and been carried out, or its own "forwarded" could not be written.       *)
AuditIsTruthful ==
  \A c \in Calls :
    /\ Logged(c, "forwarded")
         => \E d \in Calls : request[d] = request[c] /\ upstream[d] = "executed"
    /\ Logged(c, "blocked") \/ Logged(c, "unavailable") => ~Contacted(c)

(* A call has one terminal event when it is over, none before; only a       *)
(* failing log leaves it without one, and then the host is told of an       *)
(* internal error.                                                          *)
OneTerminalEvent ==
  \A c \in Calls :
    Len(audit[c]) = IF stage[c] = "idle" THEN 0
                    ELSE IF stage[c] # "done" THEN 1
                    ELSE IF reply[c] # "internal" THEN 2
                    ELSE IF audit[c] = <<>> THEN 0 ELSE 1

(* A shutdown between the checks and the forward is noticed: a request is   *)
(* only ever sent over a live connection (upstreamClient.ts:147).           *)
SendsOnlyWhileConnected ==
  [][\A c \in Calls : ~Contacted(c) /\ Contacted(c)' => link = "up"]_vars

(* Every call a host makes is answered.                                     *)
EveryCallIsAnswered ==
  \A c \in Calls : (stage[c] # "idle") ~> (stage[c] = "done")

-----------------------------------------------------------------------------
(* What the pipeline is for. *)

(* Gatekeeper's view of the pipeline.  Without a policy contract a call     *)
(* passes when it is sent.                                                  *)
Passed   == {c \in Calls : IF guarded THEN verdict[c] = "safe" ELSE Contacted(c)}
Sent     == {c \in Calls : Contacted(c)}
Executed == {c \in Calls : upstream[c] = "executed"}

Gate == INSTANCE Gatekeeper WITH
          Admissible <- {r \in Requests :
                           /\ r.exposure = "visible" /\ r.evidence
                           /\ r.class \in MutationClasses => r.consent},
          Unguarded  <- {r \in Requests : r.exposure = "visible" /\ r.default = "allow"},
          Once       <- {r \in Requests :
                           r.class \in {"transaction_execute", "token_approval"}},
          asked      <- request,
          since      <- arrived,
          passed     <- Passed,
          sent       <- Sent,
          executed   <- Executed,
          told       <- reply

(* Every step of the handlers, the store and their surroundings is one that *)
(* the gate promises, or none at all: nobody passes twice, after an answer  *)
(* or on parts of a policy that were not in force meanwhile, nothing is     *)
(* sent that has not passed, and no result is made up.                      *)
ImplementsGatekeeper == Gate!Spec

-----------------------------------------------------------------------------
(* What the specifications in openspec say, and the code does not keep. *)

(* The record's policy_version identifies the policy that governed the      *)
(* decision to forward.                                                     *)
GovernedByRecordedVersion ==
  guarded =>
    \A c \in Calls :
      Contacted(c) =>
        LET recorded == chain[seen[c].version]
        IN  /\ ~recorded.frozen
            /\ request[c] \in recorded.caps
            /\ \A l \in Lists : request[c] \in recorded.lists[l]

=============================================================================
