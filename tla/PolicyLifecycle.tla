--------------------------- MODULE PolicyLifecycle ---------------------------
(***************************************************************************)
(* coverPolicyUpdate: deploying or updating the user's policy contract as a *)
(* guarded mutation of its own, from the caller's reading of the policy to  *)
(* the record and the audit event.                                          *)
(*                                                                          *)
(* An action is the code between two awaits.  The caller hands over the     *)
(* policy it has read, so the owner and the version the call works with may *)
(* be out of date from the start; the contract, whose transactions land     *)
(* whenever they are mined, has the last word.  With an idempotency store   *)
(* every step that touches it is a step of IdempotencyStore.                *)
(***************************************************************************)
EXTENDS Naturals, Sequences, FiniteSets

CONSTANTS
  Calls,        \* invocations of coverPolicyUpdate; a retry is another one
  Accounts,     \* who may own the contract or ask for an update
  Updates,      \* proposed contents, as canonicalJson tells them apart
  Proposals,    \* the parameters calls are made with
  Callers,      \* what callers may supply: an idempotency store, an auditWriter
  MaxVersion,   \* bound: versions the contract is given
  None

(* consent, simulation and callable say what checkConsent, the status of    *)
(* the simulation and "typeof forward" will find.                           *)
Proposal == [kind       : {"bootstrap", "update", "unknown"},
             requester  : Accounts \cup {None},
             update     : Updates,
             consent    : BOOLEAN,
             simulation : {"success", "failed", "missing"},
             callable   : BOOLEAN]

ASSUME LifecycleConstants ==
  /\ Proposals \subseteq Proposal
  /\ Callers \subseteq [stored : BOOLEAN, written : BOOLEAN]
  /\ MaxVersion \in Nat \ {0}
  /\ None \notin Calls \cup Accounts \cup Updates \cup {"ok", "failed", "malformed key"}

VARIABLES
  stored,     \* is there an idempotency store?
  written,    \* is there an auditWriter?
  owner,      \* owner of the contract, None before it is deployed
  version,    \* its version, 0 before it is deployed
  stage,      \* stage[c]: where call c is suspended
  proposal,   \* proposal[c]: its parameters
  reading,    \* reading[c]: currentPolicy, as its caller read it
  verdict,    \* verdict[c]: of the LLM
  tx,         \* tx[c]: what became of the call's own transaction
  landed,     \* landed[c]: the version that transaction made, 0 if none
  prior,      \* prior[c]: prior_policy_version of the record, 0 for null
  audit,      \* audit[c]: the event policy_update_observed
  reply,      \* reply[c]: what the caller was told
  store, key, pc, promise, outcome, waiters, answer, reused

contract  == <<stored, written, owner, version>>
storeVars == <<store, key, pc, promise, outcome, waiters, answer, reused>>
vars == <<stored, written, owner, version, stage, proposal, reading, verdict, tx,
          landed, prior, audit, reply,
          store, key, pc, promise, outcome, waiters, answer, reused>>

(* What keccak256 of kind, requester and digest tells apart. *)
Intents == [kind : {"bootstrap", "update"}, requester : Accounts, update : Updates]

(* Mutant: the key leaves the digest of the update out. *)
IntentPerRequester(c) ==
  [kind |-> proposal[c].kind, requester |-> proposal[c].requester,
   update |-> CHOOSE u \in Updates : TRUE]

IntentOf(c) ==
  [kind |-> proposal[c].kind, requester |-> proposal[c].requester,
   update |-> proposal[c].update]

ASSUME NoneIsNoIntent == None \notin Intents

Store == INSTANCE IdempotencyStore WITH
           Keys     <- Intents,
           Results  <- {"ok"},
           Failures <- {"failed"},
           KeyError <- "malformed key"

(* The part of a PolicySnapshot the lifecycle uses. *)
Reading == [version : 1 .. MaxVersion, owner : Accounts]

Init ==
  /\ \E caller \in Callers : stored = caller.stored /\ written = caller.written
  /\ \/ owner = None /\ version = 0
     \/ owner \in Accounts /\ version = 1
  /\ stage = [c \in Calls |-> "idle"]
  /\ proposal = [c \in Calls |-> None]
  /\ reading = [c \in Calls |-> None]
  /\ verdict = [c \in Calls |-> "none"]
  /\ tx = [c \in Calls |-> "none"]
  /\ landed = [c \in Calls |-> 0]
  /\ prior = [c \in Calls |-> 0]
  /\ audit = [c \in Calls |-> "none"]
  /\ reply = [c \in Calls |-> "none"]
  /\ Store!Init

-----------------------------------------------------------------------------
(* The caller reads the policy; it may fail to, or find none deployed. *)
ReadPolicy(c) ==
  /\ stage[c] = "idle"
  /\ stage' = [stage EXCEPT ![c] = "informed"]
  /\ \/ UNCHANGED reading
     \/ /\ version # 0
        /\ reading' = [reading EXCEPT ![c] = [version |-> version, owner |-> owner]]
  /\ UNCHANGED <<contract, proposal, verdict, tx, landed, prior, audit, reply, storeVars>>

(* Policy-over-policy: the owner updates, whoever finds no policy deploys. *)
Authorized(p, current) ==
  /\ p.requester # None
  /\ \/ p.kind = "update" /\ current # None /\ p.requester = current.owner
     \/ p.kind = "bootstrap" /\ current = None

(* Mutant: consent is asked of updates only. *)
AdmissibleBootstrapsFreely(p, current) ==
  /\ Authorized(p, current)
  /\ p.kind = "update" => p.consent
  /\ p.simulation = "success"

(* Authorization, consent and simulation, the synchronous gates. *)
Admissible(p, current) ==
  /\ Authorized(p, current)
  /\ p.consent
  /\ p.simulation = "success"

Decline(c, word) ==
  /\ stage' = [stage EXCEPT ![c] = "done"]
  /\ reply' = [reply EXCEPT ![c] = word]

(* coverPolicyUpdate up to the await of the LLM. *)
Cover(c, p) ==
  /\ stage[c] = "informed"
  /\ proposal' = [proposal EXCEPT ![c] = p]
  /\ \/ /\ Admissible(p, reading[c])
        /\ stage' = [stage EXCEPT ![c] = "review"]
        /\ UNCHANGED reply
     \/ /\ Authorized(p, reading[c])
        /\ ~p.consent
        /\ Decline(c, "skipped")
     \/ /\ ~Admissible(p, reading[c])
        /\ ~(Authorized(p, reading[c]) /\ ~p.consent)
        /\ Decline(c, "block")
  /\ UNCHANGED <<contract, reading, verdict, tx, landed, prior, audit, storeVars>>

(* finalSafetyReview answers anything but "safe", or "safe" with no forward *)
(* function to call.                                                        *)
ReviewBlocks(c) ==
  /\ stage[c] = "review"
  /\ \/ verdict' = [verdict EXCEPT ![c] = "vetoed"]
     \/ ~proposal[c].callable /\ verdict' = [verdict EXCEPT ![c] = "safe"]
  /\ Decline(c, "block")
  /\ UNCHANGED <<contract, proposal, reading, tx, landed, prior, audit, storeVars>>

(* Mutant: only updates go through the store. *)
ReviewPassesBootstrapsDirectly(c) ==
  /\ stage[c] = "review"
  /\ proposal[c].callable
  /\ verdict' = [verdict EXCEPT ![c] = "safe"]
  /\ stage' = [stage EXCEPT ![c] = "forwarding"]
  /\ IF stored /\ proposal[c].kind = "update"
       THEN Store!RunOnce(c, IntentOf(c)) /\ UNCHANGED tx
       ELSE tx' = [tx EXCEPT ![c] = "sent"] /\ UNCHANGED storeVars
  /\ UNCHANGED <<contract, proposal, reading, landed, prior, audit, reply>>

(* Safe: forwarded once for all who ask the same, or directly. *)
ReviewPasses(c) ==
  /\ stage[c] = "review"
  /\ proposal[c].callable
  /\ verdict' = [verdict EXCEPT ![c] = "safe"]
  /\ stage' = [stage EXCEPT ![c] = "forwarding"]
  /\ IF stored
       THEN Store!RunOnce(c, IntentOf(c)) /\ UNCHANGED tx
       ELSE tx' = [tx EXCEPT ![c] = "sent"] /\ UNCHANGED storeVars
  /\ UNCHANGED <<contract, proposal, reading, landed, prior, audit, reply>>

-----------------------------------------------------------------------------
(* The forward and the contract. *)

(* The microtask of runOnce calls forward(kind, update). *)
StartForward(c) ==
  /\ Store!StartForward(c)
  /\ tx' = [tx EXCEPT ![c] = "sent"]
  /\ UNCHANGED <<contract, stage, proposal, reading, verdict, landed, prior, audit, reply>>

(* forward resolves with a transaction hash or rejects; neither says        *)
(* whether the transaction has been mined or ever will be.                  *)
SettleForward(c) ==
  /\ Store!SettleForward(c)
  /\ UNCHANGED <<contract, stage, proposal, reading, verdict, tx, landed, prior, audit, reply>>

StoreResumes(c) ==
  /\ Store!OwnerResumes(c) \/ Store!JoinerResumes(c)
  /\ UNCHANGED <<contract, stage, proposal, reading, verdict, tx, landed, prior, audit, reply>>

(* The transaction is mined.  updatePolicy is onlyOwner; a deployment over  *)
(* an existing contract makes another contract nobody reads.                *)
TransactionLands(c) ==
  /\ tx[c] = "sent"
  /\ LET p == proposal[c]
         lands == IF p.kind = "update" THEN p.requester = owner ELSE version = 0
     IN  IF lands
           THEN /\ version < MaxVersion
                /\ version' = version + 1
                /\ owner' = p.requester
                /\ landed' = [landed EXCEPT ![c] = version + 1]
                /\ tx' = [tx EXCEPT ![c] = "landed"]
           ELSE /\ tx' = [tx EXCEPT ![c] = IF p.kind = "update" THEN "reverted" ELSE "stray"]
                /\ UNCHANGED <<owner, version, landed>>
  /\ UNCHANGED <<stored, written, stage, proposal, reading, verdict, prior, audit, reply,
                 storeVars>>

(* The owner acts on the contract from elsewhere: a new version, or         *)
(* transferOwnership, which does not count as one.                          *)
OwnerActs ==
  /\ version # 0
  /\ \/ /\ version < MaxVersion
        /\ version' = version + 1
        /\ UNCHANGED owner
     \/ owner' \in Accounts \ {owner} /\ UNCHANGED version
  /\ UNCHANGED <<stored, written, stage, proposal, reading, verdict, tx, landed, prior, audit,
                 reply, storeVars>>

-----------------------------------------------------------------------------
(* Behind the await of the forward. *)

(* prior_policy_version: from the policy the call was given. *)
PriorVersion(c) == IF reading[c] = None THEN 0 ELSE reading[c].version

Record(c) ==
  /\ prior' = [prior EXCEPT ![c] = PriorVersion(c)]
  /\ IF written
       THEN stage' = [stage EXCEPT ![c] = "auditing"] /\ UNCHANGED reply
       ELSE Decline(c, "allow")

(* A rejection of forward is not caught: the caller's promise rejects. *)
Throw(c) == Decline(c, "threw") /\ UNCHANGED prior

ReturnForward(c) ==
  /\ stage[c] = "forwarding"
  /\ \/ stored /\ pc[c] = "returned" /\ Record(c)
     \/ stored /\ pc[c] = "threw" /\ Throw(c)
     \/ ~stored /\ (Record(c) \/ Throw(c))
  /\ UNCHANGED <<contract, proposal, reading, verdict, tx, landed, audit, storeVars>>

(* Mutant: an event that cannot be written is awaited for ever. *)
FinishAuditOnlyWritten(c) ==
  /\ stage[c] = "auditing" /\ audit[c] = "none"
  /\ \E end \in {"written", "lost"} : audit' = [audit EXCEPT ![c] = end]
  /\ IF audit'[c] = "written" THEN Decline(c, "allow") ELSE UNCHANGED <<stage, reply>>
  /\ UNCHANGED <<contract, proposal, reading, verdict, tx, landed, prior, storeVars>>

(* The auditWriter is done; if it failed nobody learns. *)
FinishAudit(c) ==
  /\ stage[c] = "auditing"
  /\ \E end \in {"written", "lost"} : audit' = [audit EXCEPT ![c] = end]
  /\ Decline(c, "allow")
  /\ UNCHANGED <<contract, proposal, reading, verdict, tx, landed, prior, storeVars>>

-----------------------------------------------------------------------------
Review(c) == ReviewBlocks(c) \/ ReviewPasses(c)

Next ==
  \/ \E c \in Calls :
       \/ ReadPolicy(c)
       \/ \E p \in Proposals : Cover(c, p)
       \/ Review(c)
       \/ StartForward(c)
       \/ SettleForward(c)
       \/ StoreResumes(c)
       \/ TransactionLands(c)
       \/ ReturnForward(c)
       \/ FinishAudit(c)
  \/ OwnerActs

Spec == Init /\ [][Next]_vars

(***************************************************************************)
(* Reactions of promises run, the review ends within its timeout and the    *)
(* auditWriter settles.  Nothing here bounds a forward: coverPolicyUpdate   *)
(* awaits it without a timer, so SettleForward has no fairness, and neither *)
(* has ReturnForward without a store, where it is the settling.             *)
(***************************************************************************)
Fairness ==
  \A c \in Calls :
    /\ WF_vars(Review(c))
    /\ WF_vars(StartForward(c))
    /\ WF_vars(StoreResumes(c))
    /\ WF_vars(stored /\ ReturnForward(c))
    /\ WF_vars(FinishAudit(c))

FairSpec == Spec /\ Fairness

-----------------------------------------------------------------------------
(* Properties. *)

(* Every variable keeps its shape. *)
TypeOK ==
  /\ stored \in BOOLEAN /\ written \in BOOLEAN
  /\ owner \in Accounts \cup {None}
  /\ version \in 0 .. MaxVersion
  /\ owner = None <=> version = 0
  /\ stage \in [Calls -> {"idle", "informed", "review", "forwarding", "auditing", "done"}]
  /\ proposal \in [Calls -> Proposals \cup {None}]
  /\ reading \in [Calls -> Reading \cup {None}]
  /\ verdict \in [Calls -> {"none", "safe", "vetoed"}]
  /\ tx \in [Calls -> {"none", "sent", "landed", "reverted", "stray"}]
  /\ landed \in [Calls -> 0 .. MaxVersion]
  /\ prior \in [Calls -> 0 .. MaxVersion]
  /\ audit \in [Calls -> {"none", "written", "lost"}]
  /\ reply \in [Calls -> {"none", "block", "skipped", "allow", "threw"}]
  /\ Store!TypeOK

(* A transaction leaves only for a call that passed every gate itself:      *)
(* authorized by the policy it was given, consented to, simulated, found    *)
(* safe.  That another call with the same intent passed is not enough.      *)
NothingUnguarded ==
  \A c \in Calls : tx[c] # "none" =>
    /\ Authorized(proposal[c], reading[c])
    /\ proposal[c].consent
    /\ proposal[c].simulation = "success"
    /\ proposal[c].callable
    /\ verdict[c] = "safe"

SameIntent(p, q) == p.kind = q.kind /\ p.requester = q.requester /\ p.update = q.update

(* With a store, of all calls that want the same update of the same         *)
(* requester at most one sends a transaction, whatever policies they were   *)
(* given and in whatever order they run.                                    *)
OneTransactionPerIntent ==
  stored => \A c, d \in Calls :
    tx[c] # "none" /\ tx[d] # "none" /\ SameIntent(proposal[c], proposal[d]) => c = d

(* An answer "allow", and the audit event that says the update succeeded,   *)
(* rest on a transaction for exactly this update: the call's own or that of *)
(* an earlier call with the same intent.                                    *)
AllowedWasForwarded ==
  \A c \in Calls :
    reply[c] = "allow" \/ audit[c] # "none" =>
      \E d \in Calls :
        /\ tx[d] # "none"
        /\ SameIntent(proposal[c], proposal[d])
        /\ ~stored => d = c

(* The "before" version of a record is one the contract had before the      *)
(* call's own transaction landed, however late the record is written.       *)
RecordedPriorIsPast ==
  \A c \in Calls :
    landed[c] # 0 /\ reply[c] = "allow" => prior[c] < landed[c]

(* The promise the call waits for, if it waits for one. *)
ForwardIsOpen(c) ==
  /\ stage[c] = "forwarding"
  /\ stored => \E d \in Calls : key[d] = key[c] /\ promise[d] = "running"

(* Nothing but a forward that never settles holds a call back, its own or   *)
(* the one it joined; once that settles, everybody who waits is answered.   *)
OnlyAnOpenForwardHoldsACall ==
  \A c \in Calls :
    (stage[c] \in {"review", "forwarding", "auditing"} /\ ~ForwardIsOpen(c))
      ~> (stage[c] = "done" \/ ForwardIsOpen(c))

=============================================================================
