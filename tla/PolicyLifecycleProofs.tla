----------------------- MODULE PolicyLifecycleProofs -----------------------
(***************************************************************************)
(* What holds of coverPolicyUpdate for any number of calls, accounts,       *)
(* updates and versions.                                                    *)
(*                                                                          *)
(* The lifecycle drives its idempotency store by actions of the store only  *)
(* (StoreDriven), so the store's own invariant holds here, proved in        *)
(* IdempotencyStoreProofs for every set of keys.  LifeInv ties a call's     *)
(* gates, its key, its promise and its transaction together; with the       *)
(* store's invariant it is inductive.                                       *)
(***************************************************************************)
EXTENDS PolicyLifecycle, TLAPS

StoreFacts == INSTANCE IdempotencyStoreProofs WITH
                Keys     <- Intents,
                Results  <- {"ok"},
                Failures <- {"failed"},
                KeyError <- "malformed key"

-----------------------------------------------------------------------------
(* The lifecycle and its store. *)

(* A call under review has passed the synchronous gates.                    *)
GateInv ==
  /\ DOMAIN stage = Calls /\ DOMAIN proposal = Calls /\ DOMAIN reading = Calls
  /\ \A c \in Calls : stage[c] = "review" =>
       proposal[c] \in Proposals /\ Admissible(proposal[c], reading[c])

(* An admissible proposal has an intent.                                    *)
LEMMA AdmissibleHasIntent ==
  ASSUME NEW c \in Calls, proposal[c] \in Proposals, Admissible(proposal[c], reading[c])
  PROVE  IntentOf(c) \in Intents
BY LifecycleConstants DEF Admissible, Authorized, IntentOf, Intents, Proposal

(* The gates are passed before the review, and nothing changes them then.   *)
THEOREM GateInvariance == Spec => []GateInv
PROOF
  <1>1. Init => GateInv
    BY DEF Init, GateInv
  <1>2. GateInv /\ [Next]_vars => GateInv'
    <2> SUFFICES ASSUME GateInv, [Next]_vars PROVE GateInv'
      OBVIOUS
    <2> USE DEF GateInv
    <2>1. ASSUME NEW c \in Calls, ReadPolicy(c) PROVE GateInv'
      BY <2>1 DEF ReadPolicy
    <2>2. ASSUME NEW c \in Calls, NEW p \in Proposals, Cover(c, p) PROVE GateInv'
      <3>1. /\ proposal' = [proposal EXCEPT ![c] = p] /\ reading' = reading
            /\ DOMAIN stage' = Calls
            /\ \A d \in Calls : d # c => stage'[d] = stage[d]
            /\ stage'[c] = "review" => Admissible(p, reading[c])
        BY <2>2 DEF Cover, Decline
      <3> QED
        BY <3>1
    <2>3. ASSUME NEW c \in Calls, Review(c) PROVE GateInv'
      BY <2>3 DEF Review, ReviewBlocks, ReviewPasses, Decline
    <2>4. ASSUME NEW c \in Calls, StartForward(c) \/ SettleForward(c) \/ StoreResumes(c)
                                  \/ TransactionLands(c)
          PROVE  GateInv'
      BY <2>4 DEF StartForward, SettleForward, StoreResumes, TransactionLands
    <2>5. ASSUME NEW c \in Calls, ReturnForward(c) \/ FinishAudit(c) PROVE GateInv'
      <3>1. /\ proposal' = proposal /\ reading' = reading
            /\ \E s \in {"auditing", "done"} : stage' = [stage EXCEPT ![c] = s]
        BY <2>5 DEF ReturnForward, FinishAudit, Record, Throw, Decline
      <3> QED
        BY <3>1
    <2>6. CASE OwnerActs
      BY <2>6 DEF OwnerActs
    <2>7. CASE UNCHANGED vars
      BY <2>7 DEF vars
    <2> QED
      BY <2>1, <2>2, <2>3, <2>4, <2>5, <2>6, <2>7 DEF Next
  <1> QED
    BY <1>1, <1>2, PTL DEF Spec

(* Every step is a step of the store or leaves the store alone.             *)
LEMMA StoreStep == GateInv /\ [Next]_vars => [Store!Next]_(Store!vars)
PROOF
  <1> SUFFICES ASSUME GateInv, [Next]_vars PROVE [Store!Next]_(Store!vars)
    OBVIOUS
  <1>1. ASSUME NEW c \in Calls, ReviewPasses(c) PROVE [Store!Next]_(Store!vars)
    <2>1. IntentOf(c) \in Intents
      BY <1>1, AdmissibleHasIntent DEF GateInv, ReviewPasses
    <2>2. CASE stored
      <3>1. Store!RunOnce(c, IntentOf(c))
        BY <1>1, <2>2 DEF ReviewPasses
      <3> QED
        BY <2>1, <3>1 DEF Store!Next
    <2>3. CASE ~ stored
      BY <1>1, <2>3 DEF ReviewPasses, storeVars, Store!vars
    <2> QED
      BY <2>2, <2>3
  <1>2. ASSUME NEW c \in Calls, StartForward(c) PROVE [Store!Next]_(Store!vars)
    BY <1>2 DEF StartForward, Store!Next
  <1>3. ASSUME NEW c \in Calls, SettleForward(c) PROVE [Store!Next]_(Store!vars)
    BY <1>3 DEF SettleForward, Store!Next
  <1>4. ASSUME NEW c \in Calls, StoreResumes(c) PROVE [Store!Next]_(Store!vars)
    BY <1>4 DEF StoreResumes, Store!Next
  <1>5. ASSUME NEW c \in Calls,
               \/ ReadPolicy(c) \/ ReviewBlocks(c) \/ TransactionLands(c)
               \/ ReturnForward(c) \/ FinishAudit(c) \/ \E p \in Proposals : Cover(c, p)
        PROVE  UNCHANGED storeVars
    BY <1>5 DEF ReadPolicy, ReviewBlocks, TransactionLands, ReturnForward, FinishAudit, Cover
  <1>6. OwnerActs \/ UNCHANGED vars => UNCHANGED storeVars
    BY DEF OwnerActs, vars, storeVars
  <1>7. UNCHANGED storeVars => UNCHANGED Store!vars
    BY DEF storeVars, Store!vars
  <1> QED
    BY <1>1, <1>2, <1>3, <1>4, <1>5, <1>6, <1>7 DEF Next, Review

(* The lifecycle uses its store as the specification of the store allows.   *)
THEOREM StoreDriven == Spec => Store!Spec
PROOF
  <1>1. Init => Store!Init
    BY DEF Init
  <1> QED
    BY <1>1, StoreStep, GateInvariance, PTL DEF Spec, Store!Spec

(* What the store's own proofs assume of its constants.                     *)
LEMMA StoreConstants ==
  /\ None \notin Calls \cup Intents \cup {"ok"} \cup {"failed"} \cup {"malformed key"}
  /\ {"ok"} \cap {"failed"} = {}
  /\ "malformed key" \notin {"ok"} \cup {"failed"}
BY LifecycleConstants, NoneIsNoIntent

(* The store of the proofs is the store of the model.                       *)
LEMMA SameStore == Store!Spec => StoreFacts!Spec
PROOF
  <1>1. Store!Init => StoreFacts!Init
    BY DEF Store!Init, StoreFacts!Init, Store!Absent, StoreFacts!Absent
  <1>2. [Store!Next]_(Store!vars) => [StoreFacts!Next]_(StoreFacts!vars)
    BY DEF Store!vars, StoreFacts!vars, Store!Next, StoreFacts!Next,
           Store!RunOnceMalformed, StoreFacts!RunOnceMalformed,
           Store!RunOnce, StoreFacts!RunOnce, Store!RunOnceFresh, StoreFacts!RunOnceFresh,
           Store!RunOnceJoin, StoreFacts!RunOnceJoin,
           Store!RunOnceSettled, StoreFacts!RunOnceSettled,
           Store!StartForward, StoreFacts!StartForward,
           Store!SettleForward, StoreFacts!SettleForward,
           Store!OwnerResumes, StoreFacts!OwnerResumes,
           Store!JoinerResumes, StoreFacts!JoinerResumes,
           Store!Finish, StoreFacts!Finish, Store!Pending, StoreFacts!Pending,
           Store!Committed, StoreFacts!Committed, Store!Outcomes, StoreFacts!Outcomes
  <1> QED
    BY <1>1, <1>2, PTL DEF Store!Spec, StoreFacts!Spec

(* The invariant of the store holds of the store of the lifecycle.          *)
THEOREM StoreInvariantHolds == Spec => []StoreFacts!StoreInv
PROOF
  <1>1. StoreFacts!Spec => []StoreFacts!StoreInv
    BY StoreConstants, StoreFacts!StoreInvariance
  <1> QED
    BY StoreDriven, SameStore, <1>1, PTL

(* Whatever the handlers do with it, the store runs an intent at most once, *)
(* and answers for it only with the outcome of that run.                    *)
THEOREM StoreKeepsItsPromise == Spec => StoreFacts!ImplementsAtMostOnce
PROOF
  <1>1. StoreFacts!Spec => StoreFacts!ImplementsAtMostOnce
    BY StoreConstants, StoreFacts!Refinement
  <1> QED
    BY StoreDriven, SameStore, <1>1, PTL

-----------------------------------------------------------------------------
(* The inductive invariant. *)

(* The types of the lifecycle's own variables.                              *)
OwnTypes ==
  /\ stored \in BOOLEAN /\ written \in BOOLEAN
  /\ owner \in Accounts \cup {None}
  /\ version \in 0 .. MaxVersion
  /\ owner = None <=> version = 0
  /\ stage \in [Calls -> {"idle", "informed", "review", "forwarding", "auditing", "done"}]
  /\ proposal \in [Calls -> Proposals \cup {None}]
  /\ reading \in [Calls -> Reading \cup {None}]
  /\ verdict \in [Calls -> {"none", "safe", "vetoed"}]
  /\ tx \in [Calls -> {"none", "sent", "landed", "reverted", "stray"}]
  /\ landed \in [Calls -> 0 .. MaxVersion]
  /\ prior \in [Calls -> 0 .. MaxVersion]
  /\ audit \in [Calls -> {"none", "written", "lost"}]
  /\ reply \in [Calls -> {"none", "block", "skipped", "allow", "threw"}]

(* A call passed every gate.                                                *)
Passed(c) ==
  /\ proposal[c] \in Proposals
  /\ Admissible(proposal[c], reading[c])
  /\ proposal[c].callable
  /\ verdict[c] = "safe"

(* A call that has got this far: it waits for a forward or has been through *)
(* one, or left a trace in the store or on chain.                           *)
Underway(c) ==
  stage[c] \in {"forwarding", "auditing"} \/ pc[c] # "idle" \/ tx[c] # "none"

(* A call that has been told, or is about to be, that its update succeeded. *)
Succeeded(c) == stage[c] = "auditing" \/ audit[c] # "none" \/ reply[c] = "allow"

(* Before the forward a call has left no trace.                             *)
UntracedInv(c) ==
  stage[c] \in {"idle", "informed", "review"} =>
    ~ Succeeded(c) /\ pc[c] = "idle" /\ tx[c] = "none"

PassedInv(c) == Underway(c) => Passed(c)

(* The store knows the call under its intent; its promise is its forward.   *)
KeyedInv(c) ==
  /\ pc[c] # "idle" => stored /\ key[c] = IntentOf(c)
  /\ stored => (tx[c] # "none" <=> promise[c] \in {"running", "settled"})

SucceededInv(c) ==
  Succeeded(c) => IF stored THEN pc[c] = "returned" ELSE tx[c] # "none"

DirectInv(c) == ~ stored /\ stage[c] = "forwarding" => tx[c] # "none"

(* What a call has read is older than what it makes.                        *)
VersionInv(c) ==
  /\ tx[c] = "none" => landed[c] = 0
  /\ reading[c] # None => reading[c].version <= version
  /\ reading[c] # None /\ landed[c] # 0 => reading[c].version < landed[c]
  /\ prior[c] \in {0, PriorVersion(c)}

(* No record before the forward.                                            *)
UnrecordedInv(c) ==
  stage[c] \in {"idle", "informed", "review"} => prior[c] = 0

CallInv(c) ==
  /\ UntracedInv(c) /\ PassedInv(c) /\ KeyedInv(c) /\ SucceededInv(c)
  /\ DirectInv(c) /\ VersionInv(c) /\ UnrecordedInv(c)

LifeInv == OwnTypes /\ \A c \in Calls : CallInv(c)

(* What the store's invariant says of a call, in the lifecycle's terms.     *)
LEMMA StoreViews ==
  ASSUME StoreFacts!StoreInv
  PROVE  /\ DOMAIN pc = Calls /\ DOMAIN promise = Calls /\ DOMAIN key = Calls
         /\ \A c \in Calls : promise[c] # "none" => pc[c] # "idle"
         /\ \A c \in Calls : promise[c] \in {"none", "queued", "running", "settled"}
PROOF
  <1>1. StoreFacts!TypeOK /\ StoreFacts!PromiseInv
    BY DEF StoreFacts!StoreInv
  <1>2. /\ DOMAIN pc = Calls /\ DOMAIN promise = Calls /\ DOMAIN key = Calls
        /\ \A c \in Calls : promise[c] \in {"none", "queued", "running", "settled"}
    BY <1>1 DEF StoreFacts!TypeOK
  <1>3. \A c \in Calls : promise[c] # "none" => pc[c] # "idle"
    BY <1>1 DEF StoreFacts!PromiseInv, StoreFacts!Finished
  <1> QED
    BY <1>2, <1>3

(* The bound leaves room for a version, and nobody is None.                 *)
LEMMA Bounds == MaxVersion \in Nat /\ MaxVersion >= 1 /\ None \notin Accounts
PROOF
  <1>1. MaxVersion \in Nat \ {0} /\ None \notin Accounts
    BY LifecycleConstants
  <1> QED
    BY <1>1

(* The invariant holds initially.                                           *)
LEMMA LifeInit == Init => LifeInv
PROOF
  <1> SUFFICES ASSUME Init PROVE LifeInv
    OBVIOUS
  <1>1. OwnTypes
    <2>1. stored \in BOOLEAN /\ written \in BOOLEAN
      BY LifecycleConstants DEF Init
    <2>2. /\ owner \in Accounts \cup {None} /\ version \in 0 .. MaxVersion
          /\ owner = None <=> version = 0
      BY Bounds DEF Init
    <2>3. 0 \in 0 .. MaxVersion
      BY Bounds
    <2> QED
      BY <2>1, <2>2, <2>3 DEF Init, OwnTypes
  <1>2. ASSUME NEW c \in Calls PROVE CallInv(c)
    <2>1. /\ stage[c] = "idle" /\ reading[c] = None /\ tx[c] = "none" /\ landed[c] = 0
          /\ prior[c] = 0 /\ audit[c] = "none" /\ reply[c] = "none"
      BY DEF Init
    <2>2. pc[c] = "idle" /\ promise[c] = "none"
      BY DEF Init, Store!Init
    <2> QED
      BY <2>1, <2>2 DEF CallInv, UntracedInv, PassedInv, KeyedInv, SucceededInv, DirectInv,
         VersionInv, UnrecordedInv, Underway, Succeeded
  <1> QED
    BY <1>1, <1>2 DEF LifeInv

(***************************************************************************)
(* A step leaves the other calls alone: if everything LifeInv says of call  *)
(* d is as it was and no version is taken back, CallInv(d) is as it was.    *)
(***************************************************************************)
Untouched(d) ==
  /\ stage'[d] = stage[d] /\ proposal'[d] = proposal[d] /\ reading'[d] = reading[d]
  /\ verdict'[d] = verdict[d] /\ tx'[d] = tx[d] /\ landed'[d] = landed[d]
  /\ prior'[d] = prior[d] /\ audit'[d] = audit[d] /\ reply'[d] = reply[d]
  /\ pc'[d] = pc[d] /\ key'[d] = key[d] /\ promise'[d] = promise[d]

LEMMA UntouchedPreserves ==
  ASSUME OwnTypes, NEW d \in Calls, CallInv(d), Untouched(d),
         stored' = stored, version' \in Nat, version <= version'
  PROVE  CallInv(d)'
PROOF
  <1>1. UntracedInv(d)' /\ SucceededInv(d)' /\ DirectInv(d)' /\ UnrecordedInv(d)'
    BY DEF CallInv, UnrecordedInv, UntracedInv, SucceededInv, DirectInv, Succeeded, Untouched
  <1>2. PassedInv(d)'
    BY DEF CallInv, PassedInv, Passed, Underway, Untouched
  <1>3. KeyedInv(d)'
    BY DEF CallInv, KeyedInv, IntentOf, Untouched
  <1>4. VersionInv(d)'
    <2>1. reading[d] # None => reading[d].version \in Nat
      BY DEF OwnTypes, Reading
    <2>2. PriorVersion(d)' = PriorVersion(d)
      BY DEF PriorVersion, Untouched
    <2>3. version \in Nat /\ landed'[d] = landed[d] /\ tx'[d] = tx[d]
          /\ reading'[d] = reading[d] /\ prior'[d] = prior[d]
      BY Bounds DEF OwnTypes, Untouched
    <2>4. VersionInv(d)
      BY DEF CallInv
    <2>5. reading[d] # None => reading[d].version <= version'
      <3>1. reading[d] # None => reading[d].version <= version
        BY <2>4 DEF VersionInv
      <3> QED
        BY <2>1, <2>3, <3>1
    <2>6. prior'[d] \in {0, PriorVersion(d)'}
      BY <2>2, <2>3, <2>4 DEF VersionInv
    <2> QED
      BY <2>3, <2>4, <2>5, <2>6 DEF VersionInv
  <1> QED
    BY <1>1, <1>2, <1>3, <1>4 DEF CallInv

-----------------------------------------------------------------------------
(* The steps. *)

(* A step of one call that leaves store, contract and all other calls       *)
(* alone preserves the invariant if it preserves it for that call.          *)
LEMMA OneCall ==
  ASSUME LifeInv, NEW c \in Calls, OwnTypes', stored' = stored, version <= version',
         \A d \in Calls : d # c => Untouched(d),
         CallInv(c)'
  PROVE  LifeInv'
PROOF
  <1>1. version' \in Nat
    BY Bounds DEF OwnTypes
  <1>2. ASSUME NEW d \in Calls, d # c PROVE CallInv(d)'
    BY <1>1, <1>2, UntouchedPreserves DEF LifeInv
  <1> QED
    BY <1>2 DEF LifeInv

(* Reading the policy: what is read is of now.                              *)
LEMMA ReadPolicyPreserves ==
  ASSUME LifeInv, StoreFacts!StoreInv, NEW c \in Calls, ReadPolicy(c)
  PROVE  LifeInv'
PROOF
  <1>1. /\ stored' = stored /\ written' = written /\ owner' = owner /\ version' = version
        /\ stage' = [stage EXCEPT ![c] = "informed"]
        /\ proposal' = proposal /\ verdict' = verdict /\ tx' = tx /\ landed' = landed
        /\ prior' = prior /\ audit' = audit /\ reply' = reply
        /\ pc' = pc /\ key' = key /\ promise' = promise
        /\ stage[c] = "idle"
    BY DEF ReadPolicy, contract, storeVars
  <1>2. \/ reading' = reading
        \/ /\ version # 0
           /\ reading' = [reading EXCEPT ![c] = [version |-> version, owner |-> owner]]
    BY DEF ReadPolicy
  <1>3. OwnTypes /\ CallInv(c)
    BY DEF LifeInv
  <1>4. version # 0 => [version |-> version, owner |-> owner] \in Reading
    BY <1>3, Bounds DEF OwnTypes, Reading
  <1>5. OwnTypes'
    <2>1. reading' \in [Calls -> Reading \cup {None}]
      BY <1>2, <1>3, <1>4 DEF OwnTypes
    <2> QED
      BY <1>1, <1>3, <2>1 DEF OwnTypes
  <1>6. \A d \in Calls : d # c => Untouched(d)
    BY <1>1, <1>2, <1>3 DEF Untouched, OwnTypes
  <1>7. stage'[c] = "informed" /\ tx[c] = "none" /\ pc[c] = "idle" /\ landed[c] = 0
        /\ audit[c] = "none" /\ reply[c] # "allow"
    BY <1>1, <1>3 DEF OwnTypes, CallInv, UntracedInv, Succeeded, VersionInv
  <1>8. prior[c] = 0
    \* nothing is recorded before the forward
    BY <1>1, <1>3 DEF CallInv, UnrecordedInv
  <1>9. UntracedInv(c)' /\ PassedInv(c)' /\ SucceededInv(c)' /\ DirectInv(c)'
        /\ UnrecordedInv(c)'
    BY <1>1, <1>7, <1>8 DEF UnrecordedInv, UntracedInv, PassedInv, SucceededInv, DirectInv, Succeeded, Underway
  <1>10. KeyedInv(c)'
    BY <1>1, <1>3, <1>7 DEF CallInv, KeyedInv
  <1>11. VersionInv(c)'
    <2>1. reading'[c] # None => reading'[c].version <= version'
      BY <1>1, <1>2, <1>3, Bounds DEF OwnTypes, CallInv, VersionInv
    <2> QED
      BY <1>1, <1>7, <1>8, <2>1 DEF VersionInv
  <1> QED
    BY <1>1, <1>3, <1>5, <1>6, <1>9, <1>10, <1>11, Bounds, OneCall DEF CallInv, OwnTypes

(* The gates: a call under review has passed them, another is done.         *)
LEMMA CoverPreserves ==
  ASSUME LifeInv, StoreFacts!StoreInv, NEW c \in Calls, NEW p \in Proposals, Cover(c, p)
  PROVE  LifeInv'
PROOF
  <1>1. /\ stored' = stored /\ written' = written /\ owner' = owner /\ version' = version
        /\ proposal' = [proposal EXCEPT ![c] = p]
        /\ reading' = reading /\ verdict' = verdict /\ tx' = tx /\ landed' = landed
        /\ prior' = prior /\ audit' = audit
        /\ pc' = pc /\ key' = key /\ promise' = promise
        /\ stage[c] = "informed"
    BY DEF Cover, contract, storeVars
  <1>2. \/ stage' = [stage EXCEPT ![c] = "review"] /\ reply' = reply
           /\ Admissible(p, reading[c])
        \/ stage' = [stage EXCEPT ![c] = "done"]
           /\ \E word \in {"skipped", "block"} : reply' = [reply EXCEPT ![c] = word]
    BY DEF Cover, Decline
  <1>3. OwnTypes /\ CallInv(c)
    BY DEF LifeInv
  <1>4. OwnTypes'
    BY <1>1, <1>2, <1>3 DEF OwnTypes
  <1>5. \A d \in Calls : d # c => Untouched(d)
    BY <1>1, <1>2, <1>3 DEF Untouched, OwnTypes
  <1>6. tx[c] = "none" /\ pc[c] = "idle" /\ landed[c] = 0 /\ audit[c] = "none" /\ prior[c] = 0
        /\ reply[c] # "allow"
    BY <1>1, <1>3 DEF CallInv, UntracedInv, Succeeded, VersionInv, UnrecordedInv
  <1>7. stage'[c] \in {"review", "done"} /\ reply'[c] # "allow"
    BY <1>2, <1>3, <1>6 DEF OwnTypes
  <1>8. UntracedInv(c)' /\ PassedInv(c)' /\ SucceededInv(c)' /\ DirectInv(c)'
        /\ UnrecordedInv(c)'
    BY <1>1, <1>6, <1>7 DEF UntracedInv, PassedInv, SucceededInv, DirectInv, UnrecordedInv,
       Succeeded, Underway
  <1>9. KeyedInv(c)'
    BY <1>1, <1>3, <1>6 DEF CallInv, KeyedInv
  <1>10. VersionInv(c)'
    BY <1>1, <1>3, <1>6 DEF CallInv, VersionInv
  <1> QED
    BY <1>1, <1>3, <1>4, <1>5, <1>8, <1>9, <1>10, Bounds, OneCall DEF CallInv, OwnTypes

(* A review that ends the call.                                             *)
LEMMA ReviewBlocksPreserves ==
  ASSUME LifeInv, StoreFacts!StoreInv, NEW c \in Calls, ReviewBlocks(c)
  PROVE  LifeInv'
PROOF
  <1>1. /\ stored' = stored /\ written' = written /\ owner' = owner /\ version' = version
        /\ proposal' = proposal /\ reading' = reading /\ tx' = tx /\ landed' = landed
        /\ prior' = prior /\ audit' = audit
        /\ pc' = pc /\ key' = key /\ promise' = promise
        /\ stage[c] = "review"
        /\ stage' = [stage EXCEPT ![c] = "done"] /\ reply' = [reply EXCEPT ![c] = "block"]
    BY DEF ReviewBlocks, Decline, contract, storeVars
  <1>2. \E v \in {"vetoed", "safe"} : verdict' = [verdict EXCEPT ![c] = v]
    BY DEF ReviewBlocks
  <1>3. OwnTypes /\ CallInv(c)
    BY DEF LifeInv
  <1>4. OwnTypes'
    BY <1>1, <1>2, <1>3 DEF OwnTypes
  <1>5. \A d \in Calls : d # c => Untouched(d)
    BY <1>1, <1>2, <1>3 DEF Untouched, OwnTypes
  <1>6. tx[c] = "none" /\ pc[c] = "idle" /\ landed[c] = 0 /\ audit[c] = "none" /\ prior[c] = 0
    BY <1>1, <1>3 DEF CallInv, UntracedInv, Succeeded, VersionInv, UnrecordedInv
  <1>7. stage'[c] = "done" /\ reply'[c] = "block"
    BY <1>1, <1>3 DEF OwnTypes
  <1>8. UntracedInv(c)' /\ PassedInv(c)' /\ SucceededInv(c)' /\ DirectInv(c)'
        /\ UnrecordedInv(c)'
    BY <1>1, <1>6, <1>7 DEF UntracedInv, PassedInv, SucceededInv, DirectInv, UnrecordedInv,
       Succeeded, Underway
  <1>9. KeyedInv(c)'
    BY <1>1, <1>3, <1>6 DEF CallInv, KeyedInv
  <1>10. VersionInv(c)'
    BY <1>1, <1>3, <1>6 DEF CallInv, VersionInv, PriorVersion
  <1> QED
    BY <1>1, <1>3, <1>4, <1>5, <1>8, <1>9, <1>10, Bounds, OneCall DEF CallInv, OwnTypes

(* What runOnce does to the store, call by call.                            *)
LEMMA RunOnceEffect ==
  ASSUME StoreFacts!StoreInv, NEW c \in Calls, NEW k, Store!RunOnce(c, k)
  PROVE  /\ pc[c] = "idle" /\ pc'[c] # "idle" /\ key'[c] = k
         /\ promise'[c] \in {"queued", promise[c]}
         /\ \A d \in Calls : d # c => pc'[d] = pc[d] /\ key'[d] = key[d]
                                   /\ promise'[d] = promise[d]
PROOF
  <1>1. DOMAIN pc = Calls /\ DOMAIN promise = Calls /\ DOMAIN key = Calls
    BY StoreViews
  <1>2. CASE Store!RunOnceFresh(c, k)
    BY <1>1, <1>2 DEF Store!RunOnceFresh
  <1>3. CASE Store!RunOnceJoin(c, k)
    BY <1>1, <1>3 DEF Store!RunOnceJoin
  <1>4. CASE Store!RunOnceSettled(c, k)
    BY <1>1, <1>4 DEF Store!RunOnceSettled, Store!Finish
  <1> QED
    BY <1>2, <1>3, <1>4 DEF Store!RunOnce

(* A review that lets the update through, to the store or directly.         *)
LEMMA ReviewPassesPreserves ==
  ASSUME LifeInv, GateInv, StoreFacts!StoreInv, NEW c \in Calls, ReviewPasses(c)
  PROVE  LifeInv'
PROOF
  <1>1. /\ stored' = stored /\ written' = written /\ owner' = owner /\ version' = version
        /\ proposal' = proposal /\ reading' = reading /\ landed' = landed
        /\ prior' = prior /\ audit' = audit /\ reply' = reply
        /\ stage[c] = "review" /\ proposal[c].callable
        /\ stage' = [stage EXCEPT ![c] = "forwarding"]
        /\ verdict' = [verdict EXCEPT ![c] = "safe"]
    BY DEF ReviewPasses, contract
  <1>2. OwnTypes /\ CallInv(c)
    BY DEF LifeInv
  <1>3. /\ tx[c] = "none" /\ pc[c] = "idle" /\ landed[c] = 0 /\ audit[c] = "none"
        /\ prior[c] = 0 /\ reply[c] # "allow" /\ promise[c] = "none"
    BY <1>1, <1>2, StoreViews
       DEF CallInv, UntracedInv, Succeeded, VersionInv, UnrecordedInv
  <1>4. /\ tx' \in [Calls -> {"none", "sent", "landed", "reverted", "stray"}]
        /\ \A d \in Calls : d # c => tx'[d] = tx[d] /\ pc'[d] = pc[d] /\ key'[d] = key[d]
                                  /\ promise'[d] = promise[d]
    <2>1. CASE stored
      BY <1>2, <2>1, RunOnceEffect DEF ReviewPasses, OwnTypes
    <2>2. CASE ~ stored
      BY <1>2, <2>2 DEF ReviewPasses, storeVars, OwnTypes
    <2> QED
      BY <2>1, <2>2
  <1>5. IF stored
          THEN /\ tx'[c] = "none" /\ pc'[c] # "idle" /\ key'[c] = IntentOf(c)
               /\ promise'[c] \in {"queued", "none"}
          ELSE tx'[c] = "sent" /\ pc'[c] = "idle"
    <2>1. CASE stored
      BY <1>3, <2>1, RunOnceEffect DEF ReviewPasses
    <2>2. CASE ~ stored
      BY <1>2, <1>3, <2>2 DEF ReviewPasses, storeVars, OwnTypes
    <2> QED
      BY <2>1, <2>2
  <1>6. OwnTypes'
    BY <1>1, <1>2, <1>4 DEF OwnTypes
  <1>7. \A d \in Calls : d # c => Untouched(d)
    BY <1>1, <1>2, <1>4 DEF Untouched, OwnTypes
  <1>8. stage'[c] = "forwarding" /\ verdict'[c] = "safe"
    BY <1>1, <1>2 DEF OwnTypes
  <1>9. PassedInv(c)'
    <2>1. proposal[c] \in Proposals /\ Admissible(proposal[c], reading[c])
      BY <1>1 DEF GateInv
    <2> QED
      BY <1>1, <1>8, <2>1 DEF PassedInv, Passed
  <1>10. UntracedInv(c)' /\ SucceededInv(c)' /\ UnrecordedInv(c)'
    BY <1>1, <1>3, <1>8 DEF UntracedInv, SucceededInv, UnrecordedInv, Succeeded
  <1>11. DirectInv(c)'
    BY <1>1, <1>5 DEF DirectInv
  <1>12. KeyedInv(c)'
    BY <1>1, <1>5 DEF KeyedInv, IntentOf
  <1>13. VersionInv(c)'
    BY <1>1, <1>2, <1>3 DEF CallInv, VersionInv, PriorVersion
  <1> QED
    BY <1>1, <1>2, <1>6, <1>7, <1>9, <1>10, <1>11, <1>12, <1>13, Bounds, OneCall
       DEF CallInv, OwnTypes

(* The forward of a call is its transaction: it leaves when the promise     *)
(* runs.                                                                    *)
LEMMA StartForwardPreserves ==
  ASSUME LifeInv, StoreFacts!StoreInv, NEW c \in Calls, StartForward(c)
  PROVE  LifeInv'
PROOF
  <1>1. /\ stored' = stored /\ written' = written /\ owner' = owner /\ version' = version
        /\ stage' = stage /\ proposal' = proposal /\ reading' = reading /\ verdict' = verdict
        /\ landed' = landed /\ prior' = prior /\ audit' = audit /\ reply' = reply
        /\ tx' = [tx EXCEPT ![c] = "sent"]
    BY DEF StartForward, contract
  <1>2. /\ promise[c] = "queued" /\ promise' = [promise EXCEPT ![c] = "running"]
        /\ pc' = pc /\ key' = key
    BY DEF StartForward, Store!StartForward
  <1>3. OwnTypes /\ CallInv(c)
    BY DEF LifeInv
  <1>4. tx'[c] = "sent" /\ promise'[c] = "running" /\ pc[c] # "idle"
    BY <1>1, <1>2, <1>3, StoreViews DEF OwnTypes
  <1>5. OwnTypes'
    BY <1>1, <1>3 DEF OwnTypes
  <1>6. \A d \in Calls : d # c => Untouched(d)
    BY <1>1, <1>2, <1>3, StoreViews DEF Untouched, OwnTypes
  <1>7. PassedInv(c)'
    BY <1>1, <1>3, <1>4 DEF CallInv, PassedInv, Passed, Underway
  <1>8. UntracedInv(c)' /\ SucceededInv(c)' /\ DirectInv(c)' /\ UnrecordedInv(c)'
    BY <1>1, <1>2, <1>3, <1>4
       DEF CallInv, UntracedInv, SucceededInv, DirectInv, UnrecordedInv, Succeeded
  <1>9. KeyedInv(c)'
    BY <1>1, <1>2, <1>3, <1>4 DEF CallInv, KeyedInv, IntentOf
  <1>10. VersionInv(c)'
    BY <1>1, <1>3, <1>4 DEF CallInv, VersionInv, PriorVersion
  <1> QED
    BY <1>1, <1>3, <1>5, <1>6, <1>7, <1>8, <1>9, <1>10, Bounds, OneCall DEF CallInv, OwnTypes

(* The forward settles: nothing new has left.                               *)
LEMMA SettleForwardPreserves ==
  ASSUME LifeInv, StoreFacts!StoreInv, NEW c \in Calls, SettleForward(c)
  PROVE  LifeInv'
PROOF
  <1>1. /\ stored' = stored /\ written' = written /\ owner' = owner /\ version' = version
        /\ stage' = stage /\ proposal' = proposal /\ reading' = reading /\ verdict' = verdict
        /\ landed' = landed /\ prior' = prior /\ audit' = audit /\ reply' = reply /\ tx' = tx
    BY DEF SettleForward, contract
  <1>2. /\ promise[c] = "running" /\ promise' = [promise EXCEPT ![c] = "settled"]
        /\ pc' = pc /\ key' = key
    BY DEF SettleForward, Store!SettleForward
  <1>3. OwnTypes /\ CallInv(c)
    BY DEF LifeInv
  <1>4. promise'[c] = "settled"
    BY <1>2, StoreViews
  <1>5. OwnTypes'
    BY <1>1, <1>3 DEF OwnTypes
  <1>6. \A d \in Calls : d # c => Untouched(d)
    BY <1>1, <1>2, StoreViews DEF Untouched
  <1>7. PassedInv(c)'
    BY <1>1, <1>2, <1>3 DEF CallInv, PassedInv, Passed, Underway
  <1>8. UntracedInv(c)' /\ SucceededInv(c)' /\ DirectInv(c)' /\ UnrecordedInv(c)'
    BY <1>1, <1>2, <1>3
       DEF CallInv, UntracedInv, SucceededInv, DirectInv, UnrecordedInv, Succeeded
  <1>9. KeyedInv(c)'
    BY <1>1, <1>2, <1>3, <1>4 DEF CallInv, KeyedInv, IntentOf
  <1>10. VersionInv(c)'
    BY <1>1, <1>3 DEF CallInv, VersionInv, PriorVersion
  <1> QED
    BY <1>1, <1>3, <1>5, <1>6, <1>7, <1>8, <1>9, <1>10, Bounds, OneCall DEF CallInv, OwnTypes

(* What resuming does: somebody who waits in runOnce no longer does.        *)
LEMMA ResumesEffect ==
  ASSUME StoreFacts!StoreInv, NEW c \in Calls, Store!OwnerResumes(c) \/ Store!JoinerResumes(c)
  PROVE  /\ key' = key /\ promise' = promise
         /\ \A d \in Calls : \/ pc'[d] = pc[d]
                            \/ /\ pc[d] \in {"owner", "joiner"}
                               /\ pc'[d] \in {"returned", "threw"}
PROOF
  <1>1. DOMAIN pc = Calls
    BY StoreViews
  <1>2. CASE Store!OwnerResumes(c)
    BY <1>1, <1>2 DEF Store!OwnerResumes, Store!Finish
  <1>3. CASE Store!JoinerResumes(c)
    BY <1>1, <1>3 DEF Store!JoinerResumes, Store!Finish
  <1> QED
    BY <1>2, <1>3

(* A call is released from runOnce: owner or joiner, whoever's promise.     *)
LEMMA StoreResumesPreserves ==
  ASSUME LifeInv, StoreFacts!StoreInv, NEW c \in Calls, StoreResumes(c)
  PROVE  LifeInv'
PROOF
  <1>1. /\ stored' = stored /\ written' = written /\ owner' = owner /\ version' = version
        /\ stage' = stage /\ proposal' = proposal /\ reading' = reading /\ verdict' = verdict
        /\ landed' = landed /\ prior' = prior /\ audit' = audit /\ reply' = reply /\ tx' = tx
    BY DEF StoreResumes, contract
  <1>2. /\ key' = key /\ promise' = promise
        /\ \A d \in Calls : \/ pc'[d] = pc[d]
                           \/ /\ pc[d] \in {"owner", "joiner"}
                              /\ pc'[d] \in {"returned", "threw"}
    BY ResumesEffect DEF StoreResumes
  <1>3. OwnTypes
    BY DEF LifeInv
  <1>4. OwnTypes'
    BY <1>1, <1>3 DEF OwnTypes
  <1>5. ASSUME NEW d \in Calls PROVE CallInv(d)'
    <2>1. CallInv(d)
      BY DEF LifeInv
    <2>2. pc'[d] = pc[d] \/ (pc[d] \in {"owner", "joiner"} /\ pc'[d] \in {"returned", "threw"})
      BY <1>2
    <2>3. (pc'[d] = "idle" <=> pc[d] = "idle") /\ (pc[d] = "returned" => pc'[d] = "returned")
      BY <2>2
    <2>4. PassedInv(d)'
      BY <1>1, <2>1, <2>3 DEF CallInv, PassedInv, Passed, Underway
    <2>5. UntracedInv(d)' /\ SucceededInv(d)' /\ DirectInv(d)' /\ UnrecordedInv(d)'
      BY <1>1, <2>1, <2>3
         DEF CallInv, UntracedInv, SucceededInv, DirectInv, UnrecordedInv, Succeeded
    <2>6. KeyedInv(d)'
      BY <1>1, <1>2, <2>1, <2>3 DEF CallInv, KeyedInv, IntentOf
    <2>7. VersionInv(d)'
      BY <1>1, <2>1 DEF CallInv, VersionInv, PriorVersion
    <2> QED
      BY <2>4, <2>5, <2>6, <2>7 DEF CallInv
  <1> QED
    BY <1>4, <1>5 DEF LifeInv

(* A transaction is mined: it makes a version newer than any reading, or    *)
(* has no effect on the contract.                                           *)
LEMMA TransactionLandsPreserves ==
  ASSUME LifeInv, StoreFacts!StoreInv, NEW c \in Calls, TransactionLands(c)
  PROVE  LifeInv'
PROOF
  <1>1. /\ stored' = stored /\ written' = written
        /\ stage' = stage /\ proposal' = proposal /\ reading' = reading /\ verdict' = verdict
        /\ prior' = prior /\ audit' = audit /\ reply' = reply
        /\ pc' = pc /\ key' = key /\ promise' = promise
        /\ tx[c] = "sent"
    BY DEF TransactionLands, storeVars
  <1>2. OwnTypes /\ CallInv(c)
    BY DEF LifeInv
  <1>3. Passed(c)
    BY <1>1, <1>2 DEF CallInv, PassedInv, Underway
  <1>4. proposal[c].requester \in Accounts
    BY <1>3, LifecycleConstants DEF Passed, Admissible, Authorized, Proposal
  <1>5. \/ /\ version < MaxVersion /\ version' = version + 1
           /\ owner' = proposal[c].requester
           /\ landed' = [landed EXCEPT ![c] = version + 1]
           /\ tx' = [tx EXCEPT ![c] = "landed"]
        \/ /\ owner' = owner /\ version' = version /\ landed' = landed
           /\ \E t \in {"reverted", "stray"} : tx' = [tx EXCEPT ![c] = t]
    BY DEF TransactionLands
  <1>6. version \in Nat /\ version' \in 0 .. MaxVersion /\ version <= version'
    BY <1>2, <1>5, Bounds DEF OwnTypes
  <1>7. /\ owner' \in Accounts \cup {None}
        /\ owner' = None <=> version' = 0
        /\ landed' \in [Calls -> 0 .. MaxVersion]
        /\ tx' \in [Calls -> {"none", "sent", "landed", "reverted", "stray"}]
    BY <1>2, <1>4, <1>5, <1>6, Bounds DEF OwnTypes
  <1>8. OwnTypes'
    BY <1>1, <1>2, <1>6, <1>7 DEF OwnTypes
  <1>9. \A d \in Calls : d # c => Untouched(d)
    BY <1>1, <1>2, <1>5 DEF Untouched, OwnTypes
  <1>10. tx'[c] # "none" /\ tx[c] # "none"
    BY <1>1, <1>2, <1>5 DEF OwnTypes
  <1>11. PassedInv(c)'
    BY <1>1, <1>3 DEF PassedInv, Passed
  <1>12. UntracedInv(c)' /\ SucceededInv(c)' /\ DirectInv(c)' /\ UnrecordedInv(c)'
    BY <1>1, <1>2, <1>10
       DEF CallInv, UntracedInv, SucceededInv, DirectInv, UnrecordedInv, Succeeded
  <1>13. KeyedInv(c)'
    BY <1>1, <1>2, <1>10 DEF CallInv, KeyedInv, IntentOf
  <1>14. VersionInv(c)'
    <2>1. reading[c] # None => reading[c].version \in Nat /\ reading[c].version <= version
      BY <1>2 DEF OwnTypes, Reading, CallInv, VersionInv
    <2>2. landed'[c] \in {version + 1, landed[c]}
      BY <1>2, <1>5 DEF OwnTypes
    <2>3. reading[c] # None /\ landed'[c] # 0 => reading[c].version < landed'[c]
      BY <1>2, <1>6, <2>1, <2>2 DEF CallInv, VersionInv
    <2>4. reading[c] # None => reading[c].version <= version'
      BY <1>6, <2>1
    <2>5. prior'[c] \in {0, PriorVersion(c)'}
      BY <1>1, <1>2 DEF CallInv, VersionInv, PriorVersion
    <2> QED
      BY <1>1, <1>10, <2>3, <2>4, <2>5 DEF VersionInv
  <1> QED
    BY <1>1, <1>2, <1>6, <1>8, <1>9, <1>11, <1>12, <1>13, <1>14, OneCall DEF CallInv

(* The owner acts elsewhere: versions only grow.                            *)
LEMMA OwnerActsPreserves ==
  ASSUME LifeInv, OwnerActs
  PROVE  LifeInv'
PROOF
  <1>1. /\ stored' = stored /\ written' = written
        /\ stage' = stage /\ proposal' = proposal /\ reading' = reading /\ verdict' = verdict
        /\ tx' = tx /\ landed' = landed /\ prior' = prior /\ audit' = audit /\ reply' = reply
        /\ pc' = pc /\ key' = key /\ promise' = promise
    BY DEF OwnerActs, storeVars
  <1>2. OwnTypes
    BY DEF LifeInv
  <1>3. /\ version # 0 /\ version \in Nat /\ owner \in Accounts
        /\ \/ version < MaxVersion /\ version' = version + 1 /\ owner' = owner
           \/ owner' \in Accounts /\ version' = version
    BY <1>2, Bounds DEF OwnerActs, OwnTypes
  <1>4. version' \in 0 .. MaxVersion /\ version <= version' /\ version' # 0
        /\ owner' \in Accounts
    BY <1>2, <1>3, Bounds DEF OwnTypes
  <1>5. OwnTypes'
    BY <1>1, <1>2, <1>4, Bounds DEF OwnTypes
  <1>6. version' \in Nat
    BY <1>4, Bounds
  <1>7. ASSUME NEW d \in Calls PROVE CallInv(d)'
    <2>1. Untouched(d)
      BY <1>1 DEF Untouched
    <2>2. CallInv(d)
      BY DEF LifeInv
    <2> QED
      BY <1>1, <1>2, <1>4, <1>6, <2>1, <2>2, UntouchedPreserves
  <1> QED
    BY <1>5, <1>7 DEF LifeInv

(* The forward has settled: a record, or an exception for the caller.       *)
LEMMA ReturnForwardPreserves ==
  ASSUME LifeInv, StoreFacts!StoreInv, NEW c \in Calls, ReturnForward(c)
  PROVE  LifeInv'
PROOF
  <1>1. /\ stored' = stored /\ written' = written /\ owner' = owner /\ version' = version
        /\ proposal' = proposal /\ reading' = reading /\ verdict' = verdict /\ tx' = tx
        /\ landed' = landed /\ audit' = audit
        /\ pc' = pc /\ key' = key /\ promise' = promise
        /\ stage[c] = "forwarding"
    BY DEF ReturnForward, contract, storeVars
  <1>2. \/ /\ stored => pc[c] = "returned"
           /\ prior' = [prior EXCEPT ![c] = PriorVersion(c)]
           /\ \/ stage' = [stage EXCEPT ![c] = "auditing"] /\ reply' = reply
              \/ stage' = [stage EXCEPT ![c] = "done"] /\ reply' = [reply EXCEPT ![c] = "allow"]
        \/ /\ prior' = prior
           /\ stage' = [stage EXCEPT ![c] = "done"] /\ reply' = [reply EXCEPT ![c] = "threw"]
    BY DEF ReturnForward, Record, Throw, Decline
  <1>3. OwnTypes /\ CallInv(c)
    BY DEF LifeInv
  <1>4. PriorVersion(c) \in 0 .. MaxVersion
    BY <1>3, Bounds DEF OwnTypes, PriorVersion, Reading
  <1>5. OwnTypes'
    BY <1>1, <1>2, <1>3, <1>4 DEF OwnTypes
  <1>6. \A d \in Calls : d # c => Untouched(d)
    BY <1>1, <1>2, <1>3 DEF Untouched, OwnTypes
  <1>7. PassedInv(c)'
    BY <1>1, <1>3 DEF CallInv, PassedInv, Passed, Underway
  <1>8. stage'[c] \in {"auditing", "done"}
    BY <1>2, <1>3 DEF OwnTypes
  <1>9. UntracedInv(c)' /\ DirectInv(c)' /\ UnrecordedInv(c)'
    BY <1>8 DEF UntracedInv, DirectInv, UnrecordedInv
  <1>10. SucceededInv(c)'
    <2>1. ~ stored => tx[c] # "none"
      BY <1>1, <1>3 DEF CallInv, DirectInv
    <2>2. CASE stored => pc[c] = "returned"
      BY <1>1, <2>1, <2>2 DEF SucceededInv
    <2>3. CASE /\ stage' = [stage EXCEPT ![c] = "done"]
               /\ reply' = [reply EXCEPT ![c] = "threw"]
      <3>1. stage'[c] = "done" /\ reply'[c] = "threw"
        BY <1>3, <2>3 DEF OwnTypes
      <3> QED
        BY <1>1, <1>3, <3>1 DEF CallInv, SucceededInv, Succeeded
    <2> QED
      BY <1>2, <2>2, <2>3
  <1>11. KeyedInv(c)'
    BY <1>1, <1>3 DEF CallInv, KeyedInv, IntentOf
  <1>12. VersionInv(c)'
    <2>1. prior'[c] \in {0, PriorVersion(c)}
      BY <1>2, <1>3 DEF OwnTypes, CallInv, VersionInv
    <2>2. PriorVersion(c)' = PriorVersion(c)
      BY <1>1 DEF PriorVersion
    <2> QED
      BY <1>1, <1>3, <2>1, <2>2 DEF CallInv, VersionInv
  <1> QED
    BY <1>1, <1>3, <1>5, <1>6, <1>7, <1>9, <1>10, <1>11, <1>12, Bounds, OneCall
       DEF CallInv, OwnTypes

(* The audit event is written or lost: the caller is told either way.       *)
LEMMA FinishAuditPreserves ==
  ASSUME LifeInv, StoreFacts!StoreInv, NEW c \in Calls, FinishAudit(c)
  PROVE  LifeInv'
PROOF
  <1>1. /\ stored' = stored /\ written' = written /\ owner' = owner /\ version' = version
        /\ proposal' = proposal /\ reading' = reading /\ verdict' = verdict /\ tx' = tx
        /\ landed' = landed /\ prior' = prior
        /\ pc' = pc /\ key' = key /\ promise' = promise
        /\ stage[c] = "auditing"
        /\ stage' = [stage EXCEPT ![c] = "done"] /\ reply' = [reply EXCEPT ![c] = "allow"]
    BY DEF FinishAudit, Decline, contract, storeVars
  <1>2. \E e \in {"written", "lost"} : audit' = [audit EXCEPT ![c] = e]
    BY DEF FinishAudit
  <1>3. OwnTypes /\ CallInv(c)
    BY DEF LifeInv
  <1>4. OwnTypes'
    BY <1>1, <1>2, <1>3 DEF OwnTypes
  <1>5. \A d \in Calls : d # c => Untouched(d)
    BY <1>1, <1>2, <1>3 DEF Untouched, OwnTypes
  <1>6. PassedInv(c)'
    BY <1>1, <1>3 DEF CallInv, PassedInv, Passed, Underway
  <1>7. stage'[c] = "done"
    BY <1>1, <1>3 DEF OwnTypes
  <1>8. UntracedInv(c)' /\ DirectInv(c)' /\ UnrecordedInv(c)'
    BY <1>7 DEF UntracedInv, DirectInv, UnrecordedInv
  <1>9. SucceededInv(c)'
    BY <1>1, <1>3 DEF CallInv, SucceededInv, Succeeded
  <1>10. KeyedInv(c)'
    BY <1>1, <1>3 DEF CallInv, KeyedInv, IntentOf
  <1>11. VersionInv(c)'
    BY <1>1, <1>3 DEF CallInv, VersionInv, PriorVersion
  <1> QED
    BY <1>1, <1>3, <1>4, <1>5, <1>6, <1>8, <1>9, <1>10, <1>11, Bounds, OneCall
       DEF CallInv, OwnTypes

(* A stutter changes nothing.                                               *)
LEMMA StutterPreserves == LifeInv /\ UNCHANGED vars => LifeInv'
PROOF
  <1> SUFFICES ASSUME LifeInv, UNCHANGED vars PROVE LifeInv'
    OBVIOUS
  <1>1. OwnTypes /\ version \in Nat
    BY Bounds DEF LifeInv, OwnTypes
  <1>2. /\ stored' = stored /\ written' = written /\ owner' = owner /\ version' = version
        /\ stage' = stage /\ proposal' = proposal /\ reading' = reading /\ verdict' = verdict
        /\ tx' = tx /\ landed' = landed /\ prior' = prior /\ audit' = audit /\ reply' = reply
        /\ pc' = pc /\ key' = key /\ promise' = promise
    BY DEF vars
  <1>3. OwnTypes'
    BY <1>1, <1>2 DEF OwnTypes
  <1>4. ASSUME NEW d \in Calls PROVE CallInv(d)'
    <2>1. Untouched(d)
      BY <1>2 DEF Untouched
    <2>2. CallInv(d) /\ version' \in Nat /\ version <= version'
      BY <1>1, <1>2 DEF LifeInv
    <2> QED
      BY <1>1, <1>2, <2>1, <2>2, UntouchedPreserves
  <1> QED
    BY <1>3, <1>4 DEF LifeInv

(* The inductive invariant of the lifecycle, on top of that of its store.   *)
THEOREM LifeInvariance == Spec => []LifeInv
PROOF
  <1>1. LifeInv /\ GateInv /\ StoreFacts!StoreInv /\ [Next]_vars => LifeInv'
    <2> SUFFICES ASSUME LifeInv, GateInv, StoreFacts!StoreInv, [Next]_vars PROVE LifeInv'
      OBVIOUS
    <2>1. ASSUME NEW c \in Calls, ReviewBlocks(c) \/ ReviewPasses(c) PROVE LifeInv'
      BY <2>1, ReviewBlocksPreserves, ReviewPassesPreserves
    <2>2. ASSUME NEW c \in Calls, ReadPolicy(c) \/ \E p \in Proposals : Cover(c, p)
          PROVE  LifeInv'
      BY <2>2, ReadPolicyPreserves, CoverPreserves
    <2>3. ASSUME NEW c \in Calls, StartForward(c) \/ SettleForward(c) \/ StoreResumes(c)
          PROVE  LifeInv'
      BY <2>3, StartForwardPreserves, SettleForwardPreserves, StoreResumesPreserves
    <2>4. ASSUME NEW c \in Calls, TransactionLands(c) \/ ReturnForward(c) \/ FinishAudit(c)
          PROVE  LifeInv'
      BY <2>4, TransactionLandsPreserves, ReturnForwardPreserves, FinishAuditPreserves
    <2>5. CASE OwnerActs
      BY <2>5, OwnerActsPreserves
    <2>6. CASE UNCHANGED vars
      BY <2>6, StutterPreserves
    <2> QED
      BY <2>1, <2>2, <2>3, <2>4, <2>5, <2>6 DEF Next, Review
  <1> QED
    BY LifeInit, <1>1, GateInvariance, StoreInvariantHolds, PTL DEF Spec

-----------------------------------------------------------------------------
(* What follows from it. *)

(* Every variable keeps its shape, and a contract without an owner has no   *)
(* version: nobody's transaction can land unless it was authorised.         *)
THEOREM LifecycleTypeCorrect == Spec => []TypeOK
PROOF
  <1>1. StoreFacts!TypeOK => Store!TypeOK
    BY DEF StoreFacts!TypeOK, Store!TypeOK, StoreFacts!Entry, Store!Entry,
       StoreFacts!Outcomes, Store!Outcomes
  <1>2. LifeInv /\ StoreFacts!StoreInv => TypeOK
    BY <1>1 DEF LifeInv, OwnTypes, StoreFacts!StoreInv, TypeOK
  <1> QED
    BY <1>2, LifeInvariance, StoreInvariantHolds, PTL

(* Only a call that passed every gate itself sends a transaction.           *)
THEOREM NothingUnguardedHolds == Spec => []NothingUnguarded
PROOF
  <1>1. LifeInv => NothingUnguarded
    BY DEF LifeInv, CallInv, PassedInv, Underway, Passed, Admissible, NothingUnguarded
  <1> QED
    BY <1>1, LifeInvariance, PTL

(* A transaction that left through the store left under its call's intent.  *)
LEMMA SentUnderIntent ==
  ASSUME LifeInv, StoreFacts!StoreInv, stored, NEW c \in Calls, tx[c] # "none"
  PROVE  promise[c] # "none" /\ key[c] = IntentOf(c)
BY StoreViews DEF LifeInv, CallInv, KeyedInv

(* With a store, calls with one intent send at most one transaction.        *)
THEOREM OneTransactionHolds == Spec => []OneTransactionPerIntent
PROOF
  <1>1. LifeInv /\ StoreFacts!StoreInv => OneTransactionPerIntent
    <2> SUFFICES ASSUME LifeInv, StoreFacts!StoreInv, stored,
                        NEW c \in Calls, NEW d \in Calls,
                        tx[c] # "none", tx[d] # "none",
                        SameIntent(proposal[c], proposal[d])
                 PROVE  c = d
      BY DEF OneTransactionPerIntent
    <2>1. promise[c] # "none" /\ promise[d] # "none"
      BY SentUnderIntent
    <2>2. key[c] = key[d]
      BY SentUnderIntent DEF SameIntent, IntentOf
    <2> QED
      BY <2>1, <2>2 DEF StoreFacts!StoreInv, StoreFacts!UniqueInv
  <1> QED
    BY <1>1, LifeInvariance, StoreInvariantHolds, PTL

(* Whoever is told "allow", or has it audited, got what they asked for by a *)
(* transaction that really left.                                            *)
THEOREM AllowedWasForwardedHolds == Spec => []AllowedWasForwarded
PROOF
  <1>1. LifeInv /\ StoreFacts!StoreInv => AllowedWasForwarded
    <2> SUFFICES ASSUME LifeInv, StoreFacts!StoreInv, NEW c \in Calls,
                        reply[c] = "allow" \/ audit[c] # "none"
                 PROVE  \E d \in Calls : /\ tx[d] # "none"
                                         /\ SameIntent(proposal[c], proposal[d])
                                         /\ ~ stored => d = c
      BY DEF AllowedWasForwarded
    <2>1. IF stored THEN pc[c] = "returned" ELSE tx[c] # "none"
      BY DEF LifeInv, CallInv, SucceededInv, Succeeded
    <2>2. CASE ~ stored
      BY <2>1, <2>2 DEF SameIntent
    <2>3. CASE stored
      <3>1. pc[c] = "returned" /\ key[c] = IntentOf(c)
        BY <2>1, <2>3 DEF LifeInv, CallInv, KeyedInv
      <3>2. Passed(c)
        BY <3>1 DEF LifeInv, CallInv, PassedInv, Underway
      <3>3. key[c] \in Intents /\ key[c] # None
        BY <3>1, <3>2, AdmissibleHasIntent, NoneIsNoIntent DEF Passed
      <3>4. store[key[c]].status \in {"done", "failed"}
        BY <3>1, <3>3 DEF StoreFacts!StoreInv, StoreFacts!AnswerInv, StoreFacts!Finished
      <3>5. PICK p \in Calls : key[p] = key[c] /\ promise[p] = "settled"
        BY <3>3, <3>4 DEF StoreFacts!StoreInv, StoreFacts!DoneInv
      <3>6. tx[p] # "none"
        BY <2>3, <3>5 DEF LifeInv, CallInv, KeyedInv
      <3>7. IntentOf(p) = IntentOf(c)
        BY <2>3, <3>1, <3>5, <3>6, SentUnderIntent
      <3>8. SameIntent(proposal[c], proposal[p])
        BY <3>7 DEF IntentOf, SameIntent
      <3> QED
        BY <2>3, <3>6, <3>8
    <2> QED
      BY <2>2, <2>3
  <1> QED
    BY <1>1, LifeInvariance, StoreInvariantHolds, PTL

(* The "before" version of a record is older than what the call made.       *)
THEOREM RecordedPriorHolds == Spec => []RecordedPriorIsPast
PROOF
  <1>1. LifeInv => RecordedPriorIsPast
    <2> SUFFICES ASSUME LifeInv, NEW c \in Calls, landed[c] # 0
                 PROVE  prior[c] < landed[c]
      BY DEF RecordedPriorIsPast
    <2>1. landed[c] \in Nat
      BY Bounds DEF LifeInv, OwnTypes
    <2>2. VersionInv(c)
      BY DEF LifeInv, CallInv
    <2>3. PriorVersion(c) < landed[c]
      BY <2>1, <2>2 DEF VersionInv, PriorVersion
    <2> QED
      BY <2>1, <2>2, <2>3 DEF VersionInv
  <1> QED
    BY <1>1, LifeInvariance, PTL

=============================================================================
