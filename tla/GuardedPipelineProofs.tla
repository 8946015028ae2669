------------------------ MODULE GuardedPipelineProofs ------------------------
(***************************************************************************)
(* What holds of the guarded pipeline for any number of calls, requests,    *)
(* policies and versions.                                                   *)
(*                                                                          *)
(* Whether a call passed a gate is history once it is forwarded: the        *)
(* policy, the connection and the other calls have moved on.  PipelineInv   *)
(* carries the outcome of each gate along the stages of a handler           *)
(* (GateInv, ReadInv), from the last gate into whatever the call leaves     *)
(* behind (ClearedInv, StoredInv), and ties the audit trail to the answer   *)
(* (AuditInv).  The pipeline drives its idempotency store by actions of the *)
(* store only (StoreDriven), so the store's invariant holds here too.       *)
(***************************************************************************)
EXTENDS GuardedPipeline, TLAPS

StoreFacts == INSTANCE IdempotencyStoreProofs WITH
                Keys     <- Requests,
                Results  <- {"ok"},
                Failures <- {"failed"},
                KeyError <- "malformed key"

-----------------------------------------------------------------------------
(* The pipeline and its store. *)

(* A handler on its way carries a request.                                  *)
AskedInv ==
  /\ DOMAIN stage = Calls /\ DOMAIN request = Calls
  /\ \A c \in Calls : stage[c] \notin {"idle", "done"} => request[c] \in Requests

(* A handler that ends is done.                                             *)
LEMMA EndsDone ==
  ASSUME NEW c \in Calls, NEW event, NEW told,
         EndInTry(c, event, told) \/ EndInCatch(c) \/ Block(c)
  PROVE  stage' = [stage EXCEPT ![c] = "done"]
BY DEF EndInTry, EndInCatch, EndOutsideTry, Block

(* The request is there from the first step of the handler on.              *)
THEOREM AskedInvariance == Spec => []AskedInv
PROOF
  <1>1. Init => AskedInv
    BY DEF Init, AskedInv
  <1>2. AskedInv /\ [Next]_vars => AskedInv'
    <2> SUFFICES ASSUME AskedInv, [Next]_vars PROVE AskedInv'
      OBVIOUS
    <2>1. ASSUME NEW c \in Calls, ReceiveCall(c) PROVE AskedInv'
      <3>1. \E r \in Requests : request' = [request EXCEPT ![c] = r]
        BY <2>1 DEF ReceiveCall, ReceiveUnaudited, ReceiveBlocked, ReceiveUnavailable,
           ReceiveGuarded, ReceiveDirect, Receive
      <3>2. DOMAIN stage' = Calls /\ \A d \in Calls : d # c => stage'[d] = stage[d]
        BY <2>1 DEF AskedInv, ReceiveCall, ReceiveUnaudited, ReceiveBlocked,
           ReceiveUnavailable, ReceiveGuarded, ReceiveDirect, EndOutsideTry
      <3> QED
        BY <3>1, <3>2 DEF AskedInv
    <2>2. ASSUME NEW c \in Calls, request' = request, stage[c] \notin {"idle", "done"},
                 NEW s, stage' = [stage EXCEPT ![c] = s]
          PROVE  AskedInv'
      BY <2>2 DEF AskedInv
    <2>3. ASSUME NEW c \in Calls, Simulate(c) \/ Read(c) PROVE AskedInv'
      <3>1. request' = request /\ stage[c] \notin {"idle", "done"}
        BY <2>3 DEF Simulate, Read, ReadIdentity, ReadCaps, ReadFlags, ReadList,
           ReadFails, Decide, Reading
      <3>2. stage' = stage \/ \E s : stage' = [stage EXCEPT ![c] = s]
        BY <2>3, EndsDone DEF Simulate, Read, ReadIdentity, ReadCaps, ReadFlags, ReadList,
           ReadFails, Decide
      <3>3. DOMAIN stage' = Calls /\ \A d \in Calls : d # c => stage'[d] = stage[d]
        BY <3>2 DEF AskedInv
      <3> QED
        BY <3>1, <3>3 DEF AskedInv
    <2>4. ASSUME NEW c \in Calls, Review(c) \/ ReturnForwarded(c) \/ ReturnDirect(c)
          PROVE  AskedInv'
      <3>1. request' = request /\ stage[c] \notin {"idle", "done"}
        BY <2>4 DEF Review, ReviewVetoed, ReviewSafeOnce, ReviewSafeDirect, ReturnForwarded,
           ReturnDirect
      <3>2. \E s : stage' = [stage EXCEPT ![c] = s]
        BY <2>4, EndsDone DEF Review, ReviewVetoed, ReviewSafeOnce, ReviewSafeDirect,
           ReturnForwarded, ReturnDirect
      <3> QED
        BY <2>2, <3>1, <3>2
    <2>5. ASSUME UNCHANGED callVars PROVE AskedInv'
      BY <2>5 DEF AskedInv, callVars
    <2>6. ASSUME NEW c \in Calls,
                 StartForward(c) \/ SettleForward(c) \/ StoreResumes(c) \/ UpstreamExecutes(c)
          PROVE  AskedInv'
      BY <2>5, <2>6 DEF StartForward, SettleForward, StoreResumes, UpstreamExecutes
    <2>7. CASE PublishPolicy \/ Connect \/ Shutdown
      BY <2>5, <2>7 DEF PublishPolicy, Connect, Shutdown
    <2>8. CASE UNCHANGED vars
      BY <2>5, <2>8 DEF vars, callVars
    <2> QED
      BY <2>1, <2>3, <2>4, <2>6, <2>7, <2>8 DEF Next, Handler
  <1> QED
    BY <1>1, <1>2, PTL DEF Spec

(* Every step is a step of the store or leaves the store alone.             *)
LEMMA StoreStep == AskedInv /\ [Next]_vars => [Store!Next]_(Store!vars)
PROOF
  <1> SUFFICES ASSUME AskedInv, [Next]_vars PROVE [Store!Next]_(Store!vars)
    OBVIOUS
  <1>1. ASSUME NEW c \in Calls, ReviewSafeOnce(c) PROVE Store!Next
    <2>1. request[c] \in Requests
      BY <1>1 DEF AskedInv, ReviewSafeOnce
    <2>2. Store!RunOnce(c, request[c])
      BY <1>1 DEF ReviewSafeOnce, IdempotencyKey
    <2> QED
      BY <2>1, <2>2 DEF Store!Next
  <1>2. ASSUME NEW c \in Calls, StartForward(c) PROVE Store!Next
    BY <1>2 DEF StartForward, Store!Next
  <1>3. ASSUME NEW c \in Calls, SettleForward(c) PROVE Store!Next
    BY <1>3 DEF SettleForward, Store!Next
  <1>4. ASSUME NEW c \in Calls, StoreResumes(c) PROVE Store!Next
    BY <1>4 DEF StoreResumes, Store!Next
  <1>5. ASSUME NEW c \in Calls, ReceiveCall(c) PROVE UNCHANGED storeVars
    BY <1>5 DEF ReceiveCall, ReceiveUnaudited, ReceiveBlocked, ReceiveUnavailable,
       ReceiveGuarded, ReceiveDirect, Receive
  <1>6. ASSUME NEW c \in Calls,
               \/ Simulate(c) \/ Read(c) \/ ReviewVetoed(c) \/ ReviewSafeDirect(c)
               \/ ReturnForwarded(c) \/ ReturnDirect(c) \/ UpstreamExecutes(c)
        PROVE  UNCHANGED storeVars
    BY <1>6 DEF Simulate, Read, ReadIdentity, ReadCaps, ReadFlags, ReadList,
           ReadFails, Decide, ReviewVetoed,
       ReviewSafeDirect, ReturnForwarded, ReturnDirect, UpstreamExecutes
  <1>7. PublishPolicy \/ Connect \/ Shutdown \/ UNCHANGED vars => UNCHANGED storeVars
    BY DEF PublishPolicy, Connect, Shutdown, vars, storeVars
  <1>8. UNCHANGED storeVars => UNCHANGED Store!vars
    BY DEF storeVars, Store!vars
  <1> QED
    BY <1>1, <1>2, <1>3, <1>4, <1>5, <1>6, <1>7, <1>8 DEF Next, Handler, Review

(* The pipeline uses its store as the specification of the store allows.    *)
THEOREM StoreDriven == Spec => Store!Spec
PROOF
  <1>1. Init => Store!Init
    BY DEF Init
  <1> QED
    BY <1>1, StoreStep, AskedInvariance, PTL DEF Spec, Store!Spec

(* What the store's own proofs assume of its constants.                     *)
LEMMA StoreConstants ==
  /\ None \notin Calls \cup Requests \cup {"ok"} \cup {"failed"} \cup {"malformed key"}
  /\ {"ok"} \cap {"failed"} = {}
  /\ "malformed key" \notin {"ok"} \cup {"failed"}
BY PipelineConstants

(* The store of the proofs is the store of the model.                       *)
LEMMA SameStore == Store!Spec => StoreFacts!Spec
PROOF
  <1>1. Store!Init => StoreFacts!Init
    BY DEF Store!Init, StoreFacts!Init, Store!Absent, StoreFacts!Absent
  <1>2. [Store!Next]_(Store!vars) => [StoreFacts!Next]_(StoreFacts!vars)
    BY DEF Store!vars, StoreFacts!vars, Store!Next, StoreFacts!Next,
           Store!RunOnceMalformed, StoreFacts!RunOnceMalformed,
           Store!RunOnce, StoreFacts!RunOnce, Store!RunOnceFresh, StoreFacts!RunOnceFresh,
           Store!RunOnceJoin, StoreFacts!RunOnceJoin,
           Store!RunOnceSettled, StoreFacts!RunOnceSettled,
           Store!StartForward, StoreFacts!StartForward,
           Store!SettleForward, StoreFacts!SettleForward,
           Store!OwnerResumes, StoreFacts!OwnerResumes,
           Store!JoinerResumes, StoreFacts!JoinerResumes,
           Store!Finish, StoreFacts!Finish, Store!Pending, StoreFacts!Pending,
           Store!Committed, StoreFacts!Committed, Store!Outcomes, StoreFacts!Outcomes
  <1> QED
    BY <1>1, <1>2, PTL DEF Store!Spec, StoreFacts!Spec

(* The invariant of the store holds of the store of the pipeline.           *)
THEOREM StoreInvariantHolds == Spec => []StoreFacts!StoreInv
PROOF
  <1>1. StoreFacts!Spec => []StoreFacts!StoreInv
    BY StoreConstants, StoreFacts!StoreInvariance
  <1> QED
    BY StoreDriven, SameStore, <1>1, PTL

(* Whatever the handlers do with it, the store runs an intent at most once, *)
(* and answers for it only with the outcome of that run.                    *)
THEOREM StoreKeepsItsPromise == Spec => StoreFacts!ImplementsAtMostOnce
PROOF
  <1>1. StoreFacts!Spec => StoreFacts!ImplementsAtMostOnce
    BY StoreConstants, StoreFacts!Refinement
  <1> QED
    BY StoreDriven, SameStore, <1>1, PTL

-----------------------------------------------------------------------------
(* The inductive invariant. *)

(* The audit trails a handler can leave.                                    *)
Trails == {<<>>, <<"received">>, <<"received", "blocked">>, <<"received", "unavailable">>,
           <<"received", "forwarded">>, <<"received", "upstream_error">>}

(* The types of the pipeline's own variables.                               *)
OwnTypes ==
  /\ guarded \in BOOLEAN
  /\ link \in {"down", "up", "closed"}
  /\ chain \in Seq(Policies) /\ Len(chain) \in 1 .. MaxVersion
  /\ stage \in [Calls -> {"idle", "simulating", "identity", "caps", "flags",
                          "lists", "review", "awaiting", "forwarding", "done"}]
  /\ request \in [Calls -> Requests \cup {None}]
  /\ arrived \in [Calls -> 0 .. MaxVersion]
  /\ sim \in [Calls -> SimulationStatus \cup {"none"}]
  /\ seen \in [Calls -> Snapshot \cup {None}]
  /\ verdict \in [Calls -> {"none", "safe", "vetoed"}]
  /\ upstream \in [Calls -> {"untouched", "requested", "executed"}]
  /\ audit \in [Calls -> Trails]
  /\ reply \in [Calls -> {"none", "refused", "unavailable", "result", "failed", "internal"}]

(* Before the forward.                                                      *)
Early == {"idle", "simulating", "review"} \cup Reading

(* A call that waits for a forward, has left a trace in the store or at the *)
(* wallet agent, or has been given a result.                                *)
Underway(c) ==
  \/ stage[c] \in {"awaiting", "forwarding"}
  \/ pc[c] # "idle" \/ upstream[c] # "untouched" \/ reply[c] = "result"

(* Until the forward a call has left no trace.                              *)
EarlyInv(c) ==
  stage[c] \in Early => upstream[c] = "untouched" /\ pc[c] = "idle" /\ reply[c] = "none"

(* What the checks before the first await have established.                 *)
Examined(c) ==
  /\ request[c] \in Requests
  /\ request[c].exposure = "visible"
  /\ guarded \/ request[c].default = "allow"

(* What the deterministic decision has established.                         *)
Judged(c) ==
  /\ request[c].evidence
  /\ ~seen[c].frozen
  /\ seen[c].permits /\ seen[c].unread = {}
  /\ request[c].class \in MutationClasses => request[c].consent /\ sim[c] = "success"

(* The gates behind a handler, stage by stage.                              *)
GateInv(c) ==
  /\ stage[c] \in Early \ {"idle"} => guarded /\ Examined(c)
  /\ stage[c] \in Reading =>
       (request[c].class \in MutationClasses => request[c].consent)
  /\ stage[c] = "review" => Judged(c)

(* The gates behind everything a call has left behind.                      *)
ClearedInv(c) == Underway(c) => Examined(c) /\ Cleared(c)

(* The snapshot a handler goes by is named after a version on chain since   *)
(* the call arrived, and frozen if that version is.                         *)
SeenInv(c) ==
  /\ seen[c] \in Snapshot
  /\ arrived[c] <= seen[c].version /\ seen[c].version <= Len(chain)
  /\ chain[seen[c].version].frozen => seen[c].frozen

(* Once the identity has been read.                                         *)
Informed == {"caps", "flags", "lists", "review"}

ReadInv(c) ==
  /\ arrived[c] <= Len(chain)
  /\ stage[c] \in Informed \/ (guarded /\ Underway(c)) => SeenInv(c)

(* The store knows a call under its request, and answers it with what the   *)
(* wallet agent did.                                                        *)
StoredInv(c) ==
  /\ pc[c] # "idle" =>
       guarded /\ key[c] = request[c] /\ request[c].class \in IdempotentClasses
  /\ stage[c] = "awaiting" => pc[c] # "idle"
  /\ guarded /\ upstream[c] # "untouched" /\ request[c].class \in IdempotentClasses
       => promise[c] \in {"running", "settled"}
  /\ promise[c] = "settled" /\ outcome[c] = "ok" => upstream[c] = "executed"
  /\ pc[c] = "returned" => answer[c] = "ok"

(* The trail says what the host was told.                                   *)
AuditInv(c) ==
  /\ stage[c] = "idle" => audit[c] = <<>>
  /\ stage[c] \notin {"idle", "done"} => audit[c] = <<"received">> /\ reply[c] = "none"
  /\ stage[c] = "done" =>
       \/ audit[c] \in {<<>>, <<"received">>} /\ reply[c] = "internal"
       \/ audit[c] = <<"received", "blocked">> /\ reply[c] = "refused"
       \/ audit[c] = <<"received", "unavailable">> /\ reply[c] = "unavailable"
       \/ audit[c] = <<"received", "forwarded">> /\ reply[c] = "result"
       \/ audit[c] = <<"received", "upstream_error">> /\ reply[c] = "failed"

(* A refusal is final, a result is earned.                                  *)
ReplyInv(c) ==
  /\ reply[c] \in {"refused", "unavailable"} => upstream[c] = "untouched" /\ pc[c] = "idle"
  /\ reply[c] = "result" => pc[c] = "returned" \/ upstream[c] = "executed"

CallInv(c) ==
  /\ EarlyInv(c) /\ GateInv(c) /\ ClearedInv(c) /\ ReadInv(c)
  /\ StoredInv(c) /\ AuditInv(c) /\ ReplyInv(c)

PipelineInv == OwnTypes /\ \A c \in Calls : CallInv(c)

(* What the store's invariant says of a call, in the pipeline's terms.      *)
LEMMA StoreViews ==
  ASSUME StoreFacts!StoreInv
  PROVE  /\ DOMAIN pc = Calls /\ DOMAIN promise = Calls /\ DOMAIN key = Calls
         /\ DOMAIN outcome = Calls /\ DOMAIN answer = Calls
         /\ \A c \in Calls : promise[c] # "none" => pc[c] # "idle"
         /\ \A c \in Calls : promise[c] \in {"none", "queued", "running", "settled"}
PROOF
  <1>1. StoreFacts!TypeOK /\ StoreFacts!PromiseInv
    BY DEF StoreFacts!StoreInv
  <1>2. /\ DOMAIN pc = Calls /\ DOMAIN promise = Calls /\ DOMAIN key = Calls
        /\ DOMAIN outcome = Calls /\ DOMAIN answer = Calls
        /\ \A c \in Calls : promise[c] \in {"none", "queued", "running", "settled"}
    BY <1>1 DEF StoreFacts!TypeOK
  <1>3. \A c \in Calls : promise[c] # "none" => pc[c] # "idle"
    BY <1>1 DEF StoreFacts!PromiseInv, StoreFacts!Finished
  <1> QED
    BY <1>2, <1>3

(* The bound leaves room for a version.                                     *)
LEMMA Bounds == MaxVersion \in Nat /\ MaxVersion >= 1
PROOF
  <1>1. MaxVersion \in Nat \ {0}
    BY PipelineConstants
  <1> QED
    BY <1>1

(* The invariant holds initially.                                           *)
LEMMA PipelineInit == Init => PipelineInv
PROOF
  <1> SUFFICES ASSUME Init PROVE PipelineInv
    OBVIOUS
  <1>1. PICK p \in Policies : chain = <<p>>
    BY DEF Init
  <1>2. chain \in Seq(Policies) /\ Len(chain) = 1
    BY <1>1
  <1>3. MaxVersion \in Nat /\ MaxVersion >= 1
    BY Bounds
  <1>4. guarded \in BOOLEAN
    BY PipelineConstants DEF Init
  <1>5. OwnTypes
    BY <1>2, <1>3, <1>4 DEF Init, OwnTypes, Trails, SimulationStatus
  <1>6. ASSUME NEW c \in Calls PROVE CallInv(c)
    <2>1. /\ stage[c] = "idle" /\ arrived[c] = 0 /\ upstream[c] = "untouched"
          /\ audit[c] = <<>> /\ reply[c] = "none"
      BY DEF Init
    <2>2. pc[c] = "idle" /\ promise[c] = "none"
      BY DEF Init, Store!Init
    <2>3. ~ Underway(c)
      BY <2>1, <2>2 DEF Underway
    <2>4. EarlyInv(c) /\ GateInv(c) /\ ClearedInv(c) /\ AuditInv(c) /\ ReplyInv(c)
      BY <2>1, <2>2, <2>3 DEF EarlyInv, GateInv, ClearedInv, AuditInv, ReplyInv, Early,
         Reading
    <2>5. ReadInv(c) /\ StoredInv(c)
      BY <1>2, <2>1, <2>2, <2>3 DEF ReadInv, StoredInv, SeenInv, Informed
    <2> QED
      BY <2>4, <2>5 DEF CallInv
  <1> QED
    BY <1>5, <1>6 DEF PipelineInv

(***************************************************************************)
(* A step leaves the other calls alone: if everything PipelineInv says of   *)
(* call d is as it was and no version is taken back, CallInv(d) is as it    *)
(* was.                                                                     *)
(***************************************************************************)
Kept(d) ==
  /\ stage'[d] = stage[d] /\ request'[d] = request[d] /\ arrived'[d] = arrived[d]
  /\ sim'[d] = sim[d] /\ seen'[d] = seen[d] /\ verdict'[d] = verdict[d]
  /\ upstream'[d] = upstream[d] /\ audit'[d] = audit[d] /\ reply'[d] = reply[d]

StoreKept(d) ==
  /\ pc'[d] = pc[d] /\ key'[d] = key[d] /\ promise'[d] = promise[d]
  /\ outcome'[d] = outcome[d] /\ answer'[d] = answer[d]

ChainGrows ==
  /\ Len(chain) \in Nat /\ Len(chain') \in Nat /\ Len(chain) <= Len(chain')
  /\ \A v \in 1 .. Len(chain) : chain'[v] = chain[v]

LEMMA KeptPreserves ==
  ASSUME OwnTypes, NEW d \in Calls, CallInv(d), Kept(d), StoreKept(d),
         guarded' = guarded, ChainGrows
  PROVE  CallInv(d)'
PROOF
  <1>1. Underway(d)' <=> Underway(d)
    BY DEF Underway, Kept, StoreKept
  <1>2. EarlyInv(d)' /\ AuditInv(d)' /\ ReplyInv(d)'
    BY DEF CallInv, EarlyInv, AuditInv, ReplyInv, Kept, StoreKept
  <1>3. GateInv(d)'
    BY DEF CallInv, GateInv, Examined, Judged, Kept
  <1>4. ClearedInv(d)'
    BY <1>1 DEF CallInv, ClearedInv, Examined, Cleared, Kept
  <1>5. StoredInv(d)'
    BY DEF CallInv, StoredInv, Kept, StoreKept
  <1>6. ReadInv(d)'
    <2>1. arrived'[d] \in Nat /\ arrived'[d] = arrived[d] /\ arrived[d] <= Len(chain)
      BY DEF OwnTypes, Kept, CallInv, ReadInv
    <2>2. arrived'[d] <= Len(chain')
      BY <2>1 DEF ChainGrows
    <2>3. ASSUME stage'[d] \in Informed \/ (guarded' /\ Underway(d)')
          PROVE  SeenInv(d)'
      <3>1. SeenInv(d) /\ seen'[d] = seen[d]
        BY <1>1, <2>3 DEF CallInv, ReadInv, Kept
      <3>2. seen[d].version \in Nat /\ seen[d].version >= 1 /\ seen[d].version <= Len(chain)
        BY <3>1, Bounds DEF SeenInv, Snapshot
      <3>3. seen[d].version \in 1 .. Len(chain)
        BY <3>2 DEF ChainGrows
      <3>4. chain'[seen[d].version] = chain[seen[d].version]
        BY <3>3 DEF ChainGrows
      <3> QED
        BY <2>1, <3>1, <3>2, <3>3, <3>4 DEF SeenInv, ChainGrows
    <2> QED
      BY <2>2, <2>3 DEF ReadInv
  <1> QED
    BY <1>2, <1>3, <1>4, <1>5, <1>6 DEF CallInv

(* A step of one call preserves the invariant if it does for that call.     *)
LEMMA OneCall ==
  ASSUME PipelineInv, NEW c \in Calls, OwnTypes', guarded' = guarded, ChainGrows,
         \A d \in Calls : d # c => Kept(d) /\ StoreKept(d),
         CallInv(c)'
  PROVE  PipelineInv'
PROOF
  <1>1. ASSUME NEW d \in Calls, d # c PROVE CallInv(d)'
    BY <1>1, KeptPreserves DEF PipelineInv
  <1> QED
    BY <1>1 DEF PipelineInv

(* A chain that is not touched has not shrunk.                              *)
LEMMA SameChain == OwnTypes /\ chain' = chain => ChainGrows
BY DEF OwnTypes, ChainGrows

-----------------------------------------------------------------------------
(* The steps of a handler before the forward. *)

(* A step that touches one call and neither the store, the policy nor the   *)
(* configuration.                                                           *)
Alone(c) ==
  /\ guarded' = guarded /\ chain' = chain /\ link' = link
  /\ UNCHANGED storeVars
  /\ \A d \in Calls : d # c => Kept(d)

(* From one early stage to the next.                                        *)
LEMMA GoesOn ==
  ASSUME PipelineInv, NEW c \in Calls, stage[c] \in Early, Alone(c), OwnTypes',
         stage'[c] \in Early \ {"idle"}, upstream'[c] = upstream[c], reply'[c] = reply[c],
         audit'[c] = <<"received">>,
         GateInv(c)', ReadInv(c)'
  PROVE  PipelineInv'
PROOF
  <1>1. upstream[c] = "untouched" /\ pc[c] = "idle" /\ reply[c] = "none"
    BY DEF PipelineInv, CallInv, EarlyInv
  <1>2. \A d \in Calls : StoreKept(d)
    BY DEF Alone, storeVars, StoreKept
  <1>3. stage'[c] \notin {"awaiting", "forwarding", "idle", "done"}
    BY DEF Early, Reading
  <1>4. ~ Underway(c)'
    BY <1>1, <1>2, <1>3 DEF Underway, StoreKept
  <1>5. EarlyInv(c)' /\ ClearedInv(c)' /\ AuditInv(c)' /\ ReplyInv(c)'
    BY <1>1, <1>2, <1>3, <1>4 DEF EarlyInv, ClearedInv, AuditInv, ReplyInv, StoreKept
  <1>6. StoredInv(c)'
    <2>1. promise[c] = "settled" /\ outcome[c] = "ok" => upstream[c] = "executed"
      BY DEF PipelineInv, CallInv, StoredInv
    <2> QED
      BY <1>1, <1>2, <1>3, <2>1 DEF StoredInv, StoreKept
  <1> QED
    BY <1>2, <1>5, <1>6, OneCall, SameChain DEF Alone, CallInv, PipelineInv

(* From an early stage to a refusal or an error.                            *)
LEMMA Declines ==
  ASSUME PipelineInv, NEW c \in Calls, stage[c] \in Early, Alone(c), OwnTypes',
         stage'[c] = "done", upstream'[c] = upstream[c], reply'[c] # "result",
         AuditInv(c)', arrived'[c] <= Len(chain)
  PROVE  PipelineInv'
PROOF
  <1>1. upstream[c] = "untouched" /\ pc[c] = "idle"
    BY DEF PipelineInv, CallInv, EarlyInv
  <1>2. \A d \in Calls : StoreKept(d)
    BY DEF Alone, storeVars, StoreKept
  <1>3. ~ Underway(c)'
    BY <1>1, <1>2 DEF Underway, StoreKept
  <1>4. EarlyInv(c)' /\ GateInv(c)' /\ ClearedInv(c)' /\ ReplyInv(c)' /\ ReadInv(c)'
    BY <1>1, <1>2, <1>3
       DEF EarlyInv, GateInv, ClearedInv, ReplyInv, ReadInv, StoreKept, Early, Alone,
          Reading, SeenInv, Informed
  <1>5. StoredInv(c)'
    <2>1. promise[c] = "settled" /\ outcome[c] = "ok" => upstream[c] = "executed"
      BY DEF PipelineInv, CallInv, StoredInv
    <2> QED
      BY <1>1, <1>2, <2>1 DEF StoredInv, StoreKept
  <1> QED
    BY <1>2, <1>4, <1>5, OneCall, SameChain DEF Alone, CallInv, PipelineInv

(* How a handler ends, once its trail has begun.                            *)
Ended(c, event, told) ==
  /\ stage' = [stage EXCEPT ![c] = "done"]
  /\ \/ /\ audit' = [audit EXCEPT ![c] = <<"received", event>>]
        /\ reply' = [reply EXCEPT ![c] = told]
     \/ /\ audit' = [audit EXCEPT ![c] = <<"received", "upstream_error">>]
        /\ reply' = [reply EXCEPT ![c] = "failed"]
     \/ /\ audit' = [audit EXCEPT ![c] = <<"received">>]
        /\ reply' = [reply EXCEPT ![c] = "internal"]

LEMMA EndOutsideEnds ==
  ASSUME NEW c \in Calls, NEW event, NEW told,
         EndOutsideTry(c, <<"received">>, event, told)
  PROVE  Ended(c, event, told)
BY DEF EndOutsideTry, Ended

LEMMA EndInTryEnds ==
  ASSUME OwnTypes, NEW c \in Calls, NEW event, NEW told, audit[c] = <<"received">>,
         EndInTry(c, event, told) \/ EndInCatch(c)
  PROVE  Ended(c, event, told)
PROOF
  <1>1. CASE EndInTry(c, event, told) /\ ~ EndInCatch(c)
    BY <1>1 DEF EndInTry, Ended, OwnTypes
  <1>2. CASE EndInCatch(c)
    BY <1>2 DEF EndInCatch, EndOutsideTry, Ended
  <1> QED
    BY <1>1, <1>2

(* The trail and the answer of a call that has ended.                       *)
LEMMA EndedTrail ==
  ASSUME OwnTypes, NEW c \in Calls, NEW event, NEW told, Ended(c, event, told),
         \/ event = "blocked" /\ told = "refused"
         \/ event = "unavailable" /\ told = "unavailable"
         \/ event = "forwarded" /\ told = "result"
  PROVE  /\ stage'[c] = "done" /\ AuditInv(c)'
         /\ stage' \in [Calls -> {"idle", "simulating", "identity", "caps", "flags",
                                  "lists", "review", "awaiting", "forwarding", "done"}]
         /\ audit' \in [Calls -> Trails]
         /\ reply' \in [Calls -> {"none", "refused", "unavailable", "result", "failed",
                                  "internal"}]
         /\ reply'[c] \in {told, "failed", "internal"}
         /\ \A d \in Calls : d # c => /\ stage'[d] = stage[d] /\ audit'[d] = audit[d]
                                      /\ reply'[d] = reply[d]
PROOF
  <1>1. stage'[c] = "done"
    BY DEF Ended, OwnTypes
  <1>2. \/ audit'[c] = <<"received", event>> /\ reply'[c] = told
        \/ audit'[c] = <<"received", "upstream_error">> /\ reply'[c] = "failed"
        \/ audit'[c] = <<"received">> /\ reply'[c] = "internal"
    BY DEF Ended, OwnTypes
  <1>3. AuditInv(c)'
    BY <1>1, <1>2 DEF AuditInv
  <1>4. /\ audit' \in [Calls -> Trails]
        /\ reply' \in [Calls -> {"none", "refused", "unavailable", "result", "failed",
                                 "internal"}]
    <2>1. \E t \in Trails : audit' = [audit EXCEPT ![c] = t]
      BY DEF Ended, Trails
    <2>2. \E word \in {"refused", "unavailable", "result", "failed", "internal"} :
            reply' = [reply EXCEPT ![c] = word]
      BY DEF Ended
    <2>3. audit \in [Calls -> Trails]
      BY DEF OwnTypes
    <2>4. audit' \in [Calls -> Trails]
      BY <2>1, <2>3
    <2>5. reply' \in [Calls -> {"none", "refused", "unavailable", "result", "failed",
                                "internal"}]
      BY <2>2 DEF OwnTypes
    <2> QED
      BY <2>4, <2>5
  <1>5. /\ stage' \in [Calls -> {"idle", "simulating", "identity", "caps", "flags",
                                 "lists", "review", "awaiting", "forwarding", "done"}]
        /\ \A d \in Calls : d # c => /\ stage'[d] = stage[d] /\ audit'[d] = audit[d]
                                     /\ reply'[d] = reply[d]
    BY DEF Ended, OwnTypes
  <1> QED
    BY <1>1, <1>2, <1>3, <1>4, <1>5

(* An early call that is refused.                                           *)
LEMMA Refuses ==
  ASSUME PipelineInv, NEW c \in Calls, stage[c] \in Early, Alone(c), NEW event, NEW told,
         Ended(c, event, told),
         \/ event = "blocked" /\ told = "refused"
         \/ event = "unavailable" /\ told = "unavailable",
         upstream' = upstream, arrived'[c] <= Len(chain),
         request' \in [Calls -> Requests \cup {None}],
         arrived' \in [Calls -> 0 .. MaxVersion],
         sim' \in [Calls -> SimulationStatus \cup {"none"}],
         seen' \in [Calls -> Snapshot \cup {None}],
         verdict' \in [Calls -> {"none", "safe", "vetoed"}]
  PROVE  PipelineInv'
PROOF
  <1>1. /\ stage'[c] = "done" /\ AuditInv(c)'
        /\ stage' \in [Calls -> {"idle", "simulating", "identity", "caps", "flags",
                                 "lists", "review", "awaiting", "forwarding", "done"}]
        /\ audit' \in [Calls -> Trails]
        /\ reply' \in [Calls -> {"none", "refused", "unavailable", "result", "failed",
                                 "internal"}]
        /\ reply'[c] \in {told, "failed", "internal"}
    BY EndedTrail DEF PipelineInv
  <1>2. OwnTypes'
    BY <1>1 DEF PipelineInv, OwnTypes, Alone
  <1>3. reply'[c] # "result"
    BY <1>1
  <1> QED
    BY <1>1, <1>2, <1>3, Declines

(* The request arrives.                                                     *)
LEMMA ReceiveEffect ==
  ASSUME PipelineInv, NEW c \in Calls, NEW r \in Requests, Receive(c, r)
  PROVE  /\ stage[c] = "idle" /\ request'[c] = r /\ arrived'[c] = Len(chain)
         /\ request' \in [Calls -> Requests \cup {None}]
         /\ arrived' \in [Calls -> 0 .. MaxVersion]
         /\ sim' = sim /\ seen' = seen /\ verdict' = verdict
         /\ guarded' = guarded /\ chain' = chain /\ link' = link
         /\ UNCHANGED storeVars
         /\ \A d \in Calls : d # c => request'[d] = request[d] /\ arrived'[d] = arrived[d]
PROOF
  <1>1. OwnTypes
    BY DEF PipelineInv
  <1>2. Len(chain) \in 0 .. MaxVersion
    BY <1>1, Bounds DEF OwnTypes
  <1> QED
    BY <1>1, <1>2 DEF Receive, surroundings, OwnTypes

(* A request that is turned away at once.                                   *)
LEMMA ReceiveRefusedPreserves ==
  ASSUME PipelineInv, NEW c \in Calls, NEW r \in Requests,
         ReceiveBlocked(c, r) \/ ReceiveUnavailable(c, r)
  PROVE  PipelineInv'
PROOF
  <1>1. Receive(c, r) /\ upstream' = upstream
    BY DEF ReceiveBlocked, ReceiveUnavailable
  <1>2. PICK event \in {"blocked", "unavailable"}, told \in {"refused", "unavailable"} :
          /\ EndOutsideTry(c, <<"received">>, event, told)
          /\ \/ event = "blocked" /\ told = "refused"
             \/ event = "unavailable" /\ told = "unavailable"
    BY DEF ReceiveBlocked, ReceiveUnavailable
  <1>3. OwnTypes
    BY DEF PipelineInv
  <1>4. Ended(c, event, told)
    BY <1>2, EndOutsideEnds
  <1>5. Alone(c)
    BY <1>1, <1>2, <1>3, <1>4, ReceiveEffect, EndedTrail DEF Alone, Kept
  <1>6. arrived'[c] <= Len(chain)
    BY <1>1, <1>3, ReceiveEffect DEF OwnTypes
  <1> QED
    BY <1>1, <1>2, <1>3, <1>4, <1>5, <1>6, ReceiveEffect, Refuses DEF OwnTypes, Early

(* A request whose arrival cannot be logged.                                *)
LEMMA ReceiveUnauditedPreserves ==
  ASSUME PipelineInv, NEW c \in Calls, NEW r \in Requests, ReceiveUnaudited(c, r)
  PROVE  PipelineInv'
PROOF
  <1>1. /\ Receive(c, r) /\ upstream' = upstream /\ audit' = audit
        /\ stage' = [stage EXCEPT ![c] = "done"]
        /\ reply' = [reply EXCEPT ![c] = "internal"]
    BY DEF ReceiveUnaudited
  <1>2. OwnTypes
    BY DEF PipelineInv
  <1>3. Alone(c)
    BY <1>1, <1>2, ReceiveEffect DEF Alone, Kept, OwnTypes
  <1>4. OwnTypes'
    BY <1>1, <1>2, ReceiveEffect DEF OwnTypes
  <1>5. stage'[c] = "done" /\ reply'[c] = "internal" /\ audit'[c] = <<>>
    BY <1>1, <1>2, ReceiveEffect DEF OwnTypes, PipelineInv, CallInv, AuditInv
  <1>6. AuditInv(c)'
    BY <1>5 DEF AuditInv
  <1>7. arrived'[c] <= Len(chain)
    BY <1>1, <1>2, ReceiveEffect DEF OwnTypes
  <1> QED
    BY <1>1, <1>3, <1>4, <1>5, <1>6, <1>7, ReceiveEffect, Declines DEF Early

(* What a forwarding plan has looked at.                                    *)
LEMMA PlanExamines ==
  ASSUME NEW c \in Calls, NEW r \in Requests, PlanForwards(r), link = "up",
         request'[c] = r, guarded' = guarded
  PROVE  Examined(c)'
BY DEF PlanForwards, Visible, Examined

(* A request that enters the guarded pipeline.                              *)
LEMMA ReceiveGuardedPreserves ==
  ASSUME PipelineInv, NEW c \in Calls, NEW r \in Requests, ReceiveGuarded(c, r)
  PROVE  PipelineInv'
PROOF
  <1>1. /\ guarded /\ Receive(c, r) /\ PlanForwards(r) /\ link = "up"
        /\ upstream' = upstream /\ reply' = reply
        /\ audit' = [audit EXCEPT ![c] = <<"received">>]
    BY DEF ReceiveGuarded
  <1>0. /\ stage[c] = "idle" /\ request'[c] = r /\ arrived'[c] = Len(chain)
        /\ request' \in [Calls -> Requests \cup {None}]
        /\ arrived' \in [Calls -> 0 .. MaxVersion]
        /\ sim' = sim /\ seen' = seen /\ verdict' = verdict
        /\ guarded' = guarded /\ chain' = chain /\ link' = link
        /\ UNCHANGED storeVars
        /\ \A d \in Calls : d # c => request'[d] = request[d] /\ arrived'[d] = arrived[d]
    BY <1>1, ReceiveEffect
  <1>2. stage' = [stage EXCEPT ![c] =
                    IF r.class \in MutationClasses THEN "simulating" ELSE "identity"]
    BY DEF ReceiveGuarded
  <1>3. OwnTypes
    BY DEF PipelineInv
  <1>4. stage'[c] = IF r.class \in MutationClasses THEN "simulating" ELSE "identity"
    BY <1>2, <1>3 DEF OwnTypes
  <1>5. Alone(c)
    BY <1>0, <1>1, <1>2, <1>3 DEF Alone, Kept, OwnTypes
  <1>6. OwnTypes'
    <2>1. audit' \in [Calls -> Trails]
      <3>1. <<"received">> \in Trails /\ audit \in [Calls -> Trails]
        BY <1>3 DEF Trails, OwnTypes
      <3> QED
        BY <1>1, <3>1
    <2>2. stage' \in [Calls -> {"idle", "simulating", "identity", "caps", "flags",
                                "lists", "review", "awaiting", "forwarding", "done"}]
      BY <1>2, <1>3 DEF OwnTypes
    <2> QED
      BY <1>0, <1>1, <1>3, <2>1, <2>2 DEF OwnTypes
  <1>7. audit'[c] = <<"received">>
    BY <1>1, <1>3 DEF OwnTypes
  <1>8. GateInv(c)'
    <2>1. Examined(c)' /\ request'[c] = r /\ guarded'
      BY <1>0, <1>1, PlanExamines
    <2> QED
      BY <1>4, <2>1 DEF GateInv, Reading
  <1>9. stage[c] = "idle" /\ upstream[c] = "untouched" /\ pc[c] = "idle" /\ reply[c] = "none"
    BY <1>0 DEF PipelineInv, CallInv, EarlyInv, Early
  <1>10. ReadInv(c)'
    <2>1. arrived'[c] <= Len(chain') /\ chain' = chain /\ pc' = pc
      BY <1>0, <1>3 DEF OwnTypes, storeVars
    <2>2. ~ Underway(c)'
      BY <1>1, <1>4, <1>9, <2>1 DEF Underway
    <2> QED
      BY <1>4, <2>1, <2>2 DEF ReadInv, SeenInv, Informed
  <1>11. stage[c] \in Early /\ stage'[c] \in Early \ {"idle"}
    BY <1>4, <1>9 DEF Early, Reading
  <1> QED
    BY <1>1, <1>5, <1>6, <1>7, <1>8, <1>10, <1>11, GoesOn

(* Without the pipeline the request is forwarded at once.                   *)
LEMMA ReceiveDirectPreserves ==
  ASSUME PipelineInv, StoreFacts!StoreInv, NEW c \in Calls, NEW r \in Requests,
         ReceiveDirect(c, r)
  PROVE  PipelineInv'
PROOF
  <1>1. /\ ~ guarded /\ Receive(c, r) /\ PlanForwards(r) /\ link = "up"
        /\ reply' = reply
        /\ upstream' = [upstream EXCEPT ![c] = "requested"]
        /\ stage' = [stage EXCEPT ![c] = "forwarding"]
        /\ audit' = [audit EXCEPT ![c] = <<"received">>]
    BY DEF ReceiveDirect, Send
  <1>2. /\ stage[c] = "idle" /\ request'[c] = r /\ arrived'[c] = Len(chain)
        /\ request' \in [Calls -> Requests \cup {None}]
        /\ arrived' \in [Calls -> 0 .. MaxVersion]
        /\ sim' = sim /\ seen' = seen /\ verdict' = verdict
        /\ guarded' = guarded /\ chain' = chain /\ link' = link
        /\ UNCHANGED storeVars
        /\ \A d \in Calls : d # c => request'[d] = request[d] /\ arrived'[d] = arrived[d]
    BY <1>1, ReceiveEffect
  <1>3. OwnTypes
    BY DEF PipelineInv
  <1>4. /\ stage'[c] = "forwarding" /\ upstream'[c] = "requested"
        /\ audit'[c] = <<"received">> /\ reply'[c] = "none" /\ pc[c] = "idle"
    BY <1>1, <1>2, <1>3 DEF OwnTypes, PipelineInv, CallInv, EarlyInv, Early
  <1>5. OwnTypes'
    <2>1. audit' \in [Calls -> Trails]
      <3>1. <<"received">> \in Trails /\ audit \in [Calls -> Trails]
        BY <1>3 DEF Trails, OwnTypes
      <3> QED
        BY <1>1, <3>1
    <2>2. /\ stage' \in [Calls -> {"idle", "simulating", "identity", "caps", "flags",
                                   "lists", "review", "awaiting", "forwarding", "done"}]
          /\ upstream' \in [Calls -> {"untouched", "requested", "executed"}]
      BY <1>1, <1>3 DEF OwnTypes
    <2> QED
      BY <1>1, <1>2, <1>3, <2>1, <2>2 DEF OwnTypes
  <1>6. \A d \in Calls : d # c => Kept(d) /\ StoreKept(d)
    BY <1>1, <1>2, <1>3 DEF Kept, StoreKept, storeVars, OwnTypes
  <1>7. Examined(c)' /\ ~ guarded'
    BY <1>1, <1>2, PlanExamines
  <1>8. EarlyInv(c)' /\ GateInv(c)' /\ AuditInv(c)' /\ ReplyInv(c)'
    BY <1>4, <1>7 DEF EarlyInv, GateInv, AuditInv, ReplyInv, Early, Reading
  <1>9. ClearedInv(c)'
    BY <1>7 DEF ClearedInv, Cleared, Examined
  <1>10. ReadInv(c)'
    BY <1>2, <1>3, <1>4, <1>7 DEF ReadInv, OwnTypes, SeenInv, Informed
  <1>11. StoredInv(c)'
    <2>1. pc' = pc /\ promise' = promise
      BY <1>2 DEF storeVars
    <2>2. promise[c] = "none"
      BY <1>4, StoreViews
    <2> QED
      BY <1>4, <1>7, <2>1, <2>2 DEF StoredInv
  <1> QED
    BY <1>2, <1>3, <1>5, <1>6, <1>8, <1>9, <1>10, <1>11, OneCall, SameChain DEF CallInv

(* The evidence is there: consent decides.                                  *)
LEMMA SimulatePreserves ==
  ASSUME PipelineInv, NEW c \in Calls, Simulate(c)
  PROVE  PipelineInv'
PROOF
  <1>1. /\ stage[c] = "simulating" /\ guarded' = guarded /\ link' = link /\ chain' = chain
        /\ request' = request /\ arrived' = arrived /\ seen' = seen /\ verdict' = verdict
        /\ upstream' = upstream /\ UNCHANGED storeVars
        /\ \E status \in SimulationStatus : sim' = [sim EXCEPT ![c] = status]
    BY DEF Simulate, surroundings
  <1>2. OwnTypes /\ CallInv(c)
    BY DEF PipelineInv
  <1>3. audit[c] = <<"received">> /\ arrived[c] <= Len(chain)
    BY <1>1, <1>2 DEF CallInv, AuditInv, ReadInv
  <1>4. sim' \in [Calls -> SimulationStatus \cup {"none"}]
    BY <1>1, <1>2 DEF OwnTypes
  <1>5. CASE ~ Consented(c)
    <2>1. Ended(c, "blocked", "refused")
      BY <1>2, <1>3, <1>5, EndInTryEnds DEF Simulate, Block
    <2>2. Alone(c)
      BY <1>1, <1>2, <2>1, EndedTrail DEF Alone, Kept, OwnTypes
    <2> QED
      BY <1>1, <1>2, <1>3, <1>4, <2>1, <2>2, Refuses DEF OwnTypes, Early
  <1>6. CASE Consented(c)
    <2>1. stage' = [stage EXCEPT ![c] = "identity"] /\ audit' = audit /\ reply' = reply
      BY <1>6 DEF Simulate
    <2>2. Alone(c) /\ stage'[c] = "identity"
      BY <1>1, <1>2, <2>1 DEF Alone, Kept, OwnTypes
    <2>3. OwnTypes'
      BY <1>1, <1>2, <1>4, <2>1 DEF OwnTypes
    <2>4. GateInv(c)'
      BY <1>1, <1>2, <1>6, <2>2 DEF CallInv, GateInv, Examined, Consented, Early
    <2>5. ReadInv(c)'
      <3>1. ~ Underway(c)'
        BY <1>1, <1>2, <2>1, <2>2 DEF CallInv, EarlyInv, Underway, Early, storeVars
      <3> QED
        BY <1>1, <1>3, <2>2, <3>1 DEF ReadInv, SeenInv, Informed
    <2> QED
      BY <1>1, <1>2, <1>3, <2>1, <2>2, <2>3, <2>4, <2>5, GoesOn DEF Early, Reading
  <1> QED
    BY <1>5, <1>6

(***************************************************************************)
(* A part of the policy is read: from one stage of the reading to the next, *)
(* with now for what the handler knows after it.                            *)
(***************************************************************************)
ReadsOn(c, next, now) ==
  /\ guarded' = guarded /\ link' = link /\ chain' = chain
  /\ request' = request /\ arrived' = arrived /\ sim' = sim /\ verdict' = verdict
  /\ upstream' = upstream /\ audit' = audit /\ reply' = reply /\ UNCHANGED storeVars
  /\ stage[c] \in Reading /\ next \in {"caps", "flags", "lists"}
  /\ stage' = [stage EXCEPT ![c] = next]
  /\ seen' = [seen EXCEPT ![c] = now]

(* What each of the reads adds.                                             *)
WithIdentity == [version |-> Len(chain), frozen |-> chain[Len(chain)].frozen,
                 permits |-> TRUE, unread |-> Lists]
WithCaps(c)  == [seen[c] EXCEPT !.permits = request[c] \in chain[Len(chain)].caps]
WithFlags(c) == [seen[c] EXCEPT !.frozen = @ \/ chain[Len(chain)].frozen]
WithList(c, l) ==
  [seen[c] EXCEPT !.permits = @ /\ request[c] \in chain[Len(chain)].lists[l],
                  !.unread  = @ \ {l}]

LEMMA NewestIsPolicy ==
  ASSUME OwnTypes
  PROVE  chain[Len(chain)].frozen \in BOOLEAN /\ Len(chain) \in 1 .. MaxVersion
PROOF
  <1>1. Len(chain) \in 1 .. Len(chain) /\ chain \in Seq(Policies)
    BY Bounds DEF OwnTypes
  <1>2. chain[Len(chain)] \in Policies
    BY <1>1
  <1>3. chain[Len(chain)] \in Policy
    BY <1>2, PipelineConstants
  <1> QED
    BY <1>3 DEF Policy, OwnTypes

LEMMA IdentityRead ==
  ASSUME OwnTypes, NEW c \in Calls, ReadIdentity(c)
  PROVE  ReadsOn(c, "caps", WithIdentity) /\ stage[c] = "identity"
BY DEF ReadIdentity, ReadsOn, WithIdentity, Newest, Reading, surroundings

LEMMA CapsAreRead ==
  ASSUME OwnTypes, NEW c \in Calls, ReadCaps(c)
  PROVE  ReadsOn(c, "flags", WithCaps(c)) /\ stage[c] = "caps"
BY DEF ReadCaps, ReadsOn, WithCaps, Newest, Reading, surroundings

LEMMA FlagsAreRead ==
  ASSUME OwnTypes, NEW c \in Calls, ReadFlags(c)
  PROVE  ReadsOn(c, "lists", WithFlags(c)) /\ stage[c] = "flags"
BY DEF ReadFlags, ReadsOn, WithFlags, Newest, Reading, surroundings

LEMMA ListIsRead ==
  ASSUME OwnTypes, NEW c \in Calls, NEW l \in Lists, ReadList(c, l)
  PROVE  ReadsOn(c, "lists", WithList(c, l)) /\ stage[c] = "lists"
PROOF
  <1>1. stage' = [stage EXCEPT ![c] = "lists"]
    BY DEF ReadList, OwnTypes
  <1>2. seen' = [seen EXCEPT ![c] = WithList(c, l)]
    BY DEF ReadList, OwnTypes, WithList, Newest
  <1> QED
    BY <1>1, <1>2 DEF ReadList, ReadsOn, WithList, Newest, Reading, surroundings

(* What the handler knows keeps its shape.                                  *)
LEMMA IdentityShape ==
  ASSUME OwnTypes
  PROVE  /\ WithIdentity \in Snapshot /\ WithIdentity.version = Len(chain)
         /\ WithIdentity.frozen = chain[Len(chain)].frozen
         /\ WithIdentity.unread = Lists
BY NewestIsPolicy DEF WithIdentity, Snapshot

LEMMA CapsShape ==
  ASSUME NEW c \in Calls, seen[c] \in Snapshot
  PROVE  /\ WithCaps(c) \in Snapshot /\ WithCaps(c).version = seen[c].version
         /\ WithCaps(c).frozen = seen[c].frozen /\ WithCaps(c).unread = seen[c].unread
         /\ WithCaps(c).permits => request[c] \in chain[Len(chain)].caps
PROOF
  <1> DEFINE found == request[c] \in chain[Len(chain)].caps
  <1>1. found \in BOOLEAN
    OBVIOUS
  <1>2. WithCaps(c) = [seen[c] EXCEPT !.permits = found]
    BY DEF WithCaps
  <1> HIDE DEF found
  <1>3. /\ WithCaps(c) \in Snapshot /\ WithCaps(c).version = seen[c].version
        /\ WithCaps(c).frozen = seen[c].frozen /\ WithCaps(c).unread = seen[c].unread
        /\ WithCaps(c).permits = found
    BY <1>1, <1>2 DEF Snapshot
  <1> QED
    BY <1>3 DEF found

LEMMA FlagsShape ==
  ASSUME OwnTypes, NEW c \in Calls, seen[c] \in Snapshot
  PROVE  /\ WithFlags(c) \in Snapshot /\ WithFlags(c).version = seen[c].version
         /\ WithFlags(c).permits = seen[c].permits /\ WithFlags(c).unread = seen[c].unread
         /\ seen[c].frozen \/ chain[Len(chain)].frozen => WithFlags(c).frozen
BY NewestIsPolicy DEF WithFlags, Snapshot

LEMMA ListShape ==
  ASSUME NEW c \in Calls, seen[c] \in Snapshot, NEW l \in Lists
  PROVE  /\ WithList(c, l) \in Snapshot /\ WithList(c, l).version = seen[c].version
         /\ WithList(c, l).frozen = seen[c].frozen
         /\ WithList(c, l).unread = seen[c].unread \ {l}
         /\ WithList(c, l).permits =>
              seen[c].permits /\ request[c] \in chain[Len(chain)].lists[l]
BY DEF WithList, Snapshot

(* A read that keeps the version, and the freeze with it.                   *)
LEMMA ReadsOnPreserves ==
  ASSUME PipelineInv, NEW c \in Calls, NEW next, NEW now \in Snapshot, ReadsOn(c, next, now),
         arrived[c] <= now.version /\ now.version <= Len(chain),
         chain[now.version].frozen => now.frozen
  PROVE  PipelineInv'
PROOF
  <1>1. OwnTypes /\ CallInv(c)
    BY DEF PipelineInv
  <1>2. stage[c] \in Early \ {"idle"}
    BY DEF ReadsOn, Early, Reading
  <1>3. audit[c] = <<"received">> /\ arrived[c] <= Len(chain)
    BY <1>1, <1>2 DEF CallInv, AuditInv, ReadInv, Early, Reading
  <1>4. Alone(c) /\ stage'[c] = next /\ seen'[c] = now
    BY <1>1 DEF ReadsOn, Alone, Kept, OwnTypes
  <1>5. OwnTypes'
    BY <1>1 DEF ReadsOn, OwnTypes
  <1>6. GateInv(c)'
    BY <1>1, <1>2, <1>4 DEF ReadsOn, CallInv, GateInv, Examined, Early, Reading
  <1>7. ReadInv(c)'
    BY <1>3, <1>4 DEF ReadsOn, ReadInv, SeenInv
  <1> QED
    BY <1>1, <1>2, <1>3, <1>4, <1>5, <1>6, <1>7, GoesOn DEF ReadsOn, Early, Reading

(* Each of the reads does.                                                  *)
LEMMA ReadsPreserves ==
  ASSUME PipelineInv, NEW c \in Calls,
         \/ ReadIdentity(c) \/ ReadCaps(c) \/ ReadFlags(c)
         \/ \E l \in Lists : ReadList(c, l)
  PROVE  PipelineInv'
PROOF
  <1>1. OwnTypes /\ CallInv(c)
    BY DEF PipelineInv
  <1>2. CASE ReadIdentity(c)
    <2>1. ReadsOn(c, "caps", WithIdentity)
      BY <1>1, <1>2, IdentityRead
    <2>2. arrived[c] <= Len(chain) /\ Len(chain) \in Nat
      BY <1>1 DEF CallInv, ReadInv, OwnTypes
    <2> QED
      BY <1>1, <2>1, <2>2, IdentityShape, ReadsOnPreserves
  <1>3. ASSUME stage[c] \in {"caps", "flags", "lists"} PROVE SeenInv(c)
    BY <1>1, <1>3 DEF CallInv, ReadInv, Informed
  <1>4. CASE ReadCaps(c)
    <2>1. ReadsOn(c, "flags", WithCaps(c)) /\ SeenInv(c)
      BY <1>1, <1>3, <1>4, CapsAreRead
    <2> QED
      BY <2>1, CapsShape, ReadsOnPreserves DEF SeenInv
  <1>5. CASE ReadFlags(c)
    <2>1. ReadsOn(c, "lists", WithFlags(c)) /\ SeenInv(c)
      BY <1>1, <1>3, <1>5, FlagsAreRead
    <2> QED
      BY <1>1, <2>1, FlagsShape, ReadsOnPreserves DEF SeenInv
  <1>6. ASSUME NEW l \in Lists, ReadList(c, l) PROVE PipelineInv'
    <2>1. ReadsOn(c, "lists", WithList(c, l)) /\ SeenInv(c)
      BY <1>1, <1>3, <1>6, ListIsRead
    <2> QED
      BY <2>1, ListShape, ReadsOnPreserves DEF SeenInv
  <1> QED
    BY <1>2, <1>4, <1>5, <1>6

(* The snapshot is complete, and the deterministic decision made.           *)
LEMMA DecidePreserves ==
  ASSUME PipelineInv, NEW c \in Calls, Decide(c)
  PROVE  PipelineInv'
PROOF
  <1>1. /\ stage[c] = "lists" /\ guarded' = guarded /\ link' = link /\ chain' = chain
        /\ request' = request /\ arrived' = arrived /\ sim' = sim /\ verdict' = verdict
        /\ upstream' = upstream /\ UNCHANGED storeVars
        /\ seen' = seen /\ seen[c].unread = {}
    BY DEF Decide, surroundings
  <1>2. OwnTypes /\ CallInv(c)
    BY DEF PipelineInv
  <1>3. audit[c] = <<"received">> /\ arrived[c] <= Len(chain)
    BY <1>1, <1>2 DEF CallInv, AuditInv, ReadInv
  <1>4. SeenInv(c)
    BY <1>1, <1>2 DEF CallInv, ReadInv, Informed
  <1>5. stage[c] \in Early
    BY <1>1 DEF Early, Reading
  <1>6. CASE ~ DeterministicAllow(c)
    <2>1. Ended(c, "blocked", "refused")
      BY <1>2, <1>3, <1>6, EndInTryEnds DEF Decide, Block
    <2>2. Alone(c)
      BY <1>1, <1>2, <2>1, EndedTrail DEF Alone, Kept, OwnTypes
    <2> QED
      BY <1>1, <1>2, <1>3, <1>5, <2>1, <2>2, Refuses DEF OwnTypes
  <1>7. CASE DeterministicAllow(c)
    <2>1. stage' = [stage EXCEPT ![c] = "review"] /\ audit' = audit /\ reply' = reply
      BY <1>7 DEF Decide
    <2>2. Alone(c) /\ stage'[c] = "review"
      BY <1>1, <1>2, <2>1 DEF Alone, Kept, OwnTypes
    <2>3. OwnTypes'
      BY <1>1, <1>2, <2>1 DEF OwnTypes
    <2>4. guarded /\ Examined(c) /\ (request[c].class \in MutationClasses => request[c].consent)
      BY <1>1, <1>2 DEF CallInv, GateInv, Early, Reading
    <2>5. Judged(c)'
      BY <1>1, <1>7, <2>4 DEF DeterministicAllow, HasRequiredFields, Judged
    <2>6. GateInv(c)'
      BY <1>1, <2>2, <2>4, <2>5 DEF GateInv, Examined, Early, Reading
    <2>7. ReadInv(c)'
      BY <1>1, <1>3, <1>4 DEF ReadInv, SeenInv
    <2> QED
      BY <1>1, <1>2, <1>3, <1>5, <2>1, <2>2, <2>3, <2>6, <2>7, GoesOn DEF Early, Reading
  <1> QED
    BY <1>6, <1>7

(* A read that fails, and a review that vetoes, end the call.               *)
LEMMA BlockedPreserves ==
  ASSUME PipelineInv, NEW c \in Calls, ReadFails(c) \/ ReviewVetoed(c)
  PROVE  PipelineInv'
PROOF
  <1>1. /\ stage[c] \in Reading \cup {"review"}
        /\ guarded' = guarded /\ link' = link /\ chain' = chain
        /\ request' = request /\ arrived' = arrived /\ sim' = sim /\ seen' = seen
        /\ upstream' = upstream /\ UNCHANGED storeVars
        /\ EndInTry(c, "blocked", "refused")
    BY DEF ReadFails, ReviewVetoed, Block, surroundings
  <1>2. verdict' = verdict \/ verdict' = [verdict EXCEPT ![c] = "vetoed"]
    BY DEF ReadFails, ReviewVetoed
  <1>3. OwnTypes /\ CallInv(c)
    BY DEF PipelineInv
  <1>4. audit[c] = <<"received">> /\ arrived[c] <= Len(chain)
    BY <1>1, <1>3 DEF CallInv, AuditInv, ReadInv, Reading
  <1>5. Ended(c, "blocked", "refused")
    BY <1>1, <1>3, <1>4, EndInTryEnds
  <1>6. verdict' \in [Calls -> {"none", "safe", "vetoed"}]
        /\ \A d \in Calls : d # c => verdict'[d] = verdict[d]
    BY <1>2, <1>3 DEF OwnTypes
  <1>7. Alone(c)
    BY <1>1, <1>3, <1>5, <1>6, EndedTrail DEF Alone, Kept, OwnTypes
  <1> QED
    BY <1>1, <1>3, <1>4, <1>5, <1>6, <1>7, Refuses DEF OwnTypes, Early

-----------------------------------------------------------------------------
(* The forward. *)

(* What a safe verdict completes: all gates are behind the call.            *)
LEMMA SafeClears ==
  ASSUME PipelineInv, NEW c \in Calls, stage[c] = "review",
         guarded' = guarded, request' = request, sim' = sim, seen' = seen,
         verdict' = [verdict EXCEPT ![c] = "safe"]
  PROVE  guarded /\ Examined(c)' /\ Cleared(c)' /\ verdict'[c] = "safe"
PROOF
  <1>1. guarded /\ Examined(c) /\ Judged(c)
    BY DEF PipelineInv, CallInv, GateInv, Early
  <1>2. verdict'[c] = "safe"
    BY DEF PipelineInv, OwnTypes
  <1> QED
    BY <1>1, <1>2 DEF Examined, Judged, Cleared

(* A safe verdict on a class the store does not keep: sent at once, if      *)
(* there is still a connection.                                             *)
LEMMA ReviewSafeDirectPreserves ==
  ASSUME PipelineInv, StoreFacts!StoreInv, NEW c \in Calls, ReviewSafeDirect(c)
  PROVE  PipelineInv'
PROOF
  <1>1. /\ stage[c] = "review" /\ guarded' = guarded /\ link' = link /\ chain' = chain
        /\ request' = request /\ arrived' = arrived /\ sim' = sim /\ seen' = seen
        /\ audit' = audit /\ reply' = reply /\ UNCHANGED storeVars
        /\ verdict' = [verdict EXCEPT ![c] = "safe"]
        /\ stage' = [stage EXCEPT ![c] = "forwarding"]
        /\ request[c].class \notin IdempotentClasses
    BY DEF ReviewSafeDirect, surroundings
  <1>2. upstream' = upstream \/ upstream' = [upstream EXCEPT ![c] = "requested"]
    BY DEF ReviewSafeDirect, Send
  <1>3. OwnTypes /\ CallInv(c)
    BY DEF PipelineInv
  <1>4. OwnTypes'
    BY <1>1, <1>2, <1>3 DEF OwnTypes
  <1>5. \A d \in Calls : d # c => Kept(d) /\ StoreKept(d)
    BY <1>1, <1>2, <1>3 DEF Kept, StoreKept, storeVars, OwnTypes
  <1>6. /\ stage'[c] = "forwarding" /\ pc[c] = "idle" /\ promise[c] = "none"
        /\ reply[c] = "none" /\ audit[c] = <<"received">>
    BY <1>1, <1>3, StoreViews DEF OwnTypes, CallInv, EarlyInv, AuditInv, Early
  <1>7. guarded /\ Examined(c)' /\ Cleared(c)'
    BY <1>1, SafeClears
  <1>8. EarlyInv(c)' /\ GateInv(c)' /\ AuditInv(c)' /\ ReplyInv(c)' /\ ClearedInv(c)'
    BY <1>1, <1>6, <1>7 DEF EarlyInv, GateInv, AuditInv, ReplyInv, ClearedInv, Early, Reading
  <1>9. ReadInv(c)'
    BY <1>1, <1>3 DEF CallInv, ReadInv, SeenInv, Informed
  <1>10. StoredInv(c)'
    BY <1>1, <1>6 DEF StoredInv, storeVars
  <1> QED
    BY <1>1, <1>3, <1>4, <1>5, <1>8, <1>9, <1>10, OneCall, SameChain DEF CallInv

(* What runOnce does to the store, call by call.                            *)
LEMMA RunOnceEffect ==
  ASSUME StoreFacts!StoreInv, NEW c \in Calls, NEW k, Store!RunOnce(c, k)
  PROVE  /\ pc[c] = "idle" /\ pc'[c] # "idle" /\ key'[c] = k
         /\ promise'[c] \in {"queued", promise[c]}
         /\ pc'[c] = "returned" => answer'[c] = "ok"
         /\ \A d \in Calls : d # c => StoreKept(d)
PROOF
  <1>1. DOMAIN pc = Calls /\ DOMAIN promise = Calls /\ DOMAIN key = Calls
        /\ DOMAIN outcome = Calls /\ DOMAIN answer = Calls
    BY StoreViews
  <1>2. CASE Store!RunOnceFresh(c, k)
    BY <1>1, <1>2 DEF Store!RunOnceFresh, StoreKept
  <1>3. CASE Store!RunOnceJoin(c, k)
    BY <1>1, <1>3 DEF Store!RunOnceJoin, StoreKept
  <1>4. CASE Store!RunOnceSettled(c, k)
    BY <1>1, <1>4 DEF Store!RunOnceSettled, Store!Finish, StoreKept
  <1> QED
    BY <1>2, <1>3, <1>4 DEF Store!RunOnce

(* A safe verdict on an execution or an approval: to the store.             *)
LEMMA ReviewSafeOncePreserves ==
  ASSUME PipelineInv, StoreFacts!StoreInv, NEW c \in Calls, ReviewSafeOnce(c)
  PROVE  PipelineInv'
PROOF
  <1>1. /\ stage[c] = "review" /\ guarded' = guarded /\ link' = link /\ chain' = chain
        /\ request' = request /\ arrived' = arrived /\ sim' = sim /\ seen' = seen
        /\ audit' = audit /\ reply' = reply /\ upstream' = upstream
        /\ verdict' = [verdict EXCEPT ![c] = "safe"]
        /\ stage' = [stage EXCEPT ![c] = "awaiting"]
        /\ request[c].class \in IdempotentClasses
        /\ Store!RunOnce(c, request[c])
    BY DEF ReviewSafeOnce, surroundings, IdempotencyKey
  <1>2. OwnTypes /\ CallInv(c)
    BY DEF PipelineInv
  <1>3. /\ pc'[c] # "idle" /\ key'[c] = request[c]
        /\ promise'[c] \in {"queued", promise[c]}
        /\ pc'[c] = "returned" => answer'[c] = "ok"
        /\ \A d \in Calls : d # c => StoreKept(d)
    BY <1>1, RunOnceEffect
  <1>4. OwnTypes'
    BY <1>1, <1>2 DEF OwnTypes
  <1>5. \A d \in Calls : d # c => Kept(d)
    BY <1>1, <1>2 DEF Kept, OwnTypes
  <1>6. /\ stage'[c] = "awaiting" /\ pc[c] = "idle" /\ promise[c] = "none"
        /\ reply[c] = "none" /\ audit[c] = <<"received">> /\ upstream[c] = "untouched"
    BY <1>1, <1>2, StoreViews DEF OwnTypes, CallInv, EarlyInv, AuditInv, Early
  <1>7. guarded /\ Examined(c)' /\ Cleared(c)'
    BY <1>1, SafeClears
  <1>8. EarlyInv(c)' /\ GateInv(c)' /\ AuditInv(c)' /\ ReplyInv(c)' /\ ClearedInv(c)'
    BY <1>1, <1>6, <1>7 DEF EarlyInv, GateInv, AuditInv, ReplyInv, ClearedInv, Early, Reading
  <1>9. ReadInv(c)'
    BY <1>1, <1>2 DEF CallInv, ReadInv, SeenInv, Informed
  <1>10. StoredInv(c)'
    BY <1>1, <1>3, <1>6, <1>7 DEF StoredInv
  <1> QED
    BY <1>1, <1>2, <1>3, <1>4, <1>5, <1>8, <1>9, <1>10, OneCall, SameChain DEF CallInv

(* A step that leaves the handlers alone leaves their variables alone.      *)
Resting ==
  /\ guarded' = guarded /\ link' = link /\ chain' = chain
  /\ stage' = stage /\ request' = request /\ arrived' = arrived /\ sim' = sim
  /\ seen' = seen /\ verdict' = verdict /\ audit' = audit /\ reply' = reply

LEMMA RestingHolds == UNCHANGED <<surroundings, callVars>> => Resting
BY DEF surroundings, callVars, Resting

(* The microtask runs: the request leaves, if there is a connection.        *)
LEMMA StartForwardPreserves ==
  ASSUME PipelineInv, StoreFacts!StoreInv, NEW c \in Calls, StartForward(c)
  PROVE  PipelineInv'
PROOF
  <1>1. Resting
    BY RestingHolds DEF StartForward
  <1>2. /\ promise[c] = "queued" /\ promise' = [promise EXCEPT ![c] = "running"]
        /\ key' = key /\ pc' = pc /\ outcome' = outcome /\ answer' = answer
    BY DEF StartForward, Store!StartForward
  <1>3. upstream' = upstream \/ upstream' = [upstream EXCEPT ![c] = "requested"]
    BY DEF StartForward, Send
  <1>4. OwnTypes /\ CallInv(c)
    BY DEF PipelineInv
  <1>5. OwnTypes'
    BY <1>1, <1>3, <1>4 DEF OwnTypes, Resting
  <1>6. \A d \in Calls : d # c => Kept(d) /\ StoreKept(d)
    BY <1>1, <1>2, <1>3, <1>4, StoreViews DEF Kept, StoreKept, OwnTypes, Resting
  <1>7. pc[c] # "idle" /\ promise'[c] = "running" /\ Underway(c)
    BY <1>2, StoreViews DEF Underway
  <1>8. upstream[c] = "untouched"
    \* a promise that has not run has sent nothing
    BY <1>2, <1>4, <1>7 DEF CallInv, StoredInv, OwnTypes
  <1>9. EarlyInv(c)' /\ AuditInv(c)'
    BY <1>1, <1>2, <1>4, <1>7 DEF CallInv, EarlyInv, AuditInv, Resting
  <1>10. GateInv(c)' /\ ClearedInv(c)'
    BY <1>1, <1>4, <1>7 DEF CallInv, GateInv, ClearedInv, Examined, Judged, Cleared, Resting
  <1>11. ReadInv(c)'
    BY <1>1, <1>4, <1>7 DEF CallInv, ReadInv, Resting, SeenInv, Informed
  <1>12. StoredInv(c)'
    BY <1>1, <1>2, <1>4, <1>7 DEF CallInv, StoredInv, Resting
  <1>13. ReplyInv(c)'
    BY <1>1, <1>2, <1>4, <1>7, <1>8 DEF CallInv, ReplyInv, Resting
  <1> QED
    BY <1>1, <1>4, <1>5, <1>6, <1>9, <1>10, <1>11, <1>12, <1>13, OneCall, SameChain
       DEF CallInv, Resting

(* The forward settles; a result needs an execution.                        *)
LEMMA SettleForwardPreserves ==
  ASSUME PipelineInv, StoreFacts!StoreInv, NEW c \in Calls, SettleForward(c)
  PROVE  PipelineInv'
PROOF
  <1>1. Resting /\ upstream' = upstream
    BY RestingHolds DEF SettleForward, surroundings, callVars
  <1>2. /\ promise[c] = "running" /\ promise' = [promise EXCEPT ![c] = "settled"]
        /\ key' = key /\ pc' = pc /\ answer' = answer
        /\ \E o : outcome' = [outcome EXCEPT ![c] = o]
        /\ outcome'[c] = "ok" => upstream[c] = "executed"
    BY DEF SettleForward, Store!SettleForward
  <1>3. OwnTypes /\ CallInv(c)
    BY DEF PipelineInv
  <1>4. OwnTypes'
    BY <1>1, <1>3 DEF OwnTypes, Resting
  <1>5. \A d \in Calls : d # c => Kept(d) /\ StoreKept(d)
    BY <1>1, <1>2, StoreViews DEF Kept, StoreKept, Resting
  <1>6. promise'[c] = "settled"
    BY <1>2, StoreViews
  <1>7. EarlyInv(c)' /\ AuditInv(c)' /\ ReplyInv(c)'
    BY <1>1, <1>2, <1>3 DEF CallInv, EarlyInv, AuditInv, ReplyInv, Resting
  <1>8. GateInv(c)' /\ ClearedInv(c)'
    BY <1>1, <1>2, <1>3
       DEF CallInv, GateInv, ClearedInv, Examined, Judged, Cleared, Underway, Resting
  <1>9. ReadInv(c)'
    BY <1>1, <1>2, <1>3 DEF CallInv, ReadInv, Underway, Resting, SeenInv, Informed
  <1>10. StoredInv(c)'
    BY <1>1, <1>2, <1>3, <1>6 DEF CallInv, StoredInv, Resting
  <1> QED
    BY <1>1, <1>3, <1>4, <1>5, <1>7, <1>8, <1>9, <1>10, OneCall, SameChain
       DEF CallInv, Resting

(* What resuming does: somebody who waits in runOnce no longer does, and    *)
(* returns only with a result.                                              *)
LEMMA ResumesEffect ==
  ASSUME StoreFacts!StoreInv, NEW c \in Calls, Store!OwnerResumes(c) \/ Store!JoinerResumes(c)
  PROVE  /\ key' = key /\ promise' = promise /\ outcome' = outcome
         /\ \A d \in Calls : \/ pc'[d] = pc[d] /\ answer'[d] = answer[d]
                            \/ /\ pc[d] \in {"owner", "joiner"}
                               /\ pc'[d] \in {"returned", "threw"}
                               /\ pc'[d] = "returned" => answer'[d] = "ok"
PROOF
  <1>1. DOMAIN pc = Calls /\ DOMAIN answer = Calls
    BY StoreViews
  <1>2. CASE Store!OwnerResumes(c)
    BY <1>1, <1>2 DEF Store!OwnerResumes, Store!Finish
  <1>3. CASE Store!JoinerResumes(c)
    BY <1>1, <1>3 DEF Store!JoinerResumes, Store!Finish
  <1> QED
    BY <1>2, <1>3

(* A call is released from runOnce: owner or joiner, whoever's promise.     *)
LEMMA StoreResumesPreserves ==
  ASSUME PipelineInv, StoreFacts!StoreInv, NEW c \in Calls, StoreResumes(c)
  PROVE  PipelineInv'
PROOF
  <1>1. Resting /\ upstream' = upstream
    BY RestingHolds DEF StoreResumes, surroundings, callVars
  <1>2. /\ key' = key /\ promise' = promise /\ outcome' = outcome
        /\ \A d \in Calls : \/ pc'[d] = pc[d] /\ answer'[d] = answer[d]
                           \/ /\ pc[d] \in {"owner", "joiner"}
                              /\ pc'[d] \in {"returned", "threw"}
                              /\ pc'[d] = "returned" => answer'[d] = "ok"
    BY ResumesEffect DEF StoreResumes
  <1>3. OwnTypes
    BY DEF PipelineInv
  <1>4. OwnTypes'
    BY <1>1, <1>3 DEF OwnTypes, Resting
  <1>5. ASSUME NEW d \in Calls PROVE CallInv(d)'
    <2>1. CallInv(d)
      BY DEF PipelineInv
    <2>2. /\ pc'[d] = "idle" <=> pc[d] = "idle"
          /\ pc[d] = "returned" => pc'[d] = "returned"
          /\ pc'[d] = "returned" => answer'[d] = "ok"
      BY <1>2, <2>1 DEF CallInv, StoredInv
    <2>3. Underway(d)' <=> Underway(d)
      BY <1>1, <2>2 DEF Underway, Resting
    <2>4. EarlyInv(d)' /\ AuditInv(d)' /\ ReplyInv(d)'
      BY <1>1, <2>1, <2>2 DEF CallInv, EarlyInv, AuditInv, ReplyInv, Resting
    <2>5. GateInv(d)' /\ ClearedInv(d)'
      BY <1>1, <2>1, <2>3
         DEF CallInv, GateInv, ClearedInv, Examined, Judged, Cleared, Resting
    <2>6. ReadInv(d)'
      BY <1>1, <2>1, <2>3 DEF CallInv, ReadInv, Resting, SeenInv, Informed
    <2>7. StoredInv(d)'
      BY <1>1, <1>2, <2>1, <2>2 DEF CallInv, StoredInv, Resting
    <2> QED
      BY <2>4, <2>5, <2>6, <2>7 DEF CallInv
  <1> QED
    BY <1>4, <1>5 DEF PipelineInv

(* The wallet agent acts on what it was sent.                               *)
LEMMA UpstreamExecutesPreserves ==
  ASSUME PipelineInv, NEW c \in Calls, UpstreamExecutes(c)
  PROVE  PipelineInv'
PROOF
  <1>1. Resting /\ UNCHANGED storeVars
    BY RestingHolds DEF UpstreamExecutes
  <1>2. upstream[c] = "requested" /\ upstream' = [upstream EXCEPT ![c] = "executed"]
    BY DEF UpstreamExecutes
  <1>3. OwnTypes /\ CallInv(c)
    BY DEF PipelineInv
  <1>4. OwnTypes'
    BY <1>1, <1>2, <1>3 DEF OwnTypes, Resting
  <1>5. \A d \in Calls : d # c => Kept(d) /\ StoreKept(d)
    BY <1>1, <1>2, <1>3 DEF Kept, StoreKept, storeVars, OwnTypes, Resting
  <1>6. upstream'[c] = "executed" /\ Underway(c)
        /\ pc' = pc /\ key' = key /\ promise' = promise /\ outcome' = outcome
        /\ answer' = answer
    BY <1>1, <1>2, <1>3 DEF OwnTypes, Underway, storeVars
  <1>7. EarlyInv(c)' /\ AuditInv(c)' /\ ReplyInv(c)'
    BY <1>1, <1>2, <1>3, <1>6 DEF CallInv, EarlyInv, AuditInv, ReplyInv, Resting
  <1>8. GateInv(c)' /\ ClearedInv(c)'
    BY <1>1, <1>3, <1>6 DEF CallInv, GateInv, ClearedInv, Examined, Judged, Cleared, Resting
  <1>9. ReadInv(c)'
    BY <1>1, <1>3, <1>6 DEF CallInv, ReadInv, Resting, SeenInv, Informed
  <1>10. StoredInv(c)'
    BY <1>1, <1>2, <1>3, <1>6 DEF CallInv, StoredInv, Resting
  <1> QED
    BY <1>1, <1>3, <1>4, <1>5, <1>7, <1>8, <1>9, <1>10, OneCall, SameChain
       DEF CallInv, Resting

(* A forward has come to an end: a result only if there is one.             *)
LEMMA Finishes ==
  ASSUME PipelineInv, NEW c \in Calls, stage[c] \in {"awaiting", "forwarding"}, Alone(c),
         Ended(c, "forwarded", "result"),
         request' = request, arrived' = arrived, sim' = sim, seen' = seen,
         verdict' = verdict, upstream' = upstream,
         reply'[c] = "result" => pc[c] = "returned" \/ upstream[c] = "executed"
  PROVE  PipelineInv'
PROOF
  <1>1. /\ stage'[c] = "done" /\ AuditInv(c)'
        /\ stage' \in [Calls -> {"idle", "simulating", "identity", "caps", "flags",
                                 "lists", "review", "awaiting", "forwarding", "done"}]
        /\ audit' \in [Calls -> Trails]
        /\ reply' \in [Calls -> {"none", "refused", "unavailable", "result", "failed",
                                 "internal"}]
        /\ reply'[c] \in {"result", "failed", "internal"}
    BY EndedTrail DEF PipelineInv
  <1>2. OwnTypes /\ CallInv(c) /\ Underway(c)
    BY DEF PipelineInv, Underway
  <1>3. OwnTypes'
    BY <1>1, <1>2 DEF OwnTypes, Alone
  <1>4. \A d \in Calls : StoreKept(d)
    BY DEF Alone, storeVars, StoreKept
  <1>5. EarlyInv(c)' /\ GateInv(c)' /\ ReplyInv(c)'
    BY <1>1, <1>4 DEF EarlyInv, GateInv, ReplyInv, StoreKept, Early, Reading
  <1>6. ClearedInv(c)'
    BY <1>2 DEF CallInv, ClearedInv, Examined, Cleared, Alone
  <1>7. ReadInv(c)'
    BY <1>1, <1>2 DEF CallInv, ReadInv, Alone, SeenInv, Informed
  <1>8. StoredInv(c)'
    BY <1>1, <1>2, <1>4 DEF CallInv, StoredInv, StoreKept, Alone
  <1> QED
    BY <1>1, <1>2, <1>3, <1>4, <1>5, <1>6, <1>7, <1>8, OneCall, SameChain DEF Alone, CallInv

(* runOnce or the direct forward has returned or thrown.                    *)
LEMMA ReturnPreserves ==
  ASSUME PipelineInv, NEW c \in Calls, ReturnForwarded(c) \/ ReturnDirect(c)
  PROVE  PipelineInv'
PROOF
  <1>1. /\ stage[c] \in {"awaiting", "forwarding"}
        /\ guarded' = guarded /\ link' = link /\ chain' = chain
        /\ request' = request /\ arrived' = arrived /\ sim' = sim /\ seen' = seen
        /\ verdict' = verdict /\ upstream' = upstream /\ UNCHANGED storeVars
    BY DEF ReturnForwarded, ReturnDirect, surroundings
  <1>2. \/ /\ pc[c] = "returned" \/ upstream[c] = "executed"
           /\ EndInTry(c, "forwarded", "result")
        \/ EndInCatch(c)
    BY DEF ReturnForwarded, ReturnDirect
  <1>3. OwnTypes /\ audit[c] = <<"received">>
    BY <1>1 DEF PipelineInv, CallInv, AuditInv
  <1>4. Ended(c, "forwarded", "result")
    BY <1>2, <1>3, EndInTryEnds
  <1>5. Alone(c)
    BY <1>1, <1>4, <1>3, EndedTrail DEF Alone, Kept
  <1>6. reply'[c] = "result" => pc[c] = "returned" \/ upstream[c] = "executed"
    <2>1. CASE EndInCatch(c)
      BY <1>3, <2>1 DEF EndInCatch, EndOutsideTry, OwnTypes
    <2> QED
      BY <1>2, <2>1
  <1> QED
    BY <1>1, <1>4, <1>5, <1>6, Finishes

(* A policy is published: the chain grows.  The connection comes and goes.  *)
LEMMA SurroundingsPreserve ==
  ASSUME PipelineInv, PublishPolicy \/ Connect \/ Shutdown \/ UNCHANGED vars
  PROVE  PipelineInv'
PROOF
  <1>1. /\ guarded' = guarded /\ upstream' = upstream /\ UNCHANGED callVars
        /\ UNCHANGED storeVars
    BY DEF PublishPolicy, Connect, Shutdown, vars, callVars, storeVars
  <1>2. OwnTypes
    BY DEF PipelineInv
  <1>3. \/ chain' = chain
        \/ Len(chain) < MaxVersion /\ \E p \in Policies : chain' = Append(chain, p)
    BY DEF PublishPolicy, Connect, Shutdown, vars
  <1>4. chain' \in Seq(Policies) /\ Len(chain') \in 1 .. MaxVersion
    <2>1. chain \in Seq(Policies) /\ Len(chain) \in 1 .. MaxVersion
      BY <1>2 DEF OwnTypes
    <2>2. CASE chain' = chain
      BY <2>1, <2>2
    <2>3. CASE Len(chain) < MaxVersion /\ \E p \in Policies : chain' = Append(chain, p)
      <3>1. PICK p \in Policies : chain' = Append(chain, p)
        BY <2>3
      <3>2. chain' \in Seq(Policies) /\ Len(chain') = Len(chain) + 1
        BY <2>1, <3>1
      <3> QED
        BY <2>1, <2>3, <3>2, Bounds
    <2> QED
      BY <1>3, <2>2, <2>3
  <1>5. ChainGrows
    BY <1>2, <1>3 DEF OwnTypes, ChainGrows
  <1>6. link' \in {"down", "up", "closed"}
    BY <1>2 DEF PublishPolicy, Connect, Shutdown, vars, OwnTypes
  <1>7. OwnTypes'
    BY <1>1, <1>2, <1>4, <1>6 DEF OwnTypes, callVars
  <1>8. ASSUME NEW d \in Calls PROVE CallInv(d)'
    <2>1. Kept(d) /\ StoreKept(d)
      BY <1>1 DEF Kept, StoreKept, callVars, storeVars
    <2>2. CallInv(d)
      BY DEF PipelineInv
    <2> QED
      BY <1>1, <1>2, <1>5, <2>1, <2>2, KeptPreserves
  <1> QED
    BY <1>7, <1>8 DEF PipelineInv

(* The inductive invariant of the pipeline, on top of that of its store.    *)
THEOREM PipelineInvariance == Spec => []PipelineInv
PROOF
  <1>1. PipelineInv /\ StoreFacts!StoreInv /\ [Next]_vars => PipelineInv'
    <2> SUFFICES ASSUME PipelineInv, StoreFacts!StoreInv, [Next]_vars PROVE PipelineInv'
      OBVIOUS
    <2>1. ASSUME NEW c \in Calls, ReceiveCall(c) PROVE PipelineInv'
      BY <2>1, ReceiveUnauditedPreserves, ReceiveRefusedPreserves, ReceiveGuardedPreserves,
         ReceiveDirectPreserves DEF ReceiveCall
    <2>2. ASSUME NEW c \in Calls, Simulate(c) \/ Read(c) PROVE PipelineInv'
      BY <2>2, SimulatePreserves, ReadsPreserves, DecidePreserves, BlockedPreserves
         DEF Read
    <2>3. ASSUME NEW c \in Calls, Review(c) PROVE PipelineInv'
      BY <2>3, BlockedPreserves, ReviewSafeOncePreserves, ReviewSafeDirectPreserves DEF Review
    <2>4. ASSUME NEW c \in Calls, StartForward(c) \/ SettleForward(c) \/ StoreResumes(c)
          PROVE  PipelineInv'
      BY <2>4, StartForwardPreserves, SettleForwardPreserves, StoreResumesPreserves
    <2>5. ASSUME NEW c \in Calls, ReturnForwarded(c) \/ ReturnDirect(c) \/ UpstreamExecutes(c)
          PROVE  PipelineInv'
      BY <2>5, ReturnPreserves, UpstreamExecutesPreserves
    <2>6. CASE PublishPolicy \/ Connect \/ Shutdown \/ UNCHANGED vars
      BY <2>6, SurroundingsPreserve
    <2> QED
      BY <2>1, <2>2, <2>3, <2>4, <2>5, <2>6 DEF Next, Handler
  <1> QED
    BY PipelineInit, <1>1, StoreInvariantHolds, PTL DEF Spec

-----------------------------------------------------------------------------
(* What follows from it. *)

(* Every variable keeps its shape.                                          *)
THEOREM PipelineTypeCorrect == Spec => []TypeOK
PROOF
  <1>1. StoreFacts!TypeOK => Store!TypeOK
    BY DEF StoreFacts!TypeOK, Store!TypeOK, StoreFacts!Entry, Store!Entry,
       StoreFacts!Outcomes, Store!Outcomes
  <1>2. Trails \subseteq Seq({"received", "blocked", "unavailable", "forwarded",
                              "upstream_error"})
    BY DEF Trails
  <1>3. PipelineInv /\ StoreFacts!StoreInv => TypeOK
    <2> SUFFICES ASSUME PipelineInv, StoreFacts!StoreInv PROVE TypeOK
      OBVIOUS
    <2>1. OwnTypes /\ Store!TypeOK
      BY <1>1 DEF PipelineInv, StoreFacts!StoreInv
    <2>2. audit \in [Calls -> Seq({"received", "blocked", "unavailable", "forwarded",
                                   "upstream_error"})]
      BY <1>2, <2>1 DEF OwnTypes
    <2> QED
      BY <2>1, <2>2 DEF OwnTypes, TypeOK
  <1> QED
    BY <1>3, PipelineInvariance, StoreInvariantHolds, PTL

(* Nothing is sent and no result is given for a call that did not pass      *)
(* every gate itself, joined executions included.                           *)
THEOREM OnlyClearedCallsForwardHolds == Spec => []OnlyClearedCallsForward
PROOF
  <1>1. PipelineInv => OnlyClearedCallsForward
    BY DEF PipelineInv, CallInv, ClearedInv, Underway, OnlyClearedCallsForward, Contacted
  <1> QED
    BY <1>1, PipelineInvariance, PTL

(* A refusal is final: nothing of the call is left in the store's queue.    *)
THEOREM RefusalIsFinal == Spec => []RefusedNeverContacts
PROOF
  <1>1. PipelineInv /\ StoreFacts!StoreInv => RefusedNeverContacts
    BY StoreViews DEF PipelineInv, CallInv, ReplyInv, RefusedNeverContacts, Contacted
  <1> QED
    BY <1>1, PipelineInvariance, StoreInvariantHolds, PTL

(* A call that reaches the wallet agent while the newest policy is frozen   *)
(* arrived under an earlier one.                                            *)
THEOREM FreezeStopsNewCallsHolds == Spec => []FreezeStopsNewCalls
PROOF
  <1>1. PipelineInv => FreezeStopsNewCalls
    <2> SUFFICES ASSUME PipelineInv, guarded, NEW c \in Calls, Contacted(c),
                        chain[Len(chain)].frozen
                 PROVE  arrived[c] < Len(chain)
      BY DEF FreezeStopsNewCalls
    <2>1. OwnTypes /\ CallInv(c) /\ Underway(c)
      BY DEF PipelineInv, Underway, Contacted
    <2>2. ~ seen[c].frozen
      BY <2>1 DEF CallInv, ClearedInv, Cleared
    <2>3. /\ seen[c] \in Snapshot
          /\ arrived[c] <= seen[c].version /\ seen[c].version <= Len(chain)
          /\ chain[seen[c].version].frozen => seen[c].frozen
      BY <2>1 DEF CallInv, ReadInv, SeenInv
    <2>4. seen[c].version # Len(chain)
      BY <2>2, <2>3
    <2>5. seen[c].version \in Nat /\ arrived[c] \in Nat /\ Len(chain) \in Nat
      BY <2>1, <2>3, Bounds DEF OwnTypes, Snapshot
    <2> QED
      BY <2>3, <2>4, <2>5
  <1> QED
    BY <1>1, PipelineInvariance, PTL

(* Of all calls for one execution or approval at most one is sent.          *)
THEOREM AtMostOneForwardHolds == Spec => []AtMostOneForwardPerIntent
PROOF
  <1>1. PipelineInv /\ StoreFacts!StoreInv => AtMostOneForwardPerIntent
    <2> SUFFICES ASSUME PipelineInv, StoreFacts!StoreInv, guarded,
                        NEW c \in Calls, NEW d \in Calls, Contacted(c), Contacted(d),
                        request[c] = request[d],
                        request[c].class \in {"transaction_execute", "token_approval"}
                 PROVE  c = d
      BY DEF AtMostOneForwardPerIntent
    <2>1. promise[c] # "none" /\ promise[d] # "none"
      BY DEF PipelineInv, CallInv, StoredInv, Contacted, IdempotentClasses
    <2>2. key[c] = request[c] /\ key[d] = request[d]
      BY <2>1, StoreViews DEF PipelineInv, CallInv, StoredInv
    <2> QED
      BY <2>1, <2>2 DEF StoreFacts!StoreInv, StoreFacts!UniqueInv
  <1> QED
    BY <1>1, PipelineInvariance, StoreInvariantHolds, PTL

(* An answer of the store comes from an execution for the same request.     *)
LEMMA AnswerWasExecuted ==
  ASSUME PipelineInv, StoreFacts!StoreInv, NEW c \in Calls, pc[c] = "returned"
  PROVE  \E d \in Calls : request[d] = request[c] /\ upstream[d] = "executed"
PROOF
  <1>1. CallInv(c)
    BY DEF PipelineInv
  <1>2. key[c] = request[c] /\ answer[c] = "ok"
    BY <1>1 DEF CallInv, StoredInv
  <1>3. request[c] \in Requests /\ request[c] # None
    BY <1>1, PipelineConstants DEF CallInv, ClearedInv, Underway, Examined
  <1>4. store[key[c]].status \in {"done", "failed"} /\ store[key[c]].value = answer[c]
    BY <1>2, <1>3 DEF StoreFacts!StoreInv, StoreFacts!AnswerInv, StoreFacts!Finished
  <1>5. PICK p \in Calls : /\ key[p] = key[c] /\ promise[p] = "settled"
                           /\ store[key[c]].value = outcome[p]
    BY <1>2, <1>3, <1>4 DEF StoreFacts!StoreInv, StoreFacts!DoneInv
  <1>6. upstream[p] = "executed" /\ key[p] = request[p]
    BY <1>2, <1>4, <1>5, StoreViews DEF PipelineInv, CallInv, StoredInv
  <1> QED
    BY <1>2, <1>5, <1>6

(* So does a result the host is given.                                      *)
LEMMA ResultWasExecuted ==
  ASSUME PipelineInv, StoreFacts!StoreInv, NEW c \in Calls, reply[c] = "result"
  PROVE  \E d \in Calls : request[d] = request[c] /\ upstream[d] = "executed"
PROOF
  <1>1. pc[c] = "returned" \/ upstream[c] = "executed"
    BY DEF PipelineInv, CallInv, ReplyInv
  <1> QED
    BY <1>1, AnswerWasExecuted

(* The audit log does not lie.                                              *)
THEOREM AuditIsTruthfulHolds == Spec => []AuditIsTruthful
PROOF
  <1>1. PipelineInv /\ StoreFacts!StoreInv => AuditIsTruthful
    <2> SUFFICES ASSUME PipelineInv, StoreFacts!StoreInv, NEW c \in Calls
                 PROVE  /\ Logged(c, "forwarded") => reply[c] = "result"
                        /\ Logged(c, "blocked") => reply[c] = "refused"
                        /\ Logged(c, "unavailable") => reply[c] = "unavailable"
      BY ResultWasExecuted DEF AuditIsTruthful, Contacted, PipelineInv, CallInv, ReplyInv
    <2>1. AuditInv(c)
      BY DEF PipelineInv, CallInv
    <2> QED
      BY <2>1 DEF AuditInv, Logged
  <1> QED
    BY <1>1, PipelineInvariance, StoreInvariantHolds, PTL

(* One terminal event for a call that is over, none before.                 *)
THEOREM OneTerminalEventHolds == Spec => []OneTerminalEvent
PROOF
  <1>1. PipelineInv => OneTerminalEvent
    <2> SUFFICES ASSUME PipelineInv, NEW c \in Calls
                 PROVE  Len(audit[c]) = IF stage[c] = "idle" THEN 0
                                        ELSE IF stage[c] # "done" THEN 1
                                        ELSE IF reply[c] # "internal" THEN 2
                                        ELSE IF audit[c] = <<>> THEN 0 ELSE 1
      BY DEF OneTerminalEvent
    <2>1. AuditInv(c)
      BY DEF PipelineInv, CallInv
    <2> QED
      BY <2>1 DEF AuditInv
  <1> QED
    BY <1>1, PipelineInvariance, PTL

(* A request only ever leaves over a live connection, although the checks   *)
(* before it may have begun under an earlier one.                           *)
THEOREM SendsOnlyWhileConnectedHolds == Spec => SendsOnlyWhileConnected
PROOF
  <1>1. PipelineInv /\ [Next]_vars =>
          [\A c \in Calls : ~Contacted(c) /\ Contacted(c)' => link = "up"]_vars
    <2> SUFFICES ASSUME PipelineInv, Next, NEW c \in Calls, ~Contacted(c), Contacted(c)'
                 PROVE  link = "up"
      OBVIOUS
    <2>1. upstream \in [Calls -> {"untouched", "requested", "executed"}]
      BY DEF PipelineInv, OwnTypes
    <2>2. upstream'[c] # upstream[c] /\ upstream[c] = "untouched"
      BY DEF Contacted
    <2>3. ASSUME NEW d \in Calls, ReceiveCall(d) PROVE link = "up"
      BY <2>2, <2>3 DEF ReceiveCall, ReceiveUnaudited, ReceiveBlocked, ReceiveUnavailable,
         ReceiveGuarded, ReceiveDirect
    <2>4. ASSUME NEW d \in Calls, Handler(d) PROVE link = "up"
      BY <2>2, <2>4 DEF Handler, Simulate, Read, ReadIdentity, ReadCaps, ReadFlags, ReadList,
           ReadFails, Decide, Review,
         ReviewVetoed, ReviewSafeOnce, ReviewSafeDirect, StartForward, SettleForward,
         StoreResumes, ReturnForwarded, ReturnDirect, Send
    <2>5. ASSUME NEW d \in Calls, UpstreamExecutes(d) PROVE FALSE
      <3>1. upstream[d] = "requested" /\ upstream' = [upstream EXCEPT ![d] = "executed"]
        BY <2>5 DEF UpstreamExecutes
      <3> QED
        BY <2>1, <2>2, <3>1
    <2>6. ~ (PublishPolicy \/ Connect \/ Shutdown)
      BY <2>2 DEF PublishPolicy, Connect, Shutdown
    <2> QED
      BY <2>3, <2>4, <2>5, <2>6 DEF Next
  <1> QED
    BY <1>1, PipelineInvariance, PTL DEF Spec, SendsOnlyWhileConnected

-----------------------------------------------------------------------------
(* The pipeline implements Gatekeeper. *)

(***************************************************************************)
(* What the mapping of a step needs and no other property does: a call that *)
(* has not been received asks for nothing, a verdict is given once, every   *)
(* part of the policy that was read was in force at its version, the        *)
(* versions in the order of the reads, and whoever waits in the store has   *)
(* not been answered.                                                       *)
(***************************************************************************)

(* The caps a call has read, and the flags and the lists after them.        *)
CapsRead(c, s) ==
  \E k \in s.version .. Len(chain) : s.permits => request[c] \in chain[k].caps

ListsRead(c, s) ==
  \E k \in s.version .. Len(chain) : \E f \in k .. Len(chain) :
    /\ s.permits => request[c] \in chain[k].caps
    /\ ~ s.frozen => ~ chain[f].frozen
    /\ s.permits => \A l \in Lists \ s.unread :
                      \E w \in f .. Len(chain) : request[c] \in chain[w].lists[l]

ReadPast(c) ==
  /\ stage[c] \in {"caps", "flags"} => seen[c].unread = Lists
  /\ stage[c] = "flags" => CapsRead(c, seen[c])
  /\ stage[c] \in {"lists", "review"} => ListsRead(c, seen[c])

PastInv(c) ==
  /\ stage[c] = "idle" => request[c] = None
  /\ stage[c] \in Early => verdict[c] = "none"
  /\ ReadPast(c)
  /\ pc[c] \in {"owner", "joiner"} => stage[c] = "awaiting"

TraceInv == \A c \in Calls : PastInv(c)

(* The past of a call that a step leaves alone is what it was.              *)
LEMMA KeptReads ==
  ASSUME OwnTypes, NEW d \in Calls, CallInv(d), ReadPast(d), Kept(d), ChainGrows
  PROVE  ReadPast(d)'
PROOF
  <1>1. stage'[d] = stage[d] /\ seen'[d] = seen[d] /\ request'[d] = request[d]
    BY DEF Kept
  <1>2. ASSUME stage[d] \in Informed PROVE seen[d].version \in Nat /\ seen[d].version >= 1
    BY <1>2, Bounds DEF CallInv, ReadInv, SeenInv, Snapshot
  <1>3. ASSUME stage[d] = "flags" PROVE CapsRead(d, seen[d])'
    <2>1. seen[d].version \in Nat /\ seen[d].version >= 1
      BY <1>2, <1>3 DEF Informed
    <2>2. PICK k \in seen[d].version .. Len(chain) :
            seen[d].permits => request[d] \in chain[k].caps
      BY <1>3 DEF ReadPast, CapsRead
    <2>3. k \in 1 .. Len(chain) /\ k \in seen[d].version .. Len(chain')
      BY <2>1, <2>2 DEF ChainGrows
    <2>4. chain'[k] = chain[k]
      BY <2>3 DEF ChainGrows
    <2> QED
      BY <1>1, <2>2, <2>3, <2>4 DEF CapsRead
  <1>4. ASSUME stage[d] \in {"lists", "review"} PROVE ListsRead(d, seen[d])'
    <2>1. seen[d].version \in Nat /\ seen[d].version >= 1
      BY <1>2, <1>4 DEF Informed
    <2> DEFINE InForce(k, f) ==
                 /\ seen[d].permits => request[d] \in chain[k].caps
                 /\ ~ seen[d].frozen => ~ chain[f].frozen
                 /\ seen[d].permits =>
                      \A l \in Lists \ seen[d].unread :
                        \E w \in f .. Len(chain) : request[d] \in chain[w].lists[l]
    <2>7. PICK k \in seen[d].version .. Len(chain) : \E f \in k .. Len(chain) : InForce(k, f)
      BY <1>4 DEF ReadPast, ListsRead
    <2>2. PICK f \in k .. Len(chain) : InForce(k, f)
      BY <2>7
    <2>3. /\ k \in 1 .. Len(chain) /\ k \in seen[d].version .. Len(chain')
          /\ f \in 1 .. Len(chain) /\ f \in k .. Len(chain') /\ f \in Nat
      BY <2>1, <2>7, <2>2 DEF ChainGrows
    <2>4. chain'[k] = chain[k] /\ chain'[f] = chain[f]
      BY <2>3 DEF ChainGrows
    <2>5. ASSUME seen[d].permits, NEW l \in Lists \ seen[d].unread
          PROVE  \E w \in f .. Len(chain') : request[d] \in chain'[w].lists[l]
      <3>1. PICK w \in f .. Len(chain) : request[d] \in chain[w].lists[l]
        BY <2>2, <2>5
      <3>2. w \in 1 .. Len(chain) /\ w \in f .. Len(chain')
        BY <2>3, <3>1 DEF ChainGrows
      <3>3. chain'[w] = chain[w]
        BY <3>2 DEF ChainGrows
      <3> QED
        BY <3>1, <3>2, <3>3
    <2> QED
      BY <1>1, <2>2, <2>3, <2>4, <2>5 DEF ListsRead
  <1> QED
    BY <1>1, <1>3, <1>4 DEF ReadPast

LEMMA KeptPast ==
  ASSUME OwnTypes, NEW d \in Calls, CallInv(d), PastInv(d), Kept(d),
         pc'[d] = pc[d] \/ pc'[d] \in {"returned", "threw"}, ChainGrows
  PROVE  PastInv(d)'
PROOF
  <1>1. ReadPast(d)'
    BY KeptReads DEF PastInv
  <1> QED
    BY <1>1 DEF PastInv, Kept

(* A step that touches one handler keeps every past if it keeps that one's. *)
LEMMA AlonePast ==
  ASSUME PipelineInv, TraceInv, NEW c \in Calls, Alone(c), PastInv(c)'
  PROVE  TraceInv'
PROOF
  <1>1. OwnTypes /\ ChainGrows
    BY SameChain DEF PipelineInv, Alone
  <1>2. ASSUME NEW d \in Calls, d # c PROVE PastInv(d)'
    <2>1. CallInv(d) /\ PastInv(d) /\ Kept(d) /\ pc'[d] = pc[d]
      BY <1>2 DEF PipelineInv, TraceInv, Alone, storeVars
    <2> QED
      BY <1>1, <2>1, KeptPast
  <1> QED
    BY <1>2 DEF TraceInv

(* A call that has ended, or is forwarded without the store, has no past to *)
(* keep but that it does not wait in the store.                             *)
LEMMA NoPast ==
  ASSUME NEW c \in Calls, stage'[c] \in {"forwarding", "done"}, pc'[c] \notin {"owner", "joiner"}
  PROVE  PastInv(c)'
BY DEF PastInv, ReadPast, Early, Reading

(* What is left alone by a step of one handler.                             *)
LEMMA AloneViews ==
  ASSUME guarded' = guarded, upstream' = upstream,
         \A d \in Calls : verdict'[d] = "safe" <=> verdict[d] = "safe"
  PROVE  Passed' = Passed /\ Sent' = Sent /\ Executed' = Executed
BY DEF Passed, Sent, Executed, Contacted

(* A call that is answered on receipt, or enters the pipeline.              *)
LEMMA ReceiveAsks ==
  ASSUME PipelineInv, TraceInv, NEW c \in Calls, NEW r \in Requests,
         \/ ReceiveUnaudited(c, r) \/ ReceiveBlocked(c, r)
         \/ ReceiveUnavailable(c, r) \/ ReceiveGuarded(c, r)
  PROVE  Gate!Ask(c, r) /\ TraceInv'
PROOF
  <1>1. Receive(c, r) /\ upstream' = upstream
    BY DEF ReceiveUnaudited, ReceiveBlocked, ReceiveUnavailable, ReceiveGuarded
  <1>2. OwnTypes /\ CallInv(c) /\ PastInv(c)
    BY DEF PipelineInv, TraceInv
  <1>3. /\ stage[c] = "idle" /\ guarded' = guarded /\ chain' = chain /\ link' = link
        /\ sim' = sim /\ seen' = seen /\ verdict' = verdict /\ UNCHANGED storeVars
        /\ request' = [request EXCEPT ![c] = r]
        /\ arrived' = [arrived EXCEPT ![c] = Len(chain)]
    BY <1>1 DEF Receive, surroundings
  <1>4. request[c] = None /\ verdict[c] = "none" /\ reply[c] = "none" /\ pc[c] = "idle"
    BY <1>2, <1>3 DEF PastInv, CallInv, EarlyInv, Early
  <1>5. reply = [reply EXCEPT ![c] = "none"]
    BY <1>2, <1>4 DEF OwnTypes
  <1>6. \E told \in {"none", "refused", "unavailable", "internal"} :
          reply' = [reply EXCEPT ![c] = told]
    BY <1>5 DEF ReceiveUnaudited, ReceiveBlocked, ReceiveUnavailable, ReceiveGuarded,
       EndOutsideTry
  <1>7. Passed' = Passed /\ Sent' = Sent /\ Executed' = Executed
    BY <1>1, <1>3, AloneViews
  <1>8. Gate!Ask(c, r)
    BY <1>3, <1>4, <1>6, <1>7 DEF Gate!Ask
  <1>9. /\ \A d \in Calls : d # c => stage'[d] = stage[d] /\ audit'[d] = audit[d]
        /\ stage'[c] \in {"done", "simulating", "identity"}
    BY <1>2 DEF ReceiveUnaudited, ReceiveBlocked, ReceiveUnavailable, ReceiveGuarded,
       EndOutsideTry, OwnTypes
  <1>10. Alone(c)
    BY <1>1, <1>2, <1>3, <1>6, <1>9 DEF Alone, Kept, OwnTypes
  <1>11. PastInv(c)'
    BY <1>3, <1>4, <1>9 DEF PastInv, storeVars, ReadPast, CapsRead, ListsRead
  <1> QED
    BY <1>8, <1>10, <1>11, AlonePast

(* Without a policy contract the registry is the gate.                      *)
LEMMA ReceiveDirectAsks ==
  ASSUME PipelineInv, TraceInv, NEW c \in Calls, NEW r \in Requests, ReceiveDirect(c, r)
  PROVE  Gate!AskUnguarded(c, r) /\ TraceInv'
PROOF
  <1>1. OwnTypes /\ CallInv(c) /\ PastInv(c)
    BY DEF PipelineInv, TraceInv
  <1>2. /\ ~ guarded /\ link = "up" /\ PlanForwards(r) /\ reply' = reply
        /\ stage' = [stage EXCEPT ![c] = "forwarding"]
        /\ audit' = [audit EXCEPT ![c] = <<"received">>]
        /\ upstream' = [upstream EXCEPT ![c] = "requested"]
    BY DEF ReceiveDirect, Send
  <1>3. /\ stage[c] = "idle" /\ guarded' = guarded /\ chain' = chain /\ link' = link
        /\ sim' = sim /\ seen' = seen /\ verdict' = verdict /\ UNCHANGED storeVars
        /\ request' = [request EXCEPT ![c] = r]
        /\ arrived' = [arrived EXCEPT ![c] = Len(chain)]
    BY DEF ReceiveDirect, Receive, surroundings
  <1>4. request[c] = None /\ pc[c] = "idle" /\ upstream[c] = "untouched"
    BY <1>1, <1>3 DEF PastInv, CallInv, EarlyInv, Early
  <1>5. r.exposure = "visible" /\ r.default = "allow"
    BY <1>2 DEF PlanForwards, Visible
  <1>6. upstream'[c] = "requested" /\ \A d \in Calls : d # c => upstream'[d] = upstream[d]
    BY <1>1, <1>2 DEF OwnTypes
  <1>7. Passed' = Passed \cup {c} /\ Sent' = Sent \cup {c}
    BY <1>2, <1>3, <1>6 DEF Passed, Sent, Contacted
  <1>8. Executed' = Executed
    BY <1>4, <1>6 DEF Executed
  <1>9. Gate!AskUnguarded(c, r)
    BY <1>2, <1>3, <1>4, <1>5, <1>7, <1>8 DEF Gate!AskUnguarded
  <1>10. Alone(c)
    BY <1>1, <1>2, <1>3, <1>6 DEF Alone, Kept, OwnTypes
  <1>11. stage'[c] = "forwarding" /\ pc'[c] = "idle"
    BY <1>1, <1>2, <1>3, <1>4 DEF OwnTypes, storeVars
  <1> QED
    BY <1>9, <1>10, <1>11, NoPast, AlonePast

(* A handler that ends tells the host, and nothing else happens.            *)
LEMMA EndTells ==
  ASSUME PipelineInv, TraceInv, NEW c \in Calls, Alone(c), stage[c] \notin {"idle", "done"},
         pc[c] \notin {"owner", "joiner"},
         stage'[c] = "done", request' = request, arrived' = arrived, upstream' = upstream,
         \A d \in Calls : verdict'[d] = "safe" <=> verdict[d] = "safe",
         NEW told \in {"refused", "failed", "internal", "result"},
         reply' = [reply EXCEPT ![c] = told],
         told = "refused" => c \notin Passed,
         told = "result" => Gate!Earned(c)
  PROVE  Gate!Tell(c) /\ TraceInv'
PROOF
  <1>1. CallInv(c)
    BY DEF PipelineInv
  <1>2. reply[c] = "none" /\ request[c] # None
    <2>1. stage[c] \in Early \ {"idle"} \/ stage[c] \in {"awaiting", "forwarding"}
      BY DEF PipelineInv, OwnTypes, Early, Reading
    <2>2. Examined(c)
      BY <1>1, <2>1 DEF CallInv, GateInv, ClearedInv, Underway
    <2> QED
      BY <1>1, <2>2, PipelineConstants DEF CallInv, AuditInv, Examined
  <1>3. guarded' = guarded /\ chain' = chain /\ pc' = pc
    BY DEF Alone, storeVars
  <1>4. Passed' = Passed /\ Sent' = Sent /\ Executed' = Executed
    BY <1>3, AloneViews
  <1>5. Gate!Tell(c)
    BY <1>2, <1>3, <1>4 DEF Gate!Tell
  <1>6. PastInv(c)'
    BY <1>3, NoPast
  <1> QED
    BY <1>5, <1>6, AlonePast

(* A call is blocked before it passed.                                      *)
LEMMA BlockTells ==
  ASSUME PipelineInv, TraceInv, NEW c \in Calls, stage[c] \in Early \ {"idle"}, Block(c),
         guarded' = guarded, chain' = chain, link' = link, UNCHANGED storeVars,
         request' = request, arrived' = arrived, upstream' = upstream,
         \A d \in Calls : d # c => /\ sim'[d] = sim[d] /\ seen'[d] = seen[d]
                                   /\ verdict'[d] = verdict[d],
         verdict'[c] # "safe"
  PROVE  Gate!Tell(c) /\ TraceInv'
PROOF
  <1>1. OwnTypes /\ CallInv(c) /\ PastInv(c)
    BY DEF PipelineInv, TraceInv
  <1>2. guarded /\ verdict[c] = "none" /\ pc[c] = "idle" /\ audit[c] = <<"received">>
    BY <1>1 DEF PastInv, CallInv, GateInv, EarlyInv, AuditInv, Early
  <1>3. Ended(c, "blocked", "refused")
    BY <1>1, <1>2, EndInTryEnds DEF Block
  <1>4. PICK told \in {"refused", "failed", "internal"} : reply' = [reply EXCEPT ![c] = told]
    BY <1>3 DEF Ended
  <1>5. /\ stage'[c] = "done"
        /\ \A d \in Calls : d # c => /\ stage'[d] = stage[d] /\ audit'[d] = audit[d]
                                     /\ reply'[d] = reply[d]
    BY <1>1, <1>3, EndedTrail
  <1>6. Alone(c)
    BY <1>1, <1>5 DEF Alone, Kept
  <1>7. c \notin Passed
    BY <1>2 DEF Passed
  <1>8. \A d \in Calls : verdict'[d] = "safe" <=> verdict[d] = "safe"
    BY <1>2
  <1>9. stage[c] \notin {"idle", "done"}
    BY DEF Early, Reading
  <1> QED
    BY <1>2, <1>4, <1>5, <1>6, <1>7, <1>8, <1>9, EndTells

(* The simulation, and the consent gate behind it.                          *)
LEMMA SimulateTells ==
  ASSUME PipelineInv, TraceInv, NEW c \in Calls, Simulate(c)
  PROVE  [Gate!Tell(c)]_(Gate!vars) /\ TraceInv'
PROOF
  <1>1. /\ stage[c] = "simulating" /\ guarded' = guarded /\ link' = link /\ chain' = chain
        /\ request' = request /\ arrived' = arrived /\ seen' = seen /\ verdict' = verdict
        /\ upstream' = upstream /\ UNCHANGED storeVars
        /\ \E status : sim' = [sim EXCEPT ![c] = status]
    BY DEF Simulate, surroundings
  <1>2. OwnTypes /\ CallInv(c) /\ PastInv(c)
    BY DEF PipelineInv, TraceInv
  <1>3. verdict[c] = "none" /\ pc[c] = "idle" /\ stage[c] \in Early \ {"idle"}
    BY <1>1, <1>2 DEF PastInv, CallInv, EarlyInv, Early
  <1>4. \A d \in Calls : d # c => sim'[d] = sim[d]
    BY <1>1, <1>2 DEF OwnTypes
  <1>5. CASE Block(c)
    BY <1>1, <1>3, <1>4, <1>5, BlockTells
  <1>6. CASE stage' = [stage EXCEPT ![c] = "identity"] /\ audit' = audit /\ reply' = reply
    <2>1. Alone(c)
      BY <1>1, <1>2, <1>4, <1>6 DEF Alone, Kept, OwnTypes
    <2>2. PastInv(c)'
      BY <1>1, <1>2, <1>3, <1>6 DEF PastInv, OwnTypes, storeVars,
         ReadPast, CapsRead, ListsRead
    <2>3. UNCHANGED Gate!vars
      BY <1>1, <1>6, AloneViews DEF Gate!vars
    <2> QED
      BY <2>1, <2>2, <2>3, AlonePast
  <1> QED
    BY <1>5, <1>6 DEF Simulate

(* A read tells nobody anything.                                            *)
LEMMA ReadsOnStutters ==
  ASSUME PipelineInv, TraceInv, NEW c \in Calls, NEW next, NEW now, ReadsOn(c, next, now),
         ReadPast(c)'
  PROVE  UNCHANGED Gate!vars /\ TraceInv'
PROOF
  <1>1. OwnTypes /\ CallInv(c) /\ PastInv(c)
    BY DEF PipelineInv, TraceInv
  <1>2. stage[c] \in Early \ {"idle"} /\ next \notin {"idle", "awaiting"}
    BY DEF ReadsOn, Early, Reading
  <1>3. verdict[c] = "none" /\ pc[c] = "idle"
    BY <1>1, <1>2 DEF PastInv, CallInv, EarlyInv
  <1>4. Alone(c) /\ stage'[c] = next
    BY <1>1 DEF ReadsOn, Alone, Kept, OwnTypes
  <1>5. PastInv(c)'
    BY <1>1, <1>2, <1>3, <1>4 DEF ReadsOn, PastInv, storeVars
  <1>6. UNCHANGED Gate!vars
    BY AloneViews DEF ReadsOn, Gate!vars
  <1> QED
    BY <1>4, <1>5, <1>6, AlonePast

(* Each read finds what is in force now, after what was read before.        *)
LEMMA ReadsStutter ==
  ASSUME PipelineInv, TraceInv, NEW c \in Calls,
         \/ ReadIdentity(c) \/ ReadCaps(c) \/ ReadFlags(c)
         \/ \E l \in Lists : ReadList(c, l)
  PROVE  UNCHANGED Gate!vars /\ TraceInv'
PROOF
  <1>1. OwnTypes /\ CallInv(c) /\ ReadPast(c)
    BY DEF PipelineInv, TraceInv, PastInv
  <1>2. ASSUME NEW next, NEW now, ReadsOn(c, next, now)
        PROVE  /\ stage'[c] = next /\ seen'[c] = now
               /\ chain' = chain /\ request' = request
    BY <1>1, <1>2 DEF ReadsOn, OwnTypes
  <1>3. ASSUME stage[c] \in {"caps", "flags", "lists"}
        PROVE  /\ seen[c] \in Snapshot /\ seen[c].version \in Nat
               /\ Len(chain) \in seen[c].version .. Len(chain) /\ Len(chain) \in Nat
    <2>1. SeenInv(c)
      BY <1>1, <1>3 DEF CallInv, ReadInv, Informed
    <2> QED
      BY <1>1, <2>1, Bounds DEF SeenInv, Snapshot, OwnTypes
  <1>4. CASE ReadIdentity(c)
    <2>1. ReadsOn(c, "caps", WithIdentity)
      BY <1>1, <1>4, IdentityRead
    <2>2. ReadPast(c)'
      BY <1>1, <1>2, <2>1, IdentityShape DEF ReadPast
    <2> QED
      BY <2>1, <2>2, ReadsOnStutters
  <1>5. CASE ReadCaps(c)
    <2>1. ReadsOn(c, "flags", WithCaps(c)) /\ stage[c] = "caps"
      BY <1>1, <1>5, CapsAreRead
    <2>2. CapsRead(c, WithCaps(c)) /\ WithCaps(c).unread = Lists
      BY <1>1, <1>3, <2>1, CapsShape DEF CapsRead, ReadPast
    <2>3. ReadPast(c)'
      BY <1>2, <2>1, <2>2 DEF ReadPast, CapsRead
    <2> QED
      BY <2>1, <2>3, ReadsOnStutters
  <1>6. CASE ReadFlags(c)
    <2>1. ReadsOn(c, "lists", WithFlags(c)) /\ stage[c] = "flags"
      BY <1>1, <1>6, FlagsAreRead
    <2>2. ListsRead(c, WithFlags(c))
      <3>1. PICK k \in seen[c].version .. Len(chain) :
              seen[c].permits => request[c] \in chain[k].caps
        BY <1>1, <2>1 DEF ReadPast, CapsRead
      <3>2. Len(chain) \in k .. Len(chain)
        BY <1>3, <2>1, <3>1
      <3>3. /\ WithFlags(c).version = seen[c].version
            /\ WithFlags(c).permits = seen[c].permits /\ WithFlags(c).unread = Lists
            /\ ~ WithFlags(c).frozen => ~ chain[Len(chain)].frozen
        BY <1>1, <1>3, <2>1, FlagsShape DEF ReadPast
      <3> QED
        BY <3>1, <3>2, <3>3 DEF ListsRead
    <2>3. ReadPast(c)'
      BY <1>2, <2>1, <2>2 DEF ReadPast, ListsRead
    <2> QED
      BY <2>1, <2>3, ReadsOnStutters
  <1>7. ASSUME NEW l \in Lists, ReadList(c, l) PROVE UNCHANGED Gate!vars /\ TraceInv'
    <2>1. ReadsOn(c, "lists", WithList(c, l)) /\ stage[c] = "lists"
      BY <1>1, <1>7, ListIsRead
    <2>2. ListsRead(c, WithList(c, l))
      <3> DEFINE InForce(k, f) ==
                   /\ seen[c].permits => request[c] \in chain[k].caps
                   /\ ~ seen[c].frozen => ~ chain[f].frozen
                   /\ seen[c].permits =>
                        \A i \in Lists \ seen[c].unread :
                          \E w \in f .. Len(chain) : request[c] \in chain[w].lists[i]
      <3>5. PICK k \in seen[c].version .. Len(chain) : \E f \in k .. Len(chain) : InForce(k, f)
        BY <1>1, <2>1 DEF ReadPast, ListsRead
      <3>1. PICK f \in k .. Len(chain) : InForce(k, f)
        BY <3>5
      <3>2. Len(chain) \in f .. Len(chain)
        BY <1>3, <2>1, <3>5, <3>1
      <3>3. /\ WithList(c, l).version = seen[c].version
            /\ WithList(c, l).frozen = seen[c].frozen
            /\ WithList(c, l).unread = seen[c].unread \ {l}
            /\ WithList(c, l).permits =>
                 seen[c].permits /\ request[c] \in chain[Len(chain)].lists[l]
        BY <1>3, <2>1, ListShape
      <3>4. ASSUME WithList(c, l).permits, NEW i \in Lists \ WithList(c, l).unread
            PROVE  \E w \in f .. Len(chain) : request[c] \in chain[w].lists[i]
        <4>1. CASE i = l
          BY <3>2, <3>3, <3>4, <4>1
        <4>2. CASE i # l
          BY <3>1, <3>3, <3>4, <4>2
        <4> QED
          BY <4>1, <4>2
      <3> QED
        BY <3>1, <3>3, <3>4 DEF ListsRead
    <2>3. ReadPast(c)'
      <3>1. /\ stage'[c] = "lists" /\ seen'[c] = WithList(c, l)
            /\ chain' = chain /\ request' = request
        BY <1>2, <2>1
      <3> QED
        BY <2>2, <3>1 DEF ReadPast, ListsRead
    <2> QED
      BY <2>1, <2>3, ReadsOnStutters
  <1> QED
    BY <1>4, <1>5, <1>6, <1>7

(* The decision refuses the call, or leaves what was read as it is.         *)
LEMMA DecideTells ==
  ASSUME PipelineInv, TraceInv, NEW c \in Calls, Decide(c)
  PROVE  [Gate!Tell(c)]_(Gate!vars) /\ TraceInv'
PROOF
  <1>1. /\ stage[c] = "lists" /\ guarded' = guarded /\ link' = link /\ chain' = chain
        /\ request' = request /\ arrived' = arrived /\ sim' = sim /\ verdict' = verdict
        /\ upstream' = upstream /\ UNCHANGED storeVars /\ seen' = seen
    BY DEF Decide, surroundings
  <1>2. \/ /\ stage' = [stage EXCEPT ![c] = "review"]
           /\ audit' = audit /\ reply' = reply
        \/ Block(c)
    BY DEF Decide
  <1>3. OwnTypes /\ CallInv(c) /\ PastInv(c)
    BY DEF PipelineInv, TraceInv
  <1>4. verdict[c] = "none" /\ pc[c] = "idle" /\ stage[c] \in Early \ {"idle"}
    BY <1>1, <1>3 DEF PastInv, CallInv, EarlyInv, Early, Reading
  <1>5. CASE Block(c)
    BY <1>1, <1>4, <1>5, BlockTells
  <1>6. CASE /\ stage' = [stage EXCEPT ![c] = "review"]
             /\ audit' = audit /\ reply' = reply
    <2>1. stage'[c] = "review"
      BY <1>3, <1>6 DEF OwnTypes
    <2>2. ReadPast(c)'
      BY <1>1, <1>3, <2>1 DEF PastInv, ReadPast, ListsRead
    <2>3. PastInv(c)'
      BY <1>1, <1>3, <1>4, <2>1, <2>2 DEF PastInv, storeVars
    <2>4. Alone(c)
      BY <1>1, <1>3, <1>6 DEF Alone, Kept, OwnTypes
    <2>5. UNCHANGED Gate!vars
      BY <1>1, <1>6, AloneViews DEF Gate!vars
    <2> QED
      BY <2>3, <2>4, <2>5, AlonePast
  <1> QED
    BY <1>2, <1>5, <1>6

(* A read that fails and a review that does not clear the call block it.    *)
LEMMA BlockedTells ==
  ASSUME PipelineInv, TraceInv, NEW c \in Calls, ReadFails(c) \/ ReviewVetoed(c)
  PROVE  Gate!Tell(c) /\ TraceInv'
PROOF
  <1>1. /\ stage[c] \in Early \ {"idle"} /\ Block(c)
        /\ guarded' = guarded /\ link' = link /\ chain' = chain
        /\ request' = request /\ arrived' = arrived /\ sim' = sim /\ seen' = seen
        /\ upstream' = upstream /\ UNCHANGED storeVars
        /\ verdict' = verdict \/ verdict' = [verdict EXCEPT ![c] = "vetoed"]
    BY DEF ReadFails, ReviewVetoed, surroundings, Early, Reading
  <1>2. OwnTypes /\ PastInv(c)
    BY DEF PipelineInv, TraceInv
  <1>3. verdict'[c] # "safe" /\ \A d \in Calls : d # c => verdict'[d] = verdict[d]
    BY <1>1, <1>2 DEF PastInv, OwnTypes
  <1> QED
    BY <1>1, <1>3, BlockTells

(* The policy permits what a reviewed call asks for.                        *)
LEMMA ReviewedIsPermitted ==
  ASSUME PipelineInv, TraceInv, NEW c \in Calls, stage[c] = "review"
  PROVE  /\ Gate!Permitted(c) /\ guarded
         /\ request[c] \in {r \in Requests : /\ r.exposure = "visible" /\ r.evidence
                                             /\ r.class \in MutationClasses => r.consent}
PROOF
  <1>1. CallInv(c) /\ PastInv(c) /\ OwnTypes
    BY DEF PipelineInv, TraceInv
  <1>2. guarded /\ Examined(c) /\ Judged(c)
    BY <1>1 DEF CallInv, GateInv, Early
  <1>3. SeenInv(c)
    BY <1>1 DEF CallInv, ReadInv, Informed
  <1>4. seen[c].version \in Nat /\ arrived[c] \in Nat /\ Len(chain) \in Nat
    BY <1>1, <1>3, Bounds DEF OwnTypes, Snapshot, SeenInv
  <1>5. seen[c].version \in arrived[c] .. Len(chain) /\ ~ chain[seen[c].version].frozen
    BY <1>2, <1>3, <1>4 DEF Judged, SeenInv
  <1>6. ListsRead(c, seen[c])
    BY <1>1 DEF PastInv, ReadPast
  <1>7. Gate!Permitted(c)
    <2>1. seen[c].permits /\ ~ seen[c].frozen /\ Lists \ seen[c].unread = Lists
      BY <1>2 DEF Judged
    <2>2. PICK k \in seen[c].version .. Len(chain) : \E f \in k .. Len(chain) :
            /\ request[c] \in chain[k].caps /\ ~ chain[f].frozen
            /\ \A l \in Lists : \E w \in f .. Len(chain) : request[c] \in chain[w].lists[l]
      BY <1>6, <2>1 DEF ListsRead
    <2> QED
      BY <1>5, <2>2 DEF Gate!Permitted
  <1> QED
    BY <1>2, <1>7 DEF Examined, Judged

(* A safe verdict is the pass.                                              *)
LEMMA SafePasses ==
  ASSUME PipelineInv, TraceInv, NEW c \in Calls, stage[c] = "review",
         guarded' = guarded, verdict' = [verdict EXCEPT ![c] = "safe"]
  PROVE  Passed' = Passed \cup {c} /\ c \notin Passed /\ reply[c] = "none"
PROOF
  <1>1. CallInv(c) /\ PastInv(c) /\ OwnTypes
    BY DEF PipelineInv, TraceInv
  <1>2. guarded /\ verdict[c] = "none" /\ reply[c] = "none"
    BY <1>1 DEF CallInv, GateInv, EarlyInv, PastInv, Early
  <1>3. verdict'[c] = "safe" /\ \A d \in Calls : d # c => verdict'[d] = verdict[d]
    BY <1>1 DEF OwnTypes
  <1>4. Passed' = Passed \cup {c}
    BY <1>2, <1>3 DEF Passed
  <1> QED
    BY <1>2, <1>4 DEF Passed

(* To the store: passed, not sent yet.                                      *)
LEMMA ReviewSafeOncePasses ==
  ASSUME PipelineInv, StoreFacts!StoreInv, TraceInv, NEW c \in Calls, ReviewSafeOnce(c)
  PROVE  Gate!Pass(c) /\ TraceInv'
PROOF
  <1>1. /\ stage[c] = "review" /\ guarded' = guarded /\ link' = link /\ chain' = chain
        /\ request' = request /\ arrived' = arrived /\ sim' = sim /\ seen' = seen
        /\ audit' = audit /\ reply' = reply /\ upstream' = upstream
        /\ verdict' = [verdict EXCEPT ![c] = "safe"]
        /\ stage' = [stage EXCEPT ![c] = "awaiting"]
        /\ Store!RunOnce(c, request[c])
    BY DEF ReviewSafeOnce, surroundings, IdempotencyKey
  <1>2. OwnTypes /\ ChainGrows
    BY <1>1, SameChain DEF PipelineInv
  <1>3. Sent' = Sent /\ Executed' = Executed
    BY <1>1 DEF Sent, Executed, Contacted
  <1>4. Gate!Pass(c)
    BY <1>1, <1>3, ReviewedIsPermitted, SafePasses DEF Gate!Pass
  <1>5. ASSUME NEW d \in Calls, d # c PROVE PastInv(d)'
    <2>1. CallInv(d) /\ PastInv(d) /\ Kept(d)
      BY <1>1, <1>2, <1>5 DEF PipelineInv, TraceInv, Kept, OwnTypes
    <2>2. pc'[d] = pc[d]
      BY <1>1, <1>5, RunOnceEffect DEF StoreKept
    <2> QED
      BY <1>2, <2>1, <2>2, KeptPast
  <1>6. stage'[c] = "awaiting"
    BY <1>1, <1>2 DEF OwnTypes
  <1>7. PastInv(c)'
    BY <1>6 DEF PastInv, Early, Reading, ReadPast, CapsRead, ListsRead
  <1> QED
    BY <1>4, <1>5, <1>7 DEF TraceInv

(* Any other class: passed and sent, or passed and lost.                    *)
LEMMA ReviewSafeDirectPasses ==
  ASSUME PipelineInv, TraceInv, NEW c \in Calls, ReviewSafeDirect(c)
  PROVE  Gate!Pass(c) /\ TraceInv'
PROOF
  <1>1. /\ stage[c] = "review" /\ guarded' = guarded /\ link' = link /\ chain' = chain
        /\ request' = request /\ arrived' = arrived /\ sim' = sim /\ seen' = seen
        /\ audit' = audit /\ reply' = reply /\ UNCHANGED storeVars
        /\ verdict' = [verdict EXCEPT ![c] = "safe"]
        /\ stage' = [stage EXCEPT ![c] = "forwarding"]
        /\ request[c].class \notin IdempotentClasses
    BY DEF ReviewSafeDirect, surroundings
  <1>2. upstream' = upstream \/ upstream' = [upstream EXCEPT ![c] = "requested"]
    BY DEF ReviewSafeDirect, Send
  <1>3. OwnTypes /\ CallInv(c)
    BY DEF PipelineInv
  <1>4. upstream[c] = "untouched" /\ pc[c] = "idle"
    BY <1>1, <1>3 DEF CallInv, EarlyInv, Early
  <1>5. \A d \in Calls : d # c => upstream'[d] = upstream[d]
    BY <1>2, <1>3 DEF OwnTypes
  <1>6. upstream'[c] \in {"untouched", "requested"}
    BY <1>2, <1>3, <1>4 DEF OwnTypes
  <1>7. Executed' = Executed /\ (Sent' = Sent \/ Sent' = Sent \cup {c})
    BY <1>4, <1>5, <1>6 DEF Sent, Executed, Contacted
  <1>8. request[c] \notin {r \in Requests :
                             r.class \in {"transaction_execute", "token_approval"}}
    BY <1>1 DEF IdempotentClasses
  <1>9. Gate!Pass(c)
    BY <1>1, <1>7, <1>8, ReviewedIsPermitted, SafePasses DEF Gate!Pass
  <1>10. Alone(c)
    BY <1>1, <1>3, <1>5 DEF Alone, Kept, OwnTypes
  <1>11. stage'[c] = "forwarding" /\ pc'[c] = "idle"
    BY <1>1, <1>3, <1>4 DEF OwnTypes, storeVars
  <1> QED
    BY <1>9, <1>10, <1>11, NoPast, AlonePast

(* The first call for an intent is sent, if there is a connection.          *)
LEMMA StartForwardSends ==
  ASSUME PipelineInv, StoreFacts!StoreInv, TraceInv, NEW c \in Calls, StartForward(c)
  PROVE  [Gate!Send(c)]_(Gate!vars) /\ TraceInv'
PROOF
  <1>1. Resting
    BY RestingHolds DEF StartForward
  <1>2. /\ promise[c] = "queued" /\ promise' = [promise EXCEPT ![c] = "running"]
        /\ key' = key /\ pc' = pc
    BY DEF StartForward, Store!StartForward
  <1>3. OwnTypes /\ CallInv(c) /\ PastInv(c)
    BY DEF PipelineInv, TraceInv
  <1>4. pc[c] = "owner" /\ stage[c] = "awaiting"
    BY <1>2, <1>3 DEF StoreFacts!StoreInv, StoreFacts!PromiseInv, PastInv
  <1>5. /\ guarded /\ key[c] = request[c] /\ request[c].class \in IdempotentClasses
        /\ request[c] \in Requests /\ verdict[c] = "safe" /\ reply[c] = "none"
    BY <1>3, <1>4
       DEF CallInv, StoredInv, ClearedInv, Underway, Examined, Cleared, AuditInv
  <1>6. ASSUME NEW d \in Calls, Contacted(d) PROVE request[d] # request[c]
    \* the promise of a call that was sent has begun to run, c's has not
    <2> SUFFICES ASSUME request[d] = request[c] PROVE FALSE
      OBVIOUS
    <2>1. CallInv(d)
      BY DEF PipelineInv
    <2>2. promise[d] \in {"running", "settled"}
      BY <1>5, <1>6, <2>1 DEF CallInv, StoredInv, Contacted
    <2>3. pc[d] # "idle"
      BY <2>2, StoreViews
    <2>4. key[d] = request[d]
      BY <2>1, <2>3 DEF CallInv, StoredInv
    <2> QED
      BY <1>2, <1>5, <2>2, <2>4 DEF StoreFacts!StoreInv, StoreFacts!UniqueInv
  <1>7. upstream[c] = "untouched"
    BY <1>6, <1>3 DEF Contacted
  <1>8. Passed' = Passed
    BY <1>1, <1>5 DEF Resting, Passed
  <1>9. TraceInv'
    BY <1>1, <1>2 DEF TraceInv, PastInv, Resting, ReadPast, CapsRead, ListsRead
  <1>10. CASE link = "up"
    <2>1. upstream' = [upstream EXCEPT ![c] = "requested"]
      BY <1>10 DEF StartForward, Send
    <2>2. upstream'[c] = "requested" /\ \A d \in Calls : d # c => upstream'[d] = upstream[d]
      BY <1>3, <2>1 DEF OwnTypes
    <2>3. Sent' = Sent \cup {c} /\ Executed' = Executed
      BY <1>7, <2>2 DEF Sent, Executed, Contacted
    <2>4. c \in Passed
      BY <1>5 DEF Passed
    <2>5. request[c] \in {r \in Requests :
                            r.class \in {"transaction_execute", "token_approval"}}
      BY <1>5 DEF IdempotentClasses
    <2>6. \A d \in Sent : request[d] # request[c]
      BY <1>6 DEF Sent
    <2>7. /\ guarded' = guarded /\ chain' = chain /\ request' = request
          /\ arrived' = arrived /\ reply' = reply
      BY <1>1 DEF Resting
    <2>8. Gate!Send(c)
      BY <1>5, <1>8, <2>3, <2>4, <2>5, <2>6, <2>7 DEF Gate!Send
    <2> QED
      BY <1>9, <2>8
  <1>11. CASE link # "up"
    <2>1. upstream' = upstream
      BY <1>11 DEF StartForward, Send
    <2> QED
      BY <1>1, <1>9, <2>1, AloneViews DEF Gate!vars, Resting
  <1> QED
    BY <1>10, <1>11

(* What goes on inside the store is not seen from outside.                  *)
LEMMA StoreStutters ==
  ASSUME PipelineInv, StoreFacts!StoreInv, TraceInv, NEW c \in Calls,
         SettleForward(c) \/ StoreResumes(c)
  PROVE  UNCHANGED Gate!vars /\ TraceInv'
PROOF
  <1>1. Resting /\ upstream' = upstream
    BY RestingHolds DEF SettleForward, StoreResumes, surroundings, callVars
  <1>2. UNCHANGED Gate!vars
    BY <1>1, AloneViews DEF Gate!vars, Resting
  <1>3. \A d \in Calls : pc'[d] = pc[d] \/ pc'[d] \in {"returned", "threw"}
    <2>1. CASE SettleForward(c)
      BY <2>1 DEF SettleForward, Store!SettleForward
    <2>2. CASE StoreResumes(c)
      BY <2>2, ResumesEffect DEF StoreResumes
    <2> QED
      BY <2>1, <2>2
  <1>4. TraceInv'
    BY <1>1, <1>3 DEF TraceInv, PastInv, Resting, ReadPast, CapsRead, ListsRead
  <1> QED
    BY <1>2, <1>4

(* The wallet agent acts only on what it was sent.                          *)
LEMMA UpstreamExecutesIts ==
  ASSUME PipelineInv, TraceInv, NEW c \in Calls, UpstreamExecutes(c)
  PROVE  Gate!Execute(c) /\ TraceInv'
PROOF
  <1>1. Resting /\ UNCHANGED storeVars
    BY RestingHolds DEF UpstreamExecutes
  <1>2. upstream[c] = "requested" /\ upstream' = [upstream EXCEPT ![c] = "executed"]
    BY DEF UpstreamExecutes
  <1>3. upstream'[c] = "executed" /\ \A d \in Calls : d # c => upstream'[d] = upstream[d]
    BY <1>2 DEF PipelineInv, OwnTypes
  <1>4. \A d \in Calls : Contacted(d)' <=> Contacted(d)
    BY <1>2, <1>3 DEF Contacted
  <1>5. Passed' = Passed /\ Sent' = Sent
    BY <1>1, <1>4 DEF Passed, Sent, Resting
  <1>6. Executed' = Executed \cup {c} /\ c \in Sent \ Executed
    BY <1>2, <1>3 DEF Executed, Sent, Contacted
  <1>7. Gate!Execute(c)
    BY <1>1, <1>5, <1>6 DEF Gate!Execute, Resting
  <1>8. TraceInv'
    BY <1>1 DEF TraceInv, PastInv, Resting, storeVars, ReadPast, CapsRead, ListsRead
  <1> QED
    BY <1>7, <1>8

(* A result returned by the store or by the wallet agent is earned.         *)
LEMMA ReturnIsEarned ==
  ASSUME PipelineInv, StoreFacts!StoreInv, NEW c \in Calls,
         pc[c] = "returned" \/ upstream[c] = "executed"
  PROVE  Gate!Earned(c)
PROOF
  <1>1. CallInv(c)
    BY DEF PipelineInv
  <1>2. Cleared(c) /\ Examined(c)
    BY <1>1 DEF CallInv, ClearedInv, Underway
  <1>3. c \in Passed
    BY <1>1, <1>2 DEF CallInv, StoredInv, Cleared, Passed, Contacted
  <1>4. CASE upstream[c] = "executed"
    BY <1>3, <1>4 DEF Gate!Earned, Executed
  <1>5. CASE pc[c] = "returned"
    <2>1. guarded /\ request[c].class \in IdempotentClasses
      BY <1>1, <1>5 DEF CallInv, StoredInv
    <2>2. \E d \in Executed : request[d] = request[c]
      BY <1>5, AnswerWasExecuted DEF Executed
    <2>3. request[c] \in {r \in Requests :
                            r.class \in {"transaction_execute", "token_approval"}}
      BY <1>2, <2>1 DEF Examined, IdempotentClasses
    <2> QED
      BY <1>3, <2>1, <2>2, <2>3 DEF Gate!Earned
  <1> QED
    BY <1>4, <1>5

(* A forward that has ended is told as it ended.                            *)
LEMMA ReturnTells ==
  ASSUME PipelineInv, StoreFacts!StoreInv, TraceInv, NEW c \in Calls,
         ReturnForwarded(c) \/ ReturnDirect(c)
  PROVE  Gate!Tell(c) /\ TraceInv'
PROOF
  <1>1. /\ stage[c] \in {"awaiting", "forwarding"}
        /\ guarded' = guarded /\ link' = link /\ chain' = chain
        /\ request' = request /\ arrived' = arrived /\ sim' = sim /\ seen' = seen
        /\ verdict' = verdict /\ upstream' = upstream /\ UNCHANGED storeVars
    BY DEF ReturnForwarded, ReturnDirect, surroundings
  <1>2. \/ /\ pc[c] = "returned" \/ upstream[c] = "executed"
           /\ EndInTry(c, "forwarded", "result")
        \/ EndInCatch(c)
    BY DEF ReturnForwarded, ReturnDirect
  <1>3. OwnTypes /\ audit[c] = <<"received">> /\ PastInv(c)
    BY <1>1 DEF PipelineInv, CallInv, AuditInv, TraceInv
  <1>4. Ended(c, "forwarded", "result")
    BY <1>2, <1>3, EndInTryEnds
  <1>5. stage'[c] = "done" /\ Alone(c)
    BY <1>1, <1>3, <1>4, EndedTrail DEF Alone, Kept
  <1>6. pc[c] \notin {"owner", "joiner"}
    BY <1>3 DEF ReturnForwarded, ReturnDirect, PastInv
  <1>7. \/ \E told \in {"failed", "internal"} : reply' = [reply EXCEPT ![c] = told]
        \/ /\ reply' = [reply EXCEPT ![c] = "result"]
           /\ pc[c] = "returned" \/ upstream[c] = "executed"
    BY <1>2 DEF EndInTry, EndInCatch, EndOutsideTry
  <1>8. PICK told \in {"failed", "internal", "result"} :
               /\ reply' = [reply EXCEPT ![c] = told]
               /\ told = "result" => pc[c] = "returned" \/ upstream[c] = "executed"
    BY <1>7
  <1>9. told = "result" => Gate!Earned(c)
    BY <1>8, ReturnIsEarned
  <1>10. stage[c] \notin {"idle", "done"}
    BY <1>1
  <1> QED
    BY <1>1, <1>5, <1>6, <1>8, <1>9, <1>10, EndTells

(* The owner publishes; the connection comes and goes unseen.               *)
LEMMA SurroundingsPublish ==
  ASSUME PipelineInv, TraceInv, PublishPolicy \/ Connect \/ Shutdown \/ UNCHANGED vars
  PROVE  [Gate!Publish]_(Gate!vars) /\ TraceInv'
PROOF
  <1>1. /\ guarded' = guarded /\ upstream' = upstream /\ UNCHANGED callVars
        /\ UNCHANGED storeVars
    BY DEF PublishPolicy, Connect, Shutdown, vars, callVars, storeVars
  <1>2. /\ request' = request /\ arrived' = arrived /\ reply' = reply /\ pc' = pc
        /\ Passed' = Passed /\ Sent' = Sent /\ Executed' = Executed
    BY <1>1, AloneViews DEF callVars, storeVars
  <1>3. chain' = chain \/ \E p \in Policies : chain' = Append(chain, p)
    BY DEF PublishPolicy, Connect, Shutdown, vars
  <1>4. [Gate!Publish]_(Gate!vars)
    BY <1>1, <1>2, <1>3 DEF Gate!Publish, Gate!vars
  <1>5. OwnTypes /\ ChainGrows
    BY <1>3 DEF PipelineInv, OwnTypes, ChainGrows
  <1>6. ASSUME NEW d \in Calls PROVE PastInv(d)'
    <2>1. CallInv(d) /\ PastInv(d) /\ Kept(d)
      BY <1>1 DEF PipelineInv, TraceInv, Kept, callVars
    <2> QED
      BY <1>2, <1>5, <2>1, KeptPast
  <1> QED
    BY <1>4, <1>6 DEF TraceInv

(* The gate begins as the pipeline does.                                    *)
LEMMA GateInit == Init => Gate!Init /\ TraceInv
PROOF
  <1> SUFFICES ASSUME Init PROVE Gate!Init /\ TraceInv
    OBVIOUS
  <1>1. \E p \in Policies : chain = <<p>>
    BY DEF Init
  <1>2. guarded \in BOOLEAN
    BY PipelineConstants DEF Init
  <1>3. Passed = {} /\ Sent = {} /\ Executed = {}
    BY DEF Init, Passed, Sent, Executed, Contacted
  <1>4. Gate!Init
    BY <1>1, <1>2, <1>3 DEF Init, Gate!Init
  <1>5. ASSUME NEW c \in Calls PROVE PastInv(c)
    BY DEF Init, Store!Init, PastInv, ReadPast, CapsRead, ListsRead
  <1> QED
    BY <1>4, <1>5 DEF TraceInv

(* Every step of the pipeline is one of the gate, or none.                  *)
LEMMA GateStep ==
  ASSUME PipelineInv, StoreFacts!StoreInv, TraceInv, [Next]_vars
  PROVE  [Gate!Next]_(Gate!vars) /\ TraceInv'
PROOF
  <1>1. ASSUME NEW c \in Calls, ReceiveCall(c) PROVE Gate!Next /\ TraceInv'
    BY <1>1, ReceiveAsks, ReceiveDirectAsks DEF ReceiveCall, Gate!Next
  <1>2. ASSUME NEW c \in Calls, Simulate(c) \/ Read(c) \/ ReviewVetoed(c)
        PROVE  [Gate!Next]_(Gate!vars) /\ TraceInv'
    <2>1. [Gate!Tell(c)]_(Gate!vars) /\ TraceInv'
      BY <1>2, SimulateTells, ReadsStutter, DecideTells, BlockedTells DEF Read
    <2> QED
      BY <2>1 DEF Gate!Next
  <1>3. ASSUME NEW c \in Calls, ReviewSafeOnce(c) \/ ReviewSafeDirect(c)
        PROVE  Gate!Next /\ TraceInv'
    BY <1>3, ReviewSafeOncePasses, ReviewSafeDirectPasses DEF Gate!Next
  <1>4. ASSUME NEW c \in Calls, StartForward(c) \/ SettleForward(c) \/ StoreResumes(c)
        PROVE  [Gate!Next]_(Gate!vars) /\ TraceInv'
    <2>1. [Gate!Send(c)]_(Gate!vars) /\ TraceInv'
      BY <1>4, StartForwardSends, StoreStutters
    <2> QED
      BY <2>1 DEF Gate!Next
  <1>5. ASSUME NEW c \in Calls, ReturnForwarded(c) \/ ReturnDirect(c) \/ UpstreamExecutes(c)
        PROVE  Gate!Next /\ TraceInv'
    BY <1>5, ReturnTells, UpstreamExecutesIts DEF Gate!Next
  <1>6. CASE PublishPolicy \/ Connect \/ Shutdown \/ UNCHANGED vars
    BY <1>6, SurroundingsPublish DEF Gate!Next
  <1> QED
    BY <1>1, <1>2, <1>3, <1>4, <1>5, <1>6 DEF Next, Handler, Review

(* Whatever the handlers, the store, the owner and the wallet agent do, in  *)
(* any order, the gate keeps its promise.                                   *)
THEOREM GatekeeperImplemented == Spec => ImplementsGatekeeper
PROOF
  <1>1. Spec => [](PipelineInv /\ StoreFacts!StoreInv)
    BY PipelineInvariance, StoreInvariantHolds, PTL
  <1>2. PipelineInv /\ StoreFacts!StoreInv /\ TraceInv /\ [Next]_vars
          => [Gate!Next]_(Gate!vars) /\ TraceInv'
    BY GateStep
  <1>3. Spec => []TraceInv
    BY <1>1, <1>2, GateInit, PTL DEF Spec
  <1> QED
    BY <1>1, <1>2, <1>3, GateInit, PTL DEF Spec, ImplementsGatekeeper, Gate!Spec

=============================================================================
