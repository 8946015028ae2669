---------------------------- MODULE PolicySource ----------------------------
(***************************************************************************)
(* fetchPolicySnapshot (policy-source/policyContractClient.js): one read of *)
(* the policy contract, a request per view function and page, while the     *)
(* owner goes on sending transactions.                                      *)
(*                                                                          *)
(* Every request sees the contract as it is when the request is served; it  *)
(* may also fail.  The five lists are read side by side (Promise.all), so   *)
(* their requests interleave freely.                                        *)
(***************************************************************************)
EXTENDS CompassPolicy

CONSTANTS
  PageSize,      \* pageSize of readPaged
  SpenderKinds   \* the keyed entries that validation wants unique

Lists == Kinds \cup EntryKinds

ASSUME SourceConstants ==
  /\ PageSize \in Nat \ {0}
  /\ SpenderKinds \subseteq EntryKinds
  /\ Kinds \cap EntryKinds = {}

VARIABLES
  at,        \* the await fetchPolicySnapshot is suspended at
  read,      \* version, frozen and caps read so far
  count,     \* count[l]: length of list l when it was asked for, -1 before
  cursor,    \* cursor[l], values[l]: how far its pages have been read
  values,
  result,    \* what the read came to
  began,     \* history: the version on chain when the read began
  thawed     \* history: the contract was not frozen at some time since then

readVars  == <<at, read, count, cursor, values, result, began, thawed>>
fetchVars == <<vars, readVars>>

Nothing == [version |-> 0, frozen |-> FALSE, caps |-> CHOOSE c \in CapValues : TRUE]

FetchInit ==
  /\ Init
  /\ at = "idle"
  /\ read = Nothing
  /\ count = [l \in Lists |-> -1]
  /\ cursor = [l \in Lists |-> 0]
  /\ values = [l \in Lists |-> <<>>]
  /\ result = "none"
  /\ began = 0
  /\ thawed = FALSE

Ends(r) == at' = "done" /\ result' = r

Begin ==
  /\ at = "idle"
  /\ at' = "identity"
  /\ began' = version
  /\ thawed' = ~frozen
  /\ UNCHANGED <<vars, read, count, cursor, values, result>>

(* policyIdentity *)
ReadIdentity ==
  /\ at = "identity"
  /\ at' = "caps"
  /\ read' = [read EXCEPT !.version = version, !.frozen = frozen]
  /\ UNCHANGED <<vars, count, cursor, values, result, began, thawed>>

(* policyCaps *)
ReadCaps ==
  /\ at = "caps"
  /\ at' = "flags"
  /\ read' = [read EXCEPT !.caps = caps]
  /\ UNCHANGED <<vars, count, cursor, values, result, began, thawed>>

(* policyFlags, whose freeze flag counts as well as the identity's. *)
ReadFlags ==
  /\ at = "flags"
  /\ at' = "lists"
  /\ read' = [read EXCEPT !.frozen = @ \/ frozen]
  /\ UNCHANGED <<vars, count, cursor, values, result, began, thawed>>

Array(l) == IF l \in Kinds THEN list[l] ELSE entries[l]

ReadCount(l) ==
  /\ at = "lists"
  /\ count[l] = -1
  /\ count' = [count EXCEPT ![l] = Len(Array(l))]
  /\ UNCHANGED <<vars, at, read, cursor, values, result, began, thawed>>

NextPage(l) ==
  LET left == count[l] - cursor[l]
  IN  Page(Array(l), cursor[l], IF PageSize < left THEN PageSize ELSE left)

(* Mutant: nobody checks that the pager makes progress. *)
StalledNever(l) == FALSE

(* pagination_stalled: the array has become shorter than the cursor. *)
Stalled(l) == NextPage(l).next <= cursor[l]

(* Mutant: the next cursor is taken for the last index that was read. *)
ReadPageSkipsOne(l) ==
  /\ at = "lists"
  /\ cursor[l] < count[l]
  /\ IF Stalled(l)
       THEN Ends("read_failed") /\ UNCHANGED <<cursor, values>>
       ELSE /\ values' = [values EXCEPT ![l] = @ \o NextPage(l).items]
            /\ cursor' = [cursor EXCEPT ![l] = NextPage(l).next + 1]
            /\ UNCHANGED <<at, result>>
  /\ UNCHANGED <<vars, read, count, began, thawed>>

(* One turn of the loop of readPaged. *)
ReadPage(l) ==
  /\ at = "lists"
  /\ cursor[l] < count[l]
  /\ IF Stalled(l)
       THEN Ends("read_failed") /\ UNCHANGED <<cursor, values>>
       ELSE /\ values' = [values EXCEPT ![l] = @ \o NextPage(l).items]
            /\ cursor' = [cursor EXCEPT ![l] = NextPage(l).next]
            /\ UNCHANGED <<at, result>>
  /\ UNCHANGED <<vars, read, count, began, thawed>>

(* Promise.all resolves. *)
JoinLists ==
  /\ at = "lists"
  /\ \A l \in Lists : count[l] # -1 /\ cursor[l] >= count[l]
  /\ at' = "block"
  /\ UNCHANGED <<vars, read, count, cursor, values, result, began, thawed>>

Unique(xs) == \A i, j \in DOMAIN xs : xs[i] = xs[j] => i = j

(* validatePolicySnapshot, what can fail of it with this contract. *)
Validates ==
  /\ read.version >= 1
  /\ \A k \in Kinds : Unique(values[k])
  /\ \A e \in SpenderKinds : Unique([i \in DOMAIN values[e] |-> values[e][i].key])

(* Mutant: the snapshot is validated for its shape only. *)
FinishThawed ==
  /\ at = "block"
  /\ Ends(IF Validates THEN "accepted" ELSE "invalid")
  /\ UNCHANGED <<vars, read, count, cursor, values, began, thawed>>

(* eth_blockNumber, whose failure is tolerated, then normalise and validate. *)
Finish ==
  /\ at = "block"
  /\ Ends(IF read.frozen THEN "frozen" ELSE IF Validates THEN "accepted" ELSE "invalid")
  /\ UNCHANGED <<vars, read, count, cursor, values, began, thawed>>

(* A request fails, or the chain id or the code is not the one expected. *)
RequestFails ==
  /\ at \in {"identity", "caps", "flags", "lists"}
  /\ Ends("rpc_failed")
  /\ UNCHANGED <<vars, read, count, cursor, values, began, thawed>>

Serve ==
  \/ ReadIdentity \/ ReadCaps \/ ReadFlags
  \/ \E l \in Lists : ReadCount(l) \/ ReadPage(l)
  \/ JoinLists \/ Finish

(* updatePolicy, setFrozen or transferOwnership. *)
Transaction ==
  /\ Next
  /\ thawed' = (thawed \/ ~frozen')
  /\ UNCHANGED <<at, read, count, cursor, values, result, began>>

FetchNext == Begin \/ Serve \/ RequestFails \/ Transaction

FetchSpec == FetchInit /\ [][FetchNext]_fetchVars

(* Requests are served; nothing obliges the owner, nor a request to fail. *)
FetchFairness == WF_fetchVars(Serve)

FairFetchSpec == FetchSpec /\ FetchFairness

-----------------------------------------------------------------------------
(* Properties. *)

(* Every variable of the read keeps its shape. *)
FetchTypeOK ==
  /\ at \in {"idle", "identity", "caps", "flags", "lists", "block", "done"}
  /\ read \in [version : 0 .. MaxVersion, frozen : BOOLEAN, caps : CapValues]
  /\ count \in [Lists -> -1 .. MaxLength]
  /\ cursor \in [Lists -> 0 .. MaxLength]
  /\ \A k \in Kinds : values[k] \in Seq(Items)
  /\ \A e \in EntryKinds : values[e] \in Seq(Entry)
  /\ result \in {"none", "accepted", "frozen", "invalid", "read_failed", "rpc_failed"}
  /\ began \in 0 .. MaxVersion
  /\ thawed \in BOOLEAN

(* No transaction has changed the policy since the read began. *)
Quiet == began = version

(* A snapshot that was read while the contract stood still is the contract: *)
(* no page is lost, read twice or taken out of order.  And such a read is   *)
(* refused only for a reason the owner can see, a frozen policy or a        *)
(* spender listed twice.                                                    *)
QuietReadIsExact ==
  Quiet =>
    /\ result = "accepted" =>
         /\ read = [version |-> version, frozen |-> frozen, caps |-> caps]
         /\ \A l \in Lists : values[l] = Array(l)
    /\ result \in {"frozen", "invalid", "read_failed"} =>
         \/ frozen
         \/ \E e \in SpenderKinds : \E i, j \in DOMAIN entries[e] :
              i # j /\ entries[e][i].key = entries[e][j].key

(* A contract that stays frozen while it is read, whatever else its owner   *)
(* does to it meanwhile, is never the basis of a decision.                  *)
FrozenIsRefused == result = "accepted" => thawed

(* Even while the owner shortens the lists under the reader, the read ends. *)
ReadEnds == (at # "idle") ~> (at = "done")

=============================================================================
