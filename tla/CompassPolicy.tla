---------------------------- MODULE CompassPolicy ----------------------------
(***************************************************************************)
(* contracts/src/CompassPolicy.sol: the on-chain policy Compass reads.     *)
(*                                                                         *)
(* The contract keeps every allowlist twice: as an array, which the pager  *)
(* serves and the proxy reads, and as a mapping, which answers             *)
(* isToolAllowed and its siblings.  A transaction runs alone and a failed  *)
(* require undoes all of it, so an action is a transaction that succeeds   *)
(* and a reverted one is no step at all.                                   *)
(*                                                                         *)
(* The three allowlists (tools, recipients, tokens) share one shape and    *)
(* differ in their bound; so do the two lists of keyed entries (spender    *)
(* limits, typed-data rules).  Kinds and EntryKinds index them.            *)
(***************************************************************************)
EXTENDS Integers, Sequences

CONSTANTS
  Accounts,      \* accounts that may send transactions or own the contract
  Kinds,         \* the allowlists
  Items,         \* tool keys and addresses, ZeroItem among them
  ZeroItem,
  EntryKinds,    \* the lists of keyed entries
  EntryKeys,     \* (token, spender) pairs and rule keys, ZeroKey for a bad one
  ZeroKey,
  Limits,        \* amounts of a spender limit
  CapValues,     \* values of the struct PolicyCaps
  MaxLength,     \* bound on the length of an array (MAX_TOOLS and the others)
  MaxVersion,    \* largest uint64; ++ beyond it reverts
  Candidates     \* the arguments updatePolicy is called with

Entry == [key : EntryKeys, limit : Limits, enabled : BOOLEAN]

(* The arguments of updatePolicy and of the constructor.  "identified" is   *)
(* policyId and contentHash being nonzero, "safe" the three flags W3 wants. *)
Policy == [list       : [Kinds -> Seq(Items)],
           entries    : [EntryKinds -> Seq(Entry)],
           caps       : CapValues,
           frozen     : BOOLEAN,
           identified : BOOLEAN,
           safe       : BOOLEAN]

ASSUME CandidatesArePolicies == Candidates \subseteq Policy

ASSUME ContractConstants ==
  /\ ZeroItem \in Items
  /\ ZeroKey \in EntryKeys
  /\ 0 \in Limits
  /\ MaxLength \in Nat
  /\ MaxVersion \in Nat \ {0}

VARIABLES
  owner,
  version,       \* _policyVersion
  frozen,        \* _flags.frozen; the other flags are the same for ever
  caps,          \* _caps
  list,          \* list[k]: the array of allowlist k
  allowed,       \* allowed[k]: its mapping
  entries,       \* entries[e]: the array of keyed entries e
  entryByKey     \* entryByKey[e]: its mapping

vars == <<owner, version, frozen, caps, list, allowed, entries, entryByKey>>

(* What "delete" leaves in a mapping of structs. *)
NoEntry == [key |-> ZeroKey, limit |-> 0, enabled |-> FALSE]

-----------------------------------------------------------------------------
(* _clearPolicy: walk the arrays to reset the mappings. *)

(* Mutant: the arrays are deleted first, so there is nothing left to walk.  *)
ClearedAllowedArrayFirst(k) == allowed[k]

ClearedAllowed(k) ==
  [x \in Items |-> allowed[k][x] /\ \A i \in DOMAIN list[k] : list[k][i] # x]

ClearedEntryByKey(e) ==
  [k \in EntryKeys |->
     IF \E i \in DOMAIN entries[e] : entries[e][i].key = k THEN NoEntry
     ELSE entryByKey[e][k]]

(* The loops of _applyPolicy over one list.  The mapping decides whether an *)
(* item was seen before, so each loop starts from the cleared mapping m.    *)

StorableList(xs, m) ==
  \A i \in DOMAIN xs :
    /\ xs[i] # ZeroItem
    /\ ~m[xs[i]]
    /\ \A j \in 1 .. (i - 1) : xs[j] # xs[i]

MembersAfter(xs, m) ==
  [x \in Items |-> m[x] \/ \E i \in DOMAIN xs : xs[i] = x]

(* The entry stored under key k once the first n entries were written. *)
EntryAfter(es, m, n, k) ==
  LET hits == {j \in 1 .. n : es[j].key = k}
  IN  IF hits = {} THEN m[k]
      ELSE es[CHOOSE j \in hits : \A i \in hits : i <= j]

(* Mutant: a later entry overrides an earlier one of the same key. *)
StorableEntriesLastWins(es, m) == \A i \in DOMAIN es : es[i].key # ZeroKey

StorableEntries(es, m) ==
  \A i \in DOMAIN es :
    /\ es[i].key # ZeroKey
    /\ ~EntryAfter(es, m, i - 1, es[i].key).enabled

EntriesAfter(es, m) == [k \in EntryKeys |-> EntryAfter(es, m, Len(es), k)]

(* The requires of _applyPolicy, from mappings m and mk. *)
Acceptable(p, m, mk) ==
  /\ p.identified
  /\ p.safe
  /\ \A k \in Kinds : Len(p.list[k]) <= MaxLength
  /\ \A e \in EntryKinds : Len(p.entries[e]) <= MaxLength
  /\ \A k \in Kinds : StorableList(p.list[k], m[k])
  /\ \A e \in EntryKinds : StorableEntries(p.entries[e], mk[e])

NoMembers == [k \in Kinds |-> [x \in Items |-> FALSE]]
NoEntries == [e \in EntryKinds |-> [k \in EntryKeys |-> NoEntry]]

Cleared   == [k \in Kinds |-> ClearedAllowed(k)]
ClearedByKey == [e \in EntryKinds |-> ClearedEntryByKey(e)]

(* _applyPolicy: clear, check, write. *)
ApplyPolicy(p) ==
  /\ Acceptable(p, Cleared, ClearedByKey)
  /\ caps' = p.caps
  /\ frozen' = p.frozen
  /\ list' = p.list
  /\ allowed' = [k \in Kinds |-> MembersAfter(p.list[k], Cleared[k])]
  /\ entries' = p.entries
  /\ entryByKey' = [e \in EntryKinds |-> EntriesAfter(p.entries[e], ClearedByKey[e])]

-----------------------------------------------------------------------------
(* The constructor applies its arguments to empty storage. *)
Init ==
  /\ owner \in Accounts
  /\ version = 1
  /\ \E p \in Candidates :
       /\ Acceptable(p, NoMembers, NoEntries)
       /\ caps = p.caps
       /\ frozen = p.frozen
       /\ list = p.list
       /\ allowed = [k \in Kinds |-> MembersAfter(p.list[k], NoMembers[k])]
       /\ entries = p.entries
       /\ entryByKey = [e \in EntryKinds |-> EntriesAfter(p.entries[e], NoEntries[e])]

UpdatePolicy(sender, p) ==
  /\ sender = owner
  /\ version < MaxVersion
  /\ version' = version + 1
  /\ ApplyPolicy(p)
  /\ UNCHANGED owner

(* Mutant: freezing is not regarded as a new version. *)
SetFrozenSameVersion(sender, f) ==
  /\ sender = owner
  /\ frozen' = f
  /\ UNCHANGED <<owner, version, caps, list, allowed, entries, entryByKey>>

(* Also when f is the present value. *)
SetFrozen(sender, f) ==
  /\ sender = owner
  /\ version < MaxVersion
  /\ version' = version + 1
  /\ frozen' = f
  /\ UNCHANGED <<owner, caps, list, allowed, entries, entryByKey>>

(* The zero address is not an account. *)
TransferOwnership(sender, newOwner) ==
  /\ sender = owner
  /\ owner' = newOwner
  /\ UNCHANGED <<version, frozen, caps, list, allowed, entries, entryByKey>>

Next ==
  \E sender \in Accounts :
    \/ \E p \in Candidates : UpdatePolicy(sender, p)
    \/ \E f \in BOOLEAN : SetFrozen(sender, f)
    \/ \E newOwner \in Accounts : TransferOwnership(sender, newOwner)

Spec == Init /\ [][Next]_vars

-----------------------------------------------------------------------------
(* The view functions the proxy reads. *)

(* _pageBytes32, _pageAddress and the two inlined pagers: a page of at most *)
(* size items from a zero-based cursor, and the next cursor.  The reader    *)
(* never asks for more than MAX_PAGE_SIZE.                                  *)
Page(xs, cursor, size) ==
  IF cursor >= Len(xs) THEN [items |-> <<>>, next |-> cursor]
  ELSE LET end == IF cursor + size < Len(xs) THEN cursor + size ELSE Len(xs)
       IN  [items |-> SubSeq(xs, cursor + 1, end), next |-> end]

-----------------------------------------------------------------------------
(* Properties. *)

(* Every variable keeps its shape; the version is a nonzero uint64. *)
TypeOK ==
  /\ owner \in Accounts
  /\ version \in 1 .. MaxVersion
  /\ frozen \in BOOLEAN
  /\ caps \in CapValues
  /\ list \in [Kinds -> Seq(Items)]
  /\ allowed \in [Kinds -> [Items -> BOOLEAN]]
  /\ entries \in [EntryKinds -> Seq(Entry)]
  /\ entryByKey \in [EntryKinds -> [EntryKeys -> Entry]]

(* Whatever updates came before, isToolAllowed and its siblings hold of     *)
(* exactly the items the pager lists: nothing an earlier policy allowed     *)
(* survives in the mapping (_clearPolicy, CompassPolicy.sol:225-236).       *)
MembershipMatchesList ==
  \A k \in Kinds : \A x \in Items :
    allowed[k][x] <=> \E i \in DOMAIN list[k] : list[k][i] = x

(* An allowlist never holds an item twice and never the zero item, so the   *)
(* proxy, which rejects duplicates, can read it.                            *)
ListsAreSets ==
  \A k \in Kinds : \A i, j \in DOMAIN list[k] :
    /\ list[k][i] # ZeroItem
    /\ list[k][i] = list[k][j] => i = j

(* The proxy looks a spender up as the first enabled entry of the array     *)
(* (riskChecks.js:59), the chain answers getSpenderLimit from the mapping.  *)
(* For every key both see an enabled limit or neither does, and the limit   *)
(* is the same.                                                             *)
LookupsAgree ==
  \A e \in EntryKinds : \A k \in EntryKeys :
    /\ entryByKey[e][k].enabled
         => \E i \in DOMAIN entries[e] : entries[e][i] = entryByKey[e][k]
    /\ \A i \in DOMAIN entries[e] :
         entries[e][i].key = k /\ entries[e][i].enabled
           => entryByKey[e][k] = entries[e][i]

(* A version number names one policy: no step changes the flags, caps or    *)
(* lists without moving to a version that was never used before.  owner(),  *)
(* which the proxy reads too, changes without one (transferOwnership).      *)
VersionIdentifiesPolicy ==
  [][<<frozen, caps, list, entries>>' # <<frozen, caps, list, entries>>
       => version' = version + 1]_vars

=============================================================================
