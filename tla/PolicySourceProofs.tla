-------------------------- MODULE PolicySourceProofs --------------------------
(***************************************************************************)
(* What holds of the policy contract, for every bound, every set of items   *)
(* and keys and every argument of updatePolicy, and what holds of a read of *)
(* it for every page size, every length of the lists and every sequence of  *)
(* transactions under the reader.                                           *)
(*                                                                          *)
(* The contract comes first (PolicyInv): the two copies of each allowlist   *)
(* agree in every reachable state, and a version identifies a policy.       *)
(*                                                                          *)
(* A read is spread over many requests, and between any two of them the     *)
(* owner may replace the policy.  ReadInv says what the parts read so far   *)
(* have to do with the contract: everything as long as no version was       *)
(* published since the read began (QuietInv), and at least the freeze flag  *)
(* as long as the contract was frozen all the time (FreezeInv).             *)
(***************************************************************************)
EXTENDS PolicySource, WellFoundedInduction, SequenceTheorems, TLAPS

(***************************************************************************)
(* What the loops compute.  EntryAfter picks the last entry written under a *)
(* key, so the lemmas start from least and greatest elements.               *)
(***************************************************************************)

(* Every nonempty set of naturals has a least element.                      *)
LEMMA LeastExists ==
  ASSUME NEW S, S \subseteq Nat, S # {}
  PROVE  \E x \in S : \A y \in S : x <= y
PROOF
  <1>1. PICK x \in S : \A y \in S : ~ (<<y, x>> \in OpToRel(<, Nat))
    BY WFMin, NatLessThanWellFounded
  <1>2. ASSUME NEW y \in S PROVE x <= y
    <2>1. x \in Nat /\ y \in Nat
      OBVIOUS
    <2>2. ~ (y < x)
      BY <1>1, <2>1 DEF OpToRel
    <2> QED
      BY <2>1, <2>2
  <1> QED
    BY <1>1, <1>2

(* Every nonempty set of positions has a greatest element.                  *)
LEMMA GreatestExists ==
  ASSUME NEW n \in Nat, NEW S \in SUBSET (1 .. n), S # {}
  PROVE  \E x \in S : \A y \in S : y <= x
PROOF
  <1> DEFINE T == {z \in 0 .. n : n - z \in S}
  <1>1. T \subseteq Nat
    OBVIOUS
  <1>2. T # {}
    <2>1. PICK y \in S : TRUE
      OBVIOUS
    <2>2. y \in 1 .. n /\ n - (n - y) = y /\ n - y \in 0 .. n
      BY <2>1
    <2> QED
      BY <2>2
  <1> HIDE DEF T
  <1>3. PICK z \in T : \A w \in T : z <= w
    BY <1>1, <1>2, LeastExists
  <1>4. z \in 0 .. n /\ n - z \in S
    BY <1>3 DEF T
  <1>5. ASSUME NEW y \in S PROVE y <= n - z
    <2>1. y \in 1 .. n /\ n - y \in 0 .. n /\ n - (n - y) = y
      OBVIOUS
    <2>2. n - y \in T
      BY <2>1 DEF T
    <2>3. z <= n - y
      BY <1>3, <2>2
    <2> QED
      BY <2>1, <2>3, <1>4
  <1> QED
    BY <1>4, <1>5

(* After n entries a key has its old value, or the last of the n entries    *)
(* that carry it.                                                           *)
LEMMA EntryAfterCases ==
  ASSUME NEW es \in Seq(Entry), NEW m, NEW n \in 0 .. Len(es), NEW k
  PROVE  \/ /\ \A j \in 1 .. n : es[j].key # k
            /\ EntryAfter(es, m, n, k) = m[k]
         \/ \E j \in 1 .. n :
              /\ es[j].key = k
              /\ \A i \in 1 .. n : es[i].key = k => i <= j
              /\ EntryAfter(es, m, n, k) = es[j]
PROOF
  <1> DEFINE hits == {j \in 1 .. n : es[j].key = k}
  <1>1. CASE hits = {}
    BY <1>1 DEF EntryAfter
  <1>2. CASE hits # {}
    <2>1. n \in Nat /\ hits \in SUBSET (1 .. n)
      OBVIOUS
    <2>2. \E j \in hits : \A i \in hits : i <= j
      BY <1>2, <2>1, GreatestExists
    <2> DEFINE last == CHOOSE j \in hits : \A i \in hits : i <= j
    <2>3. last \in hits /\ \A i \in hits : i <= last
      BY <2>2
    <2>4. EntryAfter(es, m, n, k) = es[last]
      BY <1>2 DEF EntryAfter
    <2> QED
      BY <2>3, <2>4
  <1> QED
    BY <1>1, <1>2

(* A key that occurs among the first n entries has the last that carries it. *)
LEMMA EntryAfterLast ==
  ASSUME NEW es \in Seq(Entry), NEW m, NEW n \in 0 .. Len(es), NEW k
  PROVE  \/ \A j \in 1 .. n : es[j].key # k
         \/ \E j \in 1 .. n :
              /\ es[j].key = k
              /\ \A y \in 1 .. n : es[y].key = k => y <= j
              /\ EntryAfter(es, m, n, k) = es[j]
PROOF
  <1>1. \/ /\ \A j \in 1 .. n : es[j].key # k
           /\ EntryAfter(es, m, n, k) = m[k]
        \/ \E j \in 1 .. n :
             /\ es[j].key = k
             /\ \A y \in 1 .. n : es[y].key = k => y <= j
             /\ EntryAfter(es, m, n, k) = es[j]
    BY EntryAfterCases
  <1> QED
    BY <1>1

(* Nothing is stored under a key after an enabled entry: the next one would *)
(* have met it in the mapping and reverted.                                 *)
LEMMA NothingAfterEnabled ==
  ASSUME NEW es \in Seq(Entry), NEW m, StorableEntries(es, m),
         NEW i \in DOMAIN es, es[i].enabled, NEW k, es[i].key = k
  PROVE  \A x \in (i + 1) .. Len(es) : es[x].key # k
PROOF
  <1> DEFINE later == {x \in (i + 1) .. Len(es) : es[x].key = k}
  <1>1. i \in 1 .. Len(es) /\ Len(es) \in Nat
    OBVIOUS
  <1>2. SUFFICES ASSUME later # {} PROVE FALSE
    OBVIOUS
  <1>3. PICK x \in later : \A y \in later : x <= y
    <2>1. later \subseteq Nat
      BY <1>1
    <2> HIDE DEF later
    <2> QED
      BY <1>2, <2>1, LeastExists
  <1>4. /\ x \in 1 .. Len(es) /\ i < x /\ es[x].key = k
        /\ x - 1 \in 0 .. Len(es) /\ i \in 1 .. (x - 1)
    BY <1>1, <1>3
  <1>5. \A y \in 1 .. (x - 1) : es[y].key = k => y <= i
    <2> SUFFICES ASSUME NEW y \in 1 .. (x - 1), es[y].key = k, ~ (y <= i)
                 PROVE  FALSE
      OBVIOUS
    <2>1. y \in later
      BY <1>1, <1>4
    <2> QED
      BY <2>1, <1>3, <1>4
  <1>6. EntryAfter(es, m, x - 1, k) = es[i]
    <2>1. ASSUME NEW n \in 0 .. Len(es), i \in 1 .. n
          PROVE  \E j \in 1 .. n :
                   /\ es[j].key = k
                   /\ \A y \in 1 .. n : es[y].key = k => y <= j
                   /\ EntryAfter(es, m, n, k) = es[j]
      <3>1. ~ \A j \in 1 .. n : es[j].key # k
        BY <2>1
      <3> QED
        BY <3>1, EntryAfterLast
    <2>2. PICK j \in 1 .. (x - 1) :
             /\ es[j].key = k
             /\ \A y \in 1 .. (x - 1) : es[y].key = k => y <= j
             /\ EntryAfter(es, m, x - 1, k) = es[j]
      BY <1>4, <2>1
    <2>3. j <= i /\ i <= j
      BY <2>2, <1>4, <1>5
    <2> QED
      BY <2>2, <2>3, <1>1
  <1>7. ~ EntryAfter(es, m, x - 1, es[x].key).enabled
    BY <1>1, <1>4 DEF StorableEntries
  <1> QED
    BY <1>4, <1>6, <1>7

(* No two enabled entries have one key.                                     *)
OneEnabled(es) ==
  \A i, j \in DOMAIN es :
    es[i].enabled /\ es[j].enabled /\ es[i].key = es[j].key => i = j

(* Entries that pass the requires leave a mapping that answers for a key    *)
(* exactly as the first enabled entry of the array does, which is the only  *)
(* one.                                                                     *)
LEMMA StoredEntriesAgree ==
  ASSUME NEW es \in Seq(Entry), NEW m \in [EntryKeys -> Entry],
         \A k \in EntryKeys : ~m[k].enabled,
         StorableEntries(es, m)
  PROVE  LET r == EntriesAfter(es, m)
         IN  /\ r \in [EntryKeys -> Entry]
             /\ \A k \in EntryKeys : r[k].enabled =>
                  /\ r[k].key = k
                  /\ \E i \in DOMAIN es : es[i] = r[k]
             /\ \A k \in EntryKeys : \A i \in DOMAIN es :
                  es[i].key = k /\ es[i].enabled => r[k] = es[i]
             /\ OneEnabled(es)
PROOF
  <1> DEFINE r == EntriesAfter(es, m)
  <1>1. DOMAIN es = 1 .. Len(es) /\ Len(es) \in Nat /\ Len(es) \in 0 .. Len(es)
    OBVIOUS
  <1>2. \A k \in EntryKeys : r[k] = EntryAfter(es, m, Len(es), k)
    BY DEF EntriesAfter
  <1>3. ASSUME NEW k \in EntryKeys
        PROVE  /\ r[k] \in Entry
               /\ r[k].enabled => /\ r[k].key = k
                                  /\ \E i \in DOMAIN es : es[i] = r[k]
    <2>1. CASE r[k] = m[k]
      BY <2>1
    <2>2. CASE \E j \in 1 .. Len(es) : es[j].key = k /\ r[k] = es[j]
      BY <2>2, <1>1
    <2> QED
      BY <2>1, <2>2, <1>1, <1>2, EntryAfterCases
  <1>4. r \in [EntryKeys -> Entry]
    <2>1. r = [k \in EntryKeys |-> EntryAfter(es, m, Len(es), k)]
      BY DEF EntriesAfter
    <2> QED
      BY <1>2, <1>3, <2>1
  <1>5. ASSUME NEW i \in DOMAIN es, es[i].enabled, NEW k, k = es[i].key
        PROVE  EntryAfter(es, m, Len(es), k) = es[i]
    <2>1. i \in 1 .. Len(es)
      BY <1>1
    <2>2. PICK j \in 1 .. Len(es) :
             /\ es[j].key = k
             /\ \A x \in 1 .. Len(es) : es[x].key = k => x <= j
             /\ EntryAfter(es, m, Len(es), k) = es[j]
      <3>1. ASSUME NEW n \in 0 .. Len(es), i \in 1 .. n
            PROVE  \E j \in 1 .. n :
                     /\ es[j].key = k
                     /\ \A y \in 1 .. n : es[y].key = k => y <= j
                     /\ EntryAfter(es, m, n, k) = es[j]
        <4>1. ~ \A j \in 1 .. n : es[j].key # k
          BY <1>5, <3>1
        <4> QED
          BY <4>1, EntryAfterLast
      <3> QED
        BY <1>1, <2>1, <3>1
    <2>3. i <= j
      BY <1>5, <2>1, <2>2
    <2>4. ~ (i < j)
      BY <1>1, <1>5, <2>1, <2>2, NothingAfterEnabled
    <2> QED
      BY <2>1, <2>2, <2>3, <2>4
  <1>6. OneEnabled(es)
    <2> SUFFICES ASSUME NEW i \in DOMAIN es, NEW j \in DOMAIN es, i < j,
                        es[i].enabled, es[j].enabled
                 PROVE  es[i].key # es[j].key
      BY <1>1 DEF OneEnabled
    <2>1. j \in (i + 1) .. Len(es)
      BY <1>1
    <2> QED
      BY <2>1, NothingAfterEnabled
  <1> QED
    BY <1>2, <1>3, <1>4, <1>5, <1>6

(* A list that passes the requires has no zero item and no item twice, and  *)
(* the mapping holds of exactly its items.                                  *)
LEMMA StoredListAgrees ==
  ASSUME NEW xs \in Seq(Items), NEW m \in [Items -> BOOLEAN],
         \A x \in Items : ~m[x],
         StorableList(xs, m)
  PROVE  /\ MembersAfter(xs, m) \in [Items -> BOOLEAN]
         /\ \A x \in Items : MembersAfter(xs, m)[x] <=> \E i \in DOMAIN xs : xs[i] = x
         /\ \A i, j \in DOMAIN xs : /\ xs[i] # ZeroItem
                                    /\ xs[i] = xs[j] => i = j
PROOF
  <1>1. MembersAfter(xs, m) \in [Items -> BOOLEAN]
    BY DEF MembersAfter
  <1>2. \A x \in Items : MembersAfter(xs, m)[x] <=> \E i \in DOMAIN xs : xs[i] = x
    BY DEF MembersAfter
  <1>3. ASSUME NEW i \in DOMAIN xs, NEW j \in DOMAIN xs
        PROVE  xs[i] # ZeroItem /\ (xs[i] = xs[j] => i = j)
    <2>1. DOMAIN xs = 1 .. Len(xs) /\ Len(xs) \in Nat
      OBVIOUS
    <2>2. i < j => xs[i] # xs[j]
      BY <2>1 DEF StorableList
    <2>3. j < i => xs[i] # xs[j]
      BY <2>1 DEF StorableList
    <2> QED
      BY <2>1, <2>2, <2>3 DEF StorableList
  <1> QED
    BY <1>1, <1>2, <1>3

-----------------------------------------------------------------------------
(***************************************************************************)
(* The inductive invariant.  MembershipMatchesList and LookupsAgree are     *)
(* what makes _clearPolicy reach every trace of the previous policy, so     *)
(* they carry themselves; an entry in the mapping must in addition sit      *)
(* under its own key.                                                       *)
(***************************************************************************)
KeyedEntries ==
  \A e \in EntryKinds : \A k \in EntryKeys :
    entryByKey[e][k].enabled => entryByKey[e][k].key = k

(* The first enabled entry for a key is the only one.                       *)
EnabledOnce == \A e \in EntryKinds : OneEnabled(entries[e])

PolicyInv ==
  /\ MembershipMatchesList
  /\ ListsAreSets
  /\ LookupsAgree
  /\ KeyedEntries
  /\ EnabledOnce

(* _clearPolicy leaves no item allowed and no entry enabled.                *)
LEMMA ClearedIsEmpty ==
  ASSUME TypeOK, PolicyInv
  PROVE  /\ \A k \in Kinds : /\ Cleared[k] \in [Items -> BOOLEAN]
                             /\ \A x \in Items : ~Cleared[k][x]
         /\ \A e \in EntryKinds : /\ ClearedByKey[e] \in [EntryKeys -> Entry]
                                  /\ \A k \in EntryKeys : ~ClearedByKey[e][k].enabled
PROOF
  <1>1. ASSUME NEW k \in Kinds
        PROVE  /\ Cleared[k] \in [Items -> BOOLEAN]
               /\ \A x \in Items : ~Cleared[k][x]
    <2>1. Cleared[k] = [x \in Items |->
             allowed[k][x] /\ \A i \in DOMAIN list[k] : list[k][i] # x]
      BY DEF Cleared, ClearedAllowed
    <2>2. Cleared[k] \in [Items -> BOOLEAN]
      BY <2>1
    <2>3. ASSUME NEW x \in Items PROVE ~Cleared[k][x]
      <3>1. allowed[k][x] => \E i \in DOMAIN list[k] : list[k][i] = x
        BY DEF PolicyInv, MembershipMatchesList
      <3>2. Cleared[k][x] <=>
              allowed[k][x] /\ \A i \in DOMAIN list[k] : list[k][i] # x
        BY <2>1
      <3> QED
        BY <3>1, <3>2
    <2> QED
      BY <2>2, <2>3
  <1>2. ASSUME NEW e \in EntryKinds
        PROVE  /\ ClearedByKey[e] \in [EntryKeys -> Entry]
               /\ \A k \in EntryKeys : ~ClearedByKey[e][k].enabled
    <2>1. NoEntry \in Entry /\ ~NoEntry.enabled
      BY ContractConstants DEF NoEntry, Entry
    <2>2. ClearedByKey[e] = ClearedEntryByKey(e)
      BY DEF ClearedByKey
    <2>3. entryByKey[e] \in [EntryKeys -> Entry]
      BY DEF TypeOK
    <2>4. ClearedByKey[e] \in [EntryKeys -> Entry]
      BY <2>1, <2>2, <2>3 DEF ClearedEntryByKey
    <2>5. ASSUME NEW k \in EntryKeys PROVE ~ClearedByKey[e][k].enabled
      <3>1. CASE \E i \in DOMAIN entries[e] : entries[e][i].key = k
        BY <2>1, <2>2, <3>1 DEF ClearedEntryByKey
      <3>2. CASE ~ \E i \in DOMAIN entries[e] : entries[e][i].key = k
        <4>1. ClearedByKey[e][k] = entryByKey[e][k]
          BY <2>2, <3>2 DEF ClearedEntryByKey
        <4>2. entryByKey[e][k].enabled =>
                \E i \in DOMAIN entries[e] : entries[e][i].key = k
          BY DEF PolicyInv, LookupsAgree, KeyedEntries
        <4> QED
          BY <3>2, <4>1, <4>2
      <3> QED
        BY <3>1, <3>2
    <2> QED
      BY <2>4, <2>5
  <1> QED
    BY <1>1, <1>2

(* The constructor establishes the invariant.                               *)
LEMMA PolicyInit == Init => TypeOK /\ PolicyInv
PROOF
  <1> SUFFICES ASSUME Init PROVE TypeOK /\ PolicyInv
    OBVIOUS
  <1>1. PICK p \in Candidates :
          /\ Acceptable(p, NoMembers, NoEntries)
          /\ caps = p.caps
          /\ frozen = p.frozen
          /\ list = p.list
          /\ allowed = [k \in Kinds |-> MembersAfter(p.list[k], NoMembers[k])]
          /\ entries = p.entries
          /\ entryByKey = [e \in EntryKinds |-> EntriesAfter(p.entries[e], NoEntries[e])]
    BY DEF Init
  <1>2. /\ p.list \in [Kinds -> Seq(Items)]
        /\ p.entries \in [EntryKinds -> Seq(Entry)]
        /\ p.caps \in CapValues
        /\ p.frozen \in BOOLEAN
    BY CandidatesArePolicies DEF Policy
  <1>3. ASSUME NEW k \in Kinds
        PROVE  /\ allowed[k] \in [Items -> BOOLEAN]
               /\ \A x \in Items : allowed[k][x] <=> \E i \in DOMAIN list[k] : list[k][i] = x
               /\ \A i, j \in DOMAIN list[k] : /\ list[k][i] # ZeroItem
                                               /\ list[k][i] = list[k][j] => i = j
    <2>1. /\ NoMembers[k] \in [Items -> BOOLEAN]
          /\ \A x \in Items : ~NoMembers[k][x]
      BY DEF NoMembers
    <2>2. StorableList(list[k], NoMembers[k])
      BY <1>1 DEF Acceptable
    <2>3. allowed[k] = MembersAfter(list[k], NoMembers[k])
      BY <1>1
    <2>4. list[k] \in Seq(Items)
      BY <1>1, <1>2
    <2> QED
      BY <2>1, <2>2, <2>3, <2>4, StoredListAgrees
  <1>4. ASSUME NEW e \in EntryKinds
        PROVE  /\ entryByKey[e] \in [EntryKeys -> Entry]
               /\ \A k \in EntryKeys : entryByKey[e][k].enabled =>
                    /\ entryByKey[e][k].key = k
                    /\ \E i \in DOMAIN entries[e] : entries[e][i] = entryByKey[e][k]
               /\ \A k \in EntryKeys : \A i \in DOMAIN entries[e] :
                    entries[e][i].key = k /\ entries[e][i].enabled
                      => entryByKey[e][k] = entries[e][i]
               /\ OneEnabled(entries[e])
    <2>1. /\ NoEntries[e] \in [EntryKeys -> Entry]
          /\ \A k \in EntryKeys : ~NoEntries[e][k].enabled
      BY ContractConstants DEF NoEntries, NoEntry, Entry
    <2>2. StorableEntries(entries[e], NoEntries[e])
      BY <1>1 DEF Acceptable
    <2>3. entryByKey[e] = EntriesAfter(entries[e], NoEntries[e])
      BY <1>1
    <2>4. entries[e] \in Seq(Entry)
      BY <1>1, <1>2
    <2> DEFINE r == EntriesAfter(entries[e], NoEntries[e])
    <2>5. /\ r \in [EntryKeys -> Entry]
          /\ \A k \in EntryKeys : r[k].enabled =>
               r[k].key = k /\ \E i \in DOMAIN entries[e] : entries[e][i] = r[k]
          /\ \A k \in EntryKeys : \A i \in DOMAIN entries[e] :
               entries[e][i].key = k /\ entries[e][i].enabled => r[k] = entries[e][i]
          /\ OneEnabled(entries[e])
      BY <2>1, <2>2, <2>4, StoredEntriesAgree
    <2> HIDE DEF r
    <2>6. entryByKey[e] = r
      BY <2>3 DEF r
    <2> QED
      BY <2>5, <2>6
  <1>5. TypeOK
    <2>1. owner \in Accounts /\ version \in 1 .. MaxVersion
      BY ContractConstants DEF Init
    <2>2. allowed \in [Kinds -> [Items -> BOOLEAN]]
      BY <1>1, <1>3
    <2>3. entryByKey \in [EntryKinds -> [EntryKeys -> Entry]]
      BY <1>1, <1>4
    <2> QED
      BY <1>1, <1>2, <2>1, <2>2, <2>3 DEF TypeOK
  <1>6. MembershipMatchesList /\ ListsAreSets
    BY <1>3 DEF MembershipMatchesList, ListsAreSets
  <1>7. LookupsAgree /\ KeyedEntries /\ EnabledOnce
    BY <1>4 DEF LookupsAgree, KeyedEntries, EnabledOnce
  <1> QED
    BY <1>5, <1>6, <1>7 DEF PolicyInv

(* A successful updatePolicy re-establishes it.                             *)
LEMMA UpdatePreserves ==
  ASSUME TypeOK, PolicyInv, NEW sender, NEW p \in Candidates, UpdatePolicy(sender, p)
  PROVE  TypeOK' /\ PolicyInv'
PROOF
  <1>1. /\ Acceptable(p, Cleared, ClearedByKey)
        /\ caps' = p.caps
        /\ frozen' = p.frozen
        /\ list' = p.list
        /\ allowed' = [k \in Kinds |-> MembersAfter(p.list[k], Cleared[k])]
        /\ entries' = p.entries
        /\ entryByKey' = [e \in EntryKinds |-> EntriesAfter(p.entries[e], ClearedByKey[e])]
        /\ owner' = owner
        /\ version' = version + 1
        /\ version < MaxVersion
    BY DEF UpdatePolicy, ApplyPolicy
  <1>2. /\ p.list \in [Kinds -> Seq(Items)]
        /\ p.entries \in [EntryKinds -> Seq(Entry)]
        /\ p.caps \in CapValues
        /\ p.frozen \in BOOLEAN
    BY CandidatesArePolicies DEF Policy
  <1>3. ASSUME NEW k \in Kinds
        PROVE  /\ allowed'[k] \in [Items -> BOOLEAN]
               /\ \A x \in Items : allowed'[k][x] <=> \E i \in DOMAIN list'[k] : list'[k][i] = x
               /\ \A i, j \in DOMAIN list'[k] : /\ list'[k][i] # ZeroItem
                                                /\ list'[k][i] = list'[k][j] => i = j
    <2>1. /\ Cleared[k] \in [Items -> BOOLEAN]
          /\ \A x \in Items : ~Cleared[k][x]
      BY ClearedIsEmpty
    <2>2. StorableList(list'[k], Cleared[k])
      BY <1>1 DEF Acceptable
    <2>3. allowed'[k] = MembersAfter(list'[k], Cleared[k])
      BY <1>1
    <2>4. list'[k] \in Seq(Items)
      BY <1>1, <1>2
    <2> QED
      BY <2>1, <2>2, <2>3, <2>4, StoredListAgrees
  <1>4. ASSUME NEW e \in EntryKinds
        PROVE  /\ entryByKey'[e] \in [EntryKeys -> Entry]
               /\ \A k \in EntryKeys : entryByKey'[e][k].enabled =>
                    /\ entryByKey'[e][k].key = k
                    /\ \E i \in DOMAIN entries'[e] : entries'[e][i] = entryByKey'[e][k]
               /\ \A k \in EntryKeys : \A i \in DOMAIN entries'[e] :
                    entries'[e][i].key = k /\ entries'[e][i].enabled
                      => entryByKey'[e][k] = entries'[e][i]
               /\ OneEnabled(entries'[e])
    <2>1. /\ ClearedByKey[e] \in [EntryKeys -> Entry]
          /\ \A k \in EntryKeys : ~ClearedByKey[e][k].enabled
      BY ClearedIsEmpty
    <2>2. StorableEntries(entries'[e], ClearedByKey[e])
      BY <1>1 DEF Acceptable
    <2>3. entryByKey'[e] = EntriesAfter(entries'[e], ClearedByKey[e])
      BY <1>1
    <2>4. entries'[e] \in Seq(Entry)
      BY <1>1, <1>2
    <2> QED
      BY <2>1, <2>2, <2>3, <2>4, StoredEntriesAgree
  <1>5. TypeOK'
    <2>1. owner' \in Accounts /\ version' \in 1 .. MaxVersion
      BY <1>1, ContractConstants DEF TypeOK
    <2>2. allowed' \in [Kinds -> [Items -> BOOLEAN]]
      BY <1>1, <1>3
    <2>3. entryByKey' \in [EntryKinds -> [EntryKeys -> Entry]]
      BY <1>1, <1>4
    <2> QED
      BY <1>1, <1>2, <2>1, <2>2, <2>3 DEF TypeOK
  <1>6. MembershipMatchesList' /\ ListsAreSets'
    BY <1>3 DEF MembershipMatchesList, ListsAreSets
  <1>7. LookupsAgree' /\ KeyedEntries' /\ EnabledOnce'
    BY <1>4 DEF LookupsAgree, KeyedEntries, EnabledOnce
  <1> QED
    BY <1>5, <1>6, <1>7 DEF PolicyInv

(* Every transaction preserves it, one step per action.                     *)
LEMMA PolicyStep == TypeOK /\ PolicyInv /\ [Next]_vars => TypeOK' /\ PolicyInv'
PROOF
  <1> SUFFICES ASSUME TypeOK, PolicyInv, [Next]_vars
               PROVE  TypeOK' /\ PolicyInv'
    OBVIOUS
  <1>1. ASSUME UNCHANGED <<list, allowed, entries, entryByKey>> PROVE PolicyInv'
    BY <1>1 DEF PolicyInv, MembershipMatchesList, ListsAreSets, LookupsAgree, KeyedEntries, EnabledOnce
  <1>2. ASSUME NEW sender \in Accounts, NEW p \in Candidates, UpdatePolicy(sender, p)
        PROVE  TypeOK' /\ PolicyInv'
    BY <1>2, UpdatePreserves
  <1>3. ASSUME NEW sender \in Accounts, NEW f \in BOOLEAN, SetFrozen(sender, f)
        PROVE  TypeOK' /\ PolicyInv'
    <2>1. TypeOK'
      BY <1>3, ContractConstants DEF TypeOK, SetFrozen
    <2> QED
      BY <1>1, <1>3, <2>1 DEF SetFrozen
  <1>4. ASSUME NEW sender \in Accounts, NEW newOwner \in Accounts,
               TransferOwnership(sender, newOwner)
        PROVE  TypeOK' /\ PolicyInv'
    <2>1. TypeOK'
      BY <1>4 DEF TypeOK, TransferOwnership
    <2> QED
      BY <1>1, <1>4, <2>1 DEF TransferOwnership
  <1>5. CASE UNCHANGED vars
    <2>1. TypeOK'
      BY <1>5 DEF TypeOK, vars
    <2> QED
      BY <1>1, <1>5, <2>1 DEF vars
  <1> QED
    BY <1>2, <1>3, <1>4, <1>5 DEF Next

(* Type correctness and the invariant in every reachable state.             *)
THEOREM PolicyInvariance == Spec => [](TypeOK /\ PolicyInv)
PROOF
  BY PolicyInit, PolicyStep, PTL DEF Spec

-----------------------------------------------------------------------------
(* The results. *)

(* The contract's storage keeps its shape and the version never wraps.      *)
THEOREM PolicyTypeCorrect == Spec => []TypeOK
PROOF
  BY PolicyInvariance, PTL

(* isToolAllowed and its siblings hold of exactly what the pager lists,     *)
(* whatever sequence of updates went before.                                *)
THEOREM MembershipMatchesListHolds == Spec => []MembershipMatchesList
PROOF
  <1>1. PolicyInv => MembershipMatchesList
    BY DEF PolicyInv
  <1> QED
    BY <1>1, PolicyInvariance, PTL

(* The lists never hold duplicates or zero items, for any bound.            *)
THEOREM ListsAreSetsHolds == Spec => []ListsAreSets
PROOF
  <1>1. PolicyInv => ListsAreSets
    BY DEF PolicyInv
  <1> QED
    BY <1>1, PolicyInvariance, PTL

(* The proxy's lookup in the array and the chain's in the mapping find the  *)
(* same limit, although the contract admits disabled duplicates.            *)
THEOREM LookupsAgreeHolds == Spec => []LookupsAgree
PROOF
  <1>1. PolicyInv => LookupsAgree
    BY DEF PolicyInv
  <1> QED
    BY <1>1, PolicyInvariance, PTL

(* An array never holds two enabled entries of one key, whatever disabled   *)
(* ones stand before them: "the first enabled entry" of riskChecks.js does  *)
(* not depend on the order in which the owner wrote them.                   *)
THEOREM EnabledOnceHolds == Spec => []EnabledOnce
PROOF
  <1>1. PolicyInv => EnabledOnce
    BY DEF PolicyInv
  <1> QED
    BY <1>1, PolicyInvariance, PTL

(* No step changes what the proxy reads without a new version.              *)
THEOREM VersionIdentifiesPolicyHolds == Spec => VersionIdentifiesPolicy
PROOF
  <1>1. [Next]_vars => [<<frozen, caps, list, entries>>' # <<frozen, caps, list, entries>>
                          => version' = version + 1]_vars
    BY DEF Next, vars, UpdatePolicy, SetFrozen, TransferOwnership
  <1> QED
    BY <1>1, PTL DEF Spec, VersionIdentifiesPolicy

-----------------------------------------------------------------------------
(* The contract under the reader. *)

(* The arrays keep within their bounds.                                     *)
Bounded ==
  /\ \A k \in Kinds : Len(list[k]) <= MaxLength
  /\ \A e \in EntryKinds : Len(entries[e]) <= MaxLength

(* A policy that is accepted keeps within the bounds.                       *)
THEOREM BoundedInvariance == Spec => []Bounded
PROOF
  <1>1. Init => Bounded
    BY DEF Init, Acceptable, Bounded
  <1>2. Bounded /\ [Next]_vars => Bounded'
    <2> SUFFICES ASSUME Bounded, [Next]_vars PROVE Bounded'
      OBVIOUS
    <2>1. ASSUME NEW sender, NEW p \in Candidates, UpdatePolicy(sender, p) PROVE Bounded'
      BY <2>1 DEF UpdatePolicy, ApplyPolicy, Acceptable, Bounded
    <2>2. ASSUME NEW sender, NEW f, SetFrozen(sender, f) PROVE Bounded'
      BY <2>2 DEF SetFrozen, Bounded
    <2>3. ASSUME NEW sender, NEW o, TransferOwnership(sender, o) PROVE Bounded'
      BY <2>3 DEF TransferOwnership, Bounded
    <2>4. CASE UNCHANGED vars
      BY <2>4 DEF vars, Bounded
    <2> QED
      BY <2>1, <2>2, <2>3, <2>4 DEF Next
  <1> QED
    BY <1>1, <1>2, PTL DEF Spec

ContractInv == TypeOK /\ ListsAreSets /\ Bounded

(* The reader leaves the contract alone, and its owner acts as before: what *)
(* is proved of the contract holds under the reader too.                    *)
THEOREM ContractHolds == FetchSpec => []ContractInv
PROOF
  <1>1. FetchInit => Init
    BY DEF FetchInit
  <1>2. [FetchNext]_fetchVars => [Next]_vars
    BY DEF FetchNext, fetchVars, Begin, Serve, RequestFails, Transaction, ReadIdentity,
       ReadCaps, ReadFlags, ReadCount, ReadPage, JoinLists, Finish
  <1>3. FetchSpec => Spec
    BY <1>1, <1>2, PTL DEF FetchSpec, Spec
  <1> QED
    BY <1>3, PolicyTypeCorrect, ListsAreSetsHolds, BoundedInvariance, PTL DEF ContractInv

(* What the lists hold.                                                     *)
Elements(l) == IF l \in Kinds THEN Items ELSE Entry

LEMMA ArrayType ==
  ASSUME ContractInv, NEW l \in Lists
  PROVE  Array(l) \in Seq(Elements(l)) /\ Len(Array(l)) \in 0 .. MaxLength
PROOF
  <1>1. MaxLength \in Nat
    BY ContractConstants
  <1>2. CASE l \in Kinds
    <2>1. Array(l) = list[l] /\ Elements(l) = Items
      BY <1>2 DEF Array, Elements
    <2>2. list[l] \in Seq(Items) /\ Len(list[l]) <= MaxLength
      BY <1>2 DEF ContractInv, TypeOK, Bounded
    <2> QED
      BY <1>1, <2>1, <2>2
  <1>3. CASE l \notin Kinds
    <2>1. l \in EntryKinds /\ Array(l) = entries[l] /\ Elements(l) = Entry
      BY <1>3 DEF Array, Elements, Lists
    <2>2. entries[l] \in Seq(Entry) /\ Len(entries[l]) <= MaxLength
      BY <2>1 DEF ContractInv, TypeOK, Bounded
    <2> QED
      BY <1>1, <2>1, <2>2
  <1> QED
    BY <1>2, <1>3

(* Without a new version nothing the reader reads has changed, and a new    *)
(* version is never an old one.                                             *)
LEMMA TransactionEffect ==
  ASSUME TypeOK, Next
  PROVE  \/ version' = version + 1
         \/ /\ version' = version /\ frozen' = frozen /\ caps' = caps
            /\ list' = list /\ entries' = entries
BY DEF Next, UpdatePolicy, SetFrozen, TransferOwnership

-----------------------------------------------------------------------------
(* One page. *)

(* A page continues where the cursor is, and ends within the array.         *)
LEMMA PageEffect ==
  ASSUME ContractInv, NEW l \in Lists,
         cursor[l] \in Nat, count[l] \in Nat, cursor[l] < count[l]
  PROVE  /\ NextPage(l).items \in Seq(Elements(l))
         /\ NextPage(l).next \in Nat
         /\ (Stalled(l) <=> cursor[l] >= Len(Array(l)))
         /\ (~Stalled(l) => /\ NextPage(l).next <= Len(Array(l))
                            /\ cursor[l] < NextPage(l).next
                            /\ NextPage(l).items
                                 = SubSeq(Array(l), cursor[l] + 1, NextPage(l).next))
PROOF
  <1> DEFINE a == Array(l)
             left == count[l] - cursor[l]
             size == IF PageSize < left THEN PageSize ELSE left
             end == IF cursor[l] + size < Len(a) THEN cursor[l] + size ELSE Len(a)
  <1>1. a \in Seq(Elements(l)) /\ Len(a) \in Nat
    BY ArrayType
  <1>2. size \in Nat /\ size >= 1
    <2>1. PageSize \in Nat \ {0}
      BY SourceConstants
    <2> QED
      BY <2>1
  <1>3. NextPage(l) = Page(a, cursor[l], size)
    BY DEF NextPage
  <1> HIDE DEF size, a
  <1>4. CASE cursor[l] >= Len(a)
    <2>1. NextPage(l) = [items |-> <<>>, next |-> cursor[l]]
      BY <1>3, <1>4 DEF Page
    <2> QED
      BY <1>4, <2>1 DEF Stalled, a
  <1>5. CASE ~ (cursor[l] >= Len(a))
    <2>1. NextPage(l) = [items |-> SubSeq(a, cursor[l] + 1, end), next |-> end]
      BY <1>3, <1>5 DEF Page
    <2>2. end \in Nat /\ cursor[l] < end /\ end <= Len(a)
      BY <1>1, <1>2, <1>5
    <2> HIDE DEF end
    <2>3. SubSeq(a, cursor[l] + 1, end) \in Seq(Elements(l))
      <3>1. \A i \in cursor[l] + 1 .. end : a[i] \in Elements(l)
        BY <1>1, <2>2
      <3> QED
        BY <2>2, <3>1, SubSeqProperties
    <2>4. NextPage(l).items = SubSeq(a, cursor[l] + 1, end) /\ NextPage(l).next = end
      <3> DEFINE page == NextPage(l)
                 some == SubSeq(a, cursor[l] + 1, end)
      <3>1. page = [items |-> some, next |-> end]
        BY <2>1
      <3> HIDE DEF page, some
      <3>2. page.items = some /\ page.next = end
        BY <3>1
      <3> QED
        BY <3>2 DEF page, some
    <2>5. ~ Stalled(l)
      BY <2>2, <2>4 DEF Stalled
    <2>6. a = Array(l)
      BY DEF a
    <2> HIDE DEF a
    <2> QED
      BY <1>5, <2>2, <2>3, <2>4, <2>5, <2>6
  <1> QED
    BY <1>4, <1>5

-----------------------------------------------------------------------------
(* The inductive invariant. *)

SourceTypes ==
  /\ at \in {"idle", "identity", "caps", "flags", "lists", "block", "done"}
  /\ read \in [version : 0 .. MaxVersion, frozen : BOOLEAN, caps : CapValues]
  /\ count \in [Lists -> -1 .. MaxLength]
  /\ cursor \in [Lists -> 0 .. MaxLength]
  /\ DOMAIN values = Lists
  /\ \A l \in Lists : values[l] \in Seq(Elements(l))
  /\ result \in {"none", "accepted", "frozen", "invalid", "read_failed", "rpc_failed"}
  /\ began \in 0 .. MaxVersion
  /\ thawed \in BOOLEAN

(* The lists come last, the result at the end.                              *)
OrderInv ==
  /\ at = "idle" <=> began = 0
  /\ began <= version
  /\ at # "done" => result = "none"
  /\ at \in {"idle", "identity", "caps", "flags"} =>
       \A l \in Lists : count[l] = -1 /\ cursor[l] = 0 /\ values[l] = <<>>

(* While the contract stays frozen, so does what is read of it.             *)
FreezeInv ==
  /\ at # "idle" /\ ~thawed => frozen
  /\ at \in {"caps", "flags", "lists", "block"} /\ ~thawed => read.frozen
  /\ FrozenIsRefused

(* How far list l has been read, of a contract that has stood still.        *)
Prefix(l) ==
  /\ count[l] \in {-1, Len(Array(l))}
  /\ cursor[l] <= Len(Array(l))
  /\ values[l] = SubSeq(Array(l), 1, cursor[l])

QuietInv ==
  Quiet =>
    /\ at \in {"caps", "flags", "lists", "block"} =>
         read.version = version /\ read.frozen = frozen
    /\ at \in {"flags", "lists", "block"} => read.caps = caps
    /\ at \in {"lists", "block"} => \A l \in Lists : Prefix(l)
    /\ at = "block" => \A l \in Lists : cursor[l] = Len(Array(l))

ReadInv == SourceTypes /\ OrderInv /\ FreezeInv /\ QuietInv /\ QuietReadIsExact

(* What a step of the reader leaves alone, and a transaction does not.      *)
LEMMA SameContract ==
  ASSUME UNCHANGED vars
  PROVE  /\ version' = version /\ frozen' = frozen /\ caps' = caps /\ list' = list
         /\ entries' = entries
         /\ \A l : Array(l)' = Array(l)
BY DEF vars, Array

(* The invariant holds before the read.                                     *)
LEMMA ReadInit == FetchInit /\ ContractInv => ReadInv
PROOF
  <1> SUFFICES ASSUME FetchInit, ContractInv PROVE ReadInv
    OBVIOUS
  <1>1. version \in 1 .. MaxVersion /\ MaxVersion \in Nat /\ MaxLength \in Nat
    BY ContractConstants DEF ContractInv, TypeOK
  <1>2. read \in [version : 0 .. MaxVersion, frozen : BOOLEAN, caps : CapValues]
    <2>1. caps \in CapValues
      BY DEF ContractInv, TypeOK
    <2>2. (CHOOSE c \in CapValues : TRUE) \in CapValues
      BY <2>1
    <2> QED
      BY <1>1, <2>2 DEF FetchInit, Nothing
  <1>3. /\ at = "idle" /\ result = "none" /\ began = 0 /\ thawed = FALSE
        /\ count = [l \in Lists |-> -1] /\ cursor = [l \in Lists |-> 0]
        /\ values = [l \in Lists |-> <<>>]
    BY DEF FetchInit
  <1>4. SourceTypes
    <2>1. count \in [Lists -> -1 .. MaxLength] /\ cursor \in [Lists -> 0 .. MaxLength]
      BY <1>1, <1>3
    <2>2. \A l \in Lists : values[l] \in Seq(Elements(l))
      BY <1>3
    <2>3. DOMAIN values = Lists
      BY <1>3
    <2>4. began \in 0 .. MaxVersion
      BY <1>1, <1>3
    <2> QED
      BY <1>2, <1>3, <2>1, <2>2, <2>3, <2>4 DEF SourceTypes
  <1>5. OrderInv /\ FreezeInv
    BY <1>1, <1>3 DEF OrderInv, FreezeInv, FrozenIsRefused
  <1>6. QuietInv /\ QuietReadIsExact
    BY <1>1, <1>3 DEF QuietInv, QuietReadIsExact, Quiet
  <1> QED
    BY <1>4, <1>5, <1>6 DEF ReadInv

(* The read begins.                                                         *)
LEMMA BeginPreserves ==
  ASSUME ReadInv, ContractInv, Begin
  PROVE  ReadInv'
PROOF
  <1>1. /\ at = "idle" /\ at' = "identity" /\ began' = version /\ thawed' = ~frozen
        /\ read' = read /\ count' = count /\ cursor' = cursor /\ values' = values
        /\ result' = result
        /\ version' = version /\ frozen' = frozen
    BY DEF Begin, vars
  <1>2. version \in 1 .. MaxVersion /\ MaxVersion \in Nat /\ frozen \in BOOLEAN
    BY ContractConstants DEF ContractInv, TypeOK
  <1>3. SourceTypes'
    BY <1>1, <1>2 DEF ReadInv, SourceTypes
  <1>4. OrderInv'
    BY <1>1, <1>2 DEF ReadInv, OrderInv
  <1>5. result' = "none"
    BY <1>1 DEF ReadInv, OrderInv
  <1>6. FreezeInv' /\ QuietInv' /\ QuietReadIsExact'
    BY <1>1, <1>2, <1>5 DEF FreezeInv, FrozenIsRefused, QuietInv, QuietReadIsExact
  <1> QED
    BY <1>3, <1>4, <1>6 DEF ReadInv

(* What a read that has not ended leaves of the properties of its end.      *)
LEMMA NoResultYet ==
  ASSUME result = "none"
  PROVE  FrozenIsRefused /\ QuietReadIsExact
BY DEF FrozenIsRefused, QuietReadIsExact

(* The contract's version, flags and caps as a read may hold them.          *)
LEMMA ContractValues ==
  ASSUME ContractInv
  PROVE  /\ version \in 1 .. MaxVersion /\ frozen \in BOOLEAN /\ caps \in CapValues
         /\ MaxVersion \in Nat /\ MaxLength \in Nat
BY ContractConstants DEF ContractInv, TypeOK

LEMMA ReadIdentityPreserves ==
  ASSUME ReadInv, ContractInv, ReadIdentity
  PROVE  ReadInv'
PROOF
  <1>1. /\ at = "identity" /\ at' = "caps"
        /\ read' = [read EXCEPT !.version = version, !.frozen = frozen]
        /\ count' = count /\ cursor' = cursor /\ values' = values
        /\ result' = result /\ began' = began /\ thawed' = thawed
        /\ version' = version /\ frozen' = frozen
    BY DEF ReadIdentity, vars
  <1>2. /\ read' \in [version : 0 .. MaxVersion, frozen : BOOLEAN, caps : CapValues]
        /\ read'.version = version /\ read'.frozen = frozen
    <2>1. read \in [version : 0 .. MaxVersion, frozen : BOOLEAN, caps : CapValues]
      BY DEF ReadInv, SourceTypes
    <2>2. version \in 0 .. MaxVersion /\ frozen \in BOOLEAN
      BY ContractValues
    <2>3. read'.version = version /\ read'.frozen = frozen
      BY <1>1, <2>1
    <2>4. read' \in [version : 0 .. MaxVersion, frozen : BOOLEAN, caps : CapValues]
      BY <1>1, <2>1, <2>2
    <2> QED
      BY <2>3, <2>4
  <1>3. SourceTypes'
    BY <1>1, <1>2 DEF ReadInv, SourceTypes
  <1>4. OrderInv' /\ result' = "none"
    BY <1>1 DEF ReadInv, OrderInv
  <1>5. FrozenIsRefused' /\ QuietReadIsExact'
    BY <1>4 DEF FrozenIsRefused, QuietReadIsExact
  <1>6. FreezeInv' /\ QuietInv'
    BY <1>1, <1>2, <1>5 DEF ReadInv, FreezeInv, QuietInv
  <1> QED
    BY <1>3, <1>4, <1>5, <1>6 DEF ReadInv

LEMMA ReadCapsPreserves ==
  ASSUME ReadInv, ContractInv, ReadCaps
  PROVE  ReadInv'
PROOF
  <1>1. /\ at = "caps" /\ at' = "flags" /\ read' = [read EXCEPT !.caps = caps]
        /\ count' = count /\ cursor' = cursor /\ values' = values
        /\ result' = result /\ began' = began /\ thawed' = thawed
        /\ version' = version /\ frozen' = frozen /\ caps' = caps
    BY DEF ReadCaps, vars
  <1>2. /\ read' \in [version : 0 .. MaxVersion, frozen : BOOLEAN, caps : CapValues]
        /\ read'.version = read.version /\ read'.frozen = read.frozen /\ read'.caps = caps
    BY <1>1, ContractValues DEF ReadInv, SourceTypes
  <1>3. SourceTypes'
    BY <1>1, <1>2 DEF ReadInv, SourceTypes
  <1>4. OrderInv' /\ result' = "none"
    BY <1>1 DEF ReadInv, OrderInv
  <1>5. FrozenIsRefused' /\ QuietReadIsExact'
    BY <1>4 DEF FrozenIsRefused, QuietReadIsExact
  <1>6. FreezeInv'
    BY <1>1, <1>2, <1>5 DEF ReadInv, FreezeInv
  <1>7. QuietInv'
    BY <1>1, <1>2 DEF ReadInv, QuietInv, Quiet
  <1> QED
    BY <1>3, <1>4, <1>5, <1>6, <1>7 DEF ReadInv

LEMMA ReadFlagsPreserves ==
  ASSUME ReadInv, ContractInv, ReadFlags
  PROVE  ReadInv'
PROOF
  <1>1. /\ at = "flags" /\ at' = "lists"
        /\ read' = [read EXCEPT !.frozen = read.frozen \/ frozen]
        /\ count' = count /\ cursor' = cursor /\ values' = values
        /\ result' = result /\ began' = began /\ thawed' = thawed
        /\ version' = version /\ frozen' = frozen /\ caps' = caps
    BY DEF ReadFlags, vars
  <1>2. read \in [version : 0 .. MaxVersion, frozen : BOOLEAN, caps : CapValues]
    BY DEF ReadInv, SourceTypes
  <1>3. frozen \in BOOLEAN /\ read.frozen \in BOOLEAN
    BY <1>2, ContractValues
  <1>4. /\ read' \in [version : 0 .. MaxVersion, frozen : BOOLEAN, caps : CapValues]
        /\ read'.version = read.version /\ read'.caps = read.caps
        /\ read'.frozen = (read.frozen \/ frozen)
    BY <1>1, <1>2, <1>3
  <1>5. SourceTypes'
    BY <1>1, <1>4 DEF ReadInv, SourceTypes
  <1>6. OrderInv' /\ result' = "none"
    BY <1>1 DEF ReadInv, OrderInv
  <1>7. FrozenIsRefused' /\ QuietReadIsExact'
    BY <1>6 DEF FrozenIsRefused, QuietReadIsExact
  <1>8. FreezeInv'
    BY <1>1, <1>3, <1>4, <1>7 DEF ReadInv, FreezeInv
  <1>9. QuietInv'
    <2> SUFFICES ASSUME Quiet' PROVE QuietInv'
      BY DEF QuietInv
    <2>1. Quiet
      BY <1>1 DEF Quiet
    <2>2. read'.version = version' /\ read'.frozen = frozen' /\ read'.caps = caps'
      BY <1>1, <1>3, <1>4, <2>1 DEF ReadInv, QuietInv
    <2>3. \A l \in Lists : Prefix(l)'
      <3> TAKE l \in Lists
      <3>1. count[l] = -1 /\ cursor[l] = 0 /\ values[l] = <<>>
        BY <1>1 DEF ReadInv, OrderInv
      <3>2. Array(l)' = Array(l)
        BY SameContract DEF ReadFlags
      <3>3. Len(Array(l)) \in Nat /\ SubSeq(Array(l), 1, 0) = <<>>
        BY ArrayType, SubSeqEmpty
      <3> QED
        BY <1>1, <3>1, <3>2, <3>3 DEF Prefix
    <2> QED
      BY <1>1, <2>2, <2>3 DEF QuietInv
  <1> QED
    BY <1>5, <1>6, <1>7, <1>8, <1>9 DEF ReadInv

LEMMA ReadCountPreserves ==
  ASSUME ReadInv, ContractInv, NEW l \in Lists, ReadCount(l)
  PROVE  ReadInv'
PROOF
  <1>1. /\ at = "lists" /\ at' = "lists" /\ read' = read
        /\ count' = [count EXCEPT ![l] = Len(Array(l))]
        /\ cursor' = cursor /\ values' = values
        /\ result' = result /\ began' = began /\ thawed' = thawed
        /\ version' = version /\ frozen' = frozen /\ caps' = caps
    BY DEF ReadCount, vars
  <1>2. count' \in [Lists -> -1 .. MaxLength]
    BY <1>1, ArrayType, ContractValues DEF ReadInv, SourceTypes
  <1>3. SourceTypes'
    BY <1>1, <1>2 DEF ReadInv, SourceTypes
  <1>4. OrderInv' /\ result' = "none"
    BY <1>1 DEF ReadInv, OrderInv
  <1>5. FrozenIsRefused' /\ QuietReadIsExact'
    BY <1>4 DEF FrozenIsRefused, QuietReadIsExact
  <1>6. FreezeInv'
    BY <1>1, <1>5 DEF ReadInv, FreezeInv
  <1>7. QuietInv'
    <2> SUFFICES ASSUME Quiet' PROVE QuietInv'
      BY DEF QuietInv
    <2>1. Quiet
      BY <1>1 DEF Quiet
    <2>2. \A m \in Lists : Prefix(m)'
      <3> TAKE m \in Lists
      <3>1. Prefix(m)
        BY <1>1, <2>1 DEF ReadInv, QuietInv
      <3>2. Array(m)' = Array(m)
        BY SameContract DEF ReadCount
      <3>3. count[m]' \in {-1, Len(Array(m))}
        BY <1>1, <3>1 DEF ReadInv, SourceTypes, Prefix
      <3> QED
        BY <1>1, <3>1, <3>2, <3>3 DEF Prefix
    <2> QED
      BY <1>1, <2>1, <2>2 DEF ReadInv, QuietInv
  <1> QED
    BY <1>3, <1>4, <1>5, <1>6, <1>7 DEF ReadInv

(* An array that is shorter than the cursor has changed since the read      *)
(* began; any other page is the next part of the array.                     *)
LEMMA ReadPagePreserves ==
  ASSUME ReadInv, ContractInv, NEW l \in Lists, ReadPage(l)
  PROVE  ReadInv'
PROOF
  <1>1. /\ at = "lists" /\ read' = read /\ count' = count
        /\ began' = began /\ thawed' = thawed
        /\ version' = version /\ frozen' = frozen /\ caps' = caps
        /\ cursor[l] < count[l]
    BY DEF ReadPage, vars
  <1>2. /\ cursor[l] \in 0 .. MaxLength /\ count[l] \in -1 .. MaxLength
        /\ MaxLength \in Nat /\ Len(Array(l)) \in 0 .. MaxLength
        /\ Array(l) \in Seq(Elements(l))
    BY ArrayType, ContractValues DEF ReadInv, SourceTypes
  <1>3. cursor[l] \in Nat /\ count[l] \in Nat
    BY <1>1, <1>2
  <1>4. result = "none" /\ began # 0 /\ began <= version
    BY <1>1 DEF ReadInv, OrderInv
  <1>5. Stalled(l) <=> cursor[l] >= Len(Array(l))
    BY <1>1, <1>3, PageEffect
  <1>6. CASE Stalled(l)
    <2>1. at' = "done" /\ result' = "read_failed" /\ cursor' = cursor /\ values' = values
      BY <1>6 DEF ReadPage, Ends
    <2>2. ~ Quiet
      <3> SUFFICES ASSUME Quiet PROVE FALSE
        OBVIOUS
      <3>1. count[l] \in {-1, Len(Array(l))}
        BY <1>1 DEF ReadInv, QuietInv, Prefix
      <3> QED
        BY <1>1, <1>2, <1>3, <1>5, <1>6, <3>1
    <2>3. ~ Quiet'
      BY <1>1, <2>2 DEF Quiet
    <2>4. SourceTypes'
      BY <1>1, <2>1 DEF ReadInv, SourceTypes
    <2>5. OrderInv' /\ FreezeInv'
      BY <1>1, <1>4, <2>1 DEF ReadInv, OrderInv, FreezeInv, FrozenIsRefused
    <2> QED
      BY <2>3, <2>4, <2>5 DEF ReadInv, QuietInv, QuietReadIsExact
  <1>7. CASE ~ Stalled(l)
    <2> DEFINE next == NextPage(l).next
               items == NextPage(l).items
    <2>1. /\ at' = at /\ result' = result
          /\ values' = [values EXCEPT ![l] = values[l] \o items]
          /\ cursor' = [cursor EXCEPT ![l] = next]
      BY <1>7 DEF ReadPage
    <2>2. /\ items \in Seq(Elements(l)) /\ next \in Nat
          /\ next <= Len(Array(l)) /\ cursor[l] < next
          /\ items = SubSeq(Array(l), cursor[l] + 1, next)
      BY <1>1, <1>3, <1>7, PageEffect
    <2> HIDE DEF next, items
    <2>3. cursor' \in [Lists -> 0 .. MaxLength]
      <3>1. next \in 0 .. MaxLength
        BY <1>2, <2>2
      <3> QED
        BY <2>1, <3>1 DEF ReadInv, SourceTypes
    <2>4. DOMAIN values' = Lists /\ \A m \in Lists : values'[m] \in Seq(Elements(m))
      <3>1. values[l] \o items \in Seq(Elements(l))
        BY <2>2, ConcatProperties DEF ReadInv, SourceTypes
      <3>2. DOMAIN values' = Lists
        BY <2>1 DEF ReadInv, SourceTypes
      <3>3. ASSUME NEW m \in Lists PROVE values'[m] \in Seq(Elements(m))
        <4>1. CASE m = l
          BY <2>1, <3>1, <4>1 DEF ReadInv, SourceTypes
        <4>2. CASE m # l
          BY <2>1, <4>2 DEF ReadInv, SourceTypes
        <4> QED
          BY <4>1, <4>2
      <3> QED
        BY <3>2, <3>3
    <2>5. SourceTypes'
      BY <1>1, <2>1, <2>3, <2>4 DEF ReadInv, SourceTypes
    <2>6. OrderInv'
      BY <1>1, <2>1 DEF ReadInv, OrderInv
    <2>7. FrozenIsRefused' /\ QuietReadIsExact'
      BY <1>4, <2>1 DEF FrozenIsRefused, QuietReadIsExact
    <2>8. FreezeInv'
      BY <1>1, <2>1, <2>7 DEF ReadInv, FreezeInv
    <2>9. QuietInv'
      <3> SUFFICES ASSUME Quiet' PROVE QuietInv'
        BY DEF QuietInv
      <3>1. Quiet
        BY <1>1 DEF Quiet
      <3>2. \A m \in Lists : Prefix(m)'
        <4> TAKE m \in Lists
        <4>1. Prefix(m) /\ Array(m)' = Array(m)
          BY <1>1, <3>1, SameContract DEF ReadInv, QuietInv, ReadPage
        <4>2. CASE m # l
          <5>1. cursor'[m] = cursor[m] /\ values'[m] = values[m]
            BY <2>1, <4>2 DEF ReadInv, SourceTypes
          <5> QED
            BY <1>1, <4>1, <5>1 DEF Prefix
        <4>3. CASE m = l
          <5>1. cursor'[m] = next /\ values'[m] = values[l] \o items
            BY <2>1, <4>3 DEF ReadInv, SourceTypes
          <5>2. values[l] = SubSeq(Array(l), 1, cursor[l])
            BY <4>1, <4>3 DEF Prefix
          <5>3. SubSeq(Array(l), 1, cursor[l]) \o SubSeq(Array(l), cursor[l] + 1, next)
                  = SubSeq(Array(l), 1, next)
            <6>1. /\ 1 \in 1 .. Len(Array(l)) + 1
                  /\ cursor[l] \in 1 - 1 .. Len(Array(l))
                  /\ next \in cursor[l] .. Len(Array(l))
              BY <1>2, <2>2
            <6> QED
              BY <1>2, <6>1, ConcatAdjacentSubSeq
          <5> QED
            BY <1>1, <2>2, <4>1, <4>3, <5>1, <5>2, <5>3 DEF Prefix
        <4> QED
          BY <4>2, <4>3
      <3> QED
        BY <1>1, <2>1, <3>1, <3>2 DEF ReadInv, QuietInv
    <2> QED
      BY <2>5, <2>6, <2>7, <2>8, <2>9 DEF ReadInv
  <1> QED
    BY <1>6, <1>7

LEMMA JoinListsPreserves ==
  ASSUME ReadInv, ContractInv, JoinLists
  PROVE  ReadInv'
PROOF
  <1>1. /\ at = "lists" /\ at' = "block" /\ read' = read /\ count' = count
        /\ cursor' = cursor /\ values' = values
        /\ result' = result /\ began' = began /\ thawed' = thawed
        /\ version' = version /\ frozen' = frozen /\ caps' = caps
        /\ \A l \in Lists : count[l] # -1 /\ cursor[l] >= count[l]
    BY DEF JoinLists, vars
  <1>2. SourceTypes'
    BY <1>1 DEF ReadInv, SourceTypes
  <1>3. OrderInv' /\ result' = "none"
    BY <1>1 DEF ReadInv, OrderInv
  <1>4. FrozenIsRefused' /\ QuietReadIsExact'
    BY <1>3 DEF FrozenIsRefused, QuietReadIsExact
  <1>5. FreezeInv'
    BY <1>1, <1>4 DEF ReadInv, FreezeInv
  <1>6. QuietInv'
    <2> SUFFICES ASSUME Quiet' PROVE QuietInv'
      BY DEF QuietInv
    <2>1. Quiet
      BY <1>1 DEF Quiet
    <2>2. ASSUME NEW l \in Lists PROVE Prefix(l)' /\ cursor'[l] = Len(Array(l)')
      <3>1. Prefix(l) /\ Array(l)' = Array(l)
        BY <1>1, <2>1, SameContract DEF ReadInv, QuietInv, JoinLists
      <3>2. Len(Array(l)) \in Nat /\ cursor[l] \in Nat
        BY ArrayType, ContractValues DEF ReadInv, SourceTypes
      <3>3. cursor[l] = Len(Array(l))
        BY <1>1, <3>1, <3>2 DEF Prefix
      <3> QED
        BY <1>1, <3>1, <3>3 DEF Prefix
    <2> QED
      BY <1>1, <2>1, <2>2 DEF ReadInv, QuietInv
  <1> QED
    BY <1>2, <1>3, <1>4, <1>5, <1>6 DEF ReadInv

(* A read that has stood still holds the arrays; the allowlists among them  *)
(* are sets, so only a spender listed twice can keep it from validating.    *)
LEMMA FinishPreserves ==
  ASSUME ReadInv, ContractInv, Finish
  PROVE  ReadInv'
PROOF
  <1> DEFINE verdict == IF read.frozen THEN "frozen"
                        ELSE IF Validates THEN "accepted" ELSE "invalid"
  <1>1. /\ at = "block" /\ at' = "done" /\ result' = verdict /\ read' = read
        /\ count' = count /\ cursor' = cursor /\ values' = values
        /\ began' = began /\ thawed' = thawed
        /\ version' = version /\ frozen' = frozen /\ caps' = caps
        /\ entries' = entries
    BY DEF Finish, Ends, vars
  <1>2. verdict \in {"accepted", "frozen", "invalid"}
    OBVIOUS
  <1>3. SourceTypes'
    BY <1>1, <1>2 DEF ReadInv, SourceTypes
  <1>4. OrderInv'
    BY <1>1 DEF ReadInv, OrderInv
  <1>5. FrozenIsRefused'
    <2> SUFFICES ASSUME verdict = "accepted", ~ thawed PROVE FALSE
      BY <1>1 DEF FrozenIsRefused, ReadInv, SourceTypes
    <2>1. read.frozen
      BY <1>1 DEF ReadInv, FreezeInv
    <2> QED
      BY <2>1
  <1>6. FreezeInv'
    BY <1>1, <1>5 DEF ReadInv, FreezeInv
  <1>7. QuietInv'
    BY <1>1 DEF QuietInv
  <1>8. QuietReadIsExact'
    <2> SUFFICES ASSUME Quiet' PROVE QuietReadIsExact'
      BY DEF QuietReadIsExact
    <2>1. Quiet
      BY <1>1 DEF Quiet
    <2>2. read.version = version /\ read.frozen = frozen /\ read.caps = caps
      BY <1>1, <2>1 DEF ReadInv, QuietInv
    <2>3. ASSUME NEW l \in Lists PROVE values[l] = Array(l)
      <3>1. values[l] = SubSeq(Array(l), 1, Len(Array(l)))
        BY <1>1, <2>1 DEF ReadInv, QuietInv, Prefix
      <3> QED
        BY <3>1, ArrayType, SubSeqFull
    <2>4. ASSUME verdict = "accepted"
          PROVE  /\ read' = [version |-> version', frozen |-> frozen', caps |-> caps']
                 /\ \A l \in Lists : values'[l] = Array(l)'
      <3>1. read = [version |-> version, frozen |-> frozen, caps |-> caps]
        BY <2>2 DEF ReadInv, SourceTypes
      <3>2. \A l : Array(l)' = Array(l)
        BY SameContract DEF Finish
      <3> QED
        BY <1>1, <2>3, <3>1, <3>2
    <2>5. ASSUME verdict \in {"frozen", "invalid"}, ~ frozen
          PROVE  \E e \in SpenderKinds : \E i, j \in DOMAIN entries[e] :
                   i # j /\ entries[e][i].key = entries[e][j].key
      <3>1. ~ Validates
        BY <2>2, <2>5
      <3>2. read.version >= 1
        BY <2>2, ContractValues
      <3>3. ASSUME NEW k \in Kinds PROVE Unique(values[k])
        <4>1. values[k] = list[k]
          BY <2>3 DEF Lists, Array
        <4> QED
          BY <4>1 DEF Unique, ContractInv, ListsAreSets
      <3>4. PICK e \in SpenderKinds :
              ~ Unique([i \in DOMAIN values[e] |-> values[e][i].key])
        BY <3>1, <3>2, <3>3 DEF Validates
      <3>5. values[e] = entries[e]
        BY <2>3, <3>4, SourceConstants DEF Lists, Array
      <3> QED
        BY <3>4, <3>5 DEF Unique
    <2> QED
      BY <1>1, <1>2, <2>4, <2>5 DEF QuietReadIsExact
  <1> QED
    BY <1>3, <1>4, <1>5, <1>6, <1>7, <1>8 DEF ReadInv

LEMMA RequestFailsPreserves ==
  ASSUME ReadInv, ContractInv, RequestFails
  PROVE  ReadInv'
PROOF
  <1>1. /\ at # "idle" /\ at' = "done" /\ result' = "rpc_failed" /\ read' = read
        /\ count' = count /\ cursor' = cursor /\ values' = values
        /\ began' = began /\ thawed' = thawed
        /\ version' = version /\ frozen' = frozen
    BY DEF RequestFails, Ends, vars
  <1>2. SourceTypes'
    BY <1>1 DEF ReadInv, SourceTypes
  <1>3. OrderInv' /\ FreezeInv'
    BY <1>1 DEF ReadInv, OrderInv, FreezeInv, FrozenIsRefused
  <1>4. QuietInv' /\ QuietReadIsExact'
    BY <1>1 DEF QuietInv, QuietReadIsExact
  <1> QED
    BY <1>2, <1>3, <1>4 DEF ReadInv

(* A transaction ends the quiet for good, or has not touched what is read.  *)
LEMMA TransactionPreserves ==
  ASSUME ReadInv, ContractInv, ContractInv', Transaction
  PROVE  ReadInv'
PROOF
  <1>1. /\ at' = at /\ read' = read /\ count' = count /\ cursor' = cursor
        /\ values' = values /\ result' = result /\ began' = began
        /\ thawed' = (thawed \/ ~ frozen')
    BY DEF Transaction
  <1>2. \/ version' = version + 1
        \/ /\ version' = version /\ frozen' = frozen /\ caps' = caps
           /\ list' = list /\ entries' = entries
    BY TransactionEffect DEF Transaction, ContractInv
  <1>3. version \in Nat /\ began \in Nat /\ began <= version /\ thawed \in BOOLEAN
    BY ContractValues DEF ReadInv, SourceTypes, OrderInv
  <1>4. frozen' \in BOOLEAN
    BY DEF ContractInv, TypeOK
  <1>5. SourceTypes'
    BY <1>1, <1>3, <1>4 DEF ReadInv, SourceTypes
  <1>6. OrderInv'
    BY <1>1, <1>2, <1>3 DEF ReadInv, OrderInv
  <1>7. ~ thawed' => ~ thawed /\ frozen'
    BY <1>1, <1>3, <1>4
  <1>8. FreezeInv'
    BY <1>1, <1>7 DEF ReadInv, FreezeInv, FrozenIsRefused
  <1>9. CASE version' = version + 1
    <2>1. ~ Quiet'
      BY <1>1, <1>3, <1>9 DEF Quiet
    <2> QED
      BY <1>5, <1>6, <1>8, <2>1 DEF ReadInv, QuietInv, QuietReadIsExact
  <1>10. CASE version' # version + 1
    <2>1. /\ version' = version /\ frozen' = frozen /\ caps' = caps /\ entries' = entries
          /\ \A l : Array(l)' = Array(l)
      BY <1>2, <1>10 DEF Array
    <2>2. QuietInv'
      BY <1>1, <2>1 DEF ReadInv, QuietInv, Quiet, Prefix
    <2>3. QuietReadIsExact'
      BY <1>1, <2>1 DEF ReadInv, QuietReadIsExact, Quiet
    <2> QED
      BY <1>5, <1>6, <1>8, <2>2, <2>3 DEF ReadInv
  <1> QED
    BY <1>9, <1>10

LEMMA StutterPreserves ==
  ASSUME ReadInv, UNCHANGED fetchVars
  PROVE  ReadInv'
PROOF
  <1>1. /\ at' = at /\ read' = read /\ count' = count /\ cursor' = cursor
        /\ values' = values /\ result' = result /\ began' = began /\ thawed' = thawed
        /\ version' = version /\ frozen' = frozen /\ caps' = caps /\ entries' = entries
    BY DEF fetchVars, readVars, vars
  <1>2. \A l : Array(l)' = Array(l)
    BY SameContract DEF fetchVars
  <1>3. SourceTypes' /\ OrderInv' /\ FreezeInv'
    BY <1>1 DEF ReadInv, SourceTypes, OrderInv, FreezeInv, FrozenIsRefused
  <1>4. QuietInv'
    BY <1>1, <1>2 DEF ReadInv, QuietInv, Quiet, Prefix
  <1>5. QuietReadIsExact'
    BY <1>1, <1>2 DEF ReadInv, QuietReadIsExact, Quiet
  <1> QED
    BY <1>3, <1>4, <1>5 DEF ReadInv

-----------------------------------------------------------------------------
(* The theorems. *)

(* The parts of a read relate to the contract as ReadInv says, for every    *)
(* page size, every length and whatever the owner sends (readPaged and      *)
(* fetchPolicySnapshot).                                                    *)
THEOREM ReadInvariance == FetchSpec => []ReadInv
PROOF
  <1>1. FetchInit /\ ContractInv => ReadInv
    BY ReadInit
  <1>2. ReadInv /\ ContractInv /\ ContractInv' /\ [FetchNext]_fetchVars => ReadInv'
    <2> SUFFICES ASSUME ReadInv, ContractInv, ContractInv', [FetchNext]_fetchVars
                 PROVE  ReadInv'
      OBVIOUS
    <2>1. CASE Begin
      BY <2>1, BeginPreserves
    <2>2. CASE ReadIdentity
      BY <2>2, ReadIdentityPreserves
    <2>3. CASE ReadCaps
      BY <2>3, ReadCapsPreserves
    <2>4. CASE ReadFlags
      BY <2>4, ReadFlagsPreserves
    <2>5. ASSUME NEW l \in Lists, ReadCount(l) PROVE ReadInv'
      BY <2>5, ReadCountPreserves
    <2>6. ASSUME NEW l \in Lists, ReadPage(l) PROVE ReadInv'
      BY <2>6, ReadPagePreserves
    <2>7. CASE JoinLists
      BY <2>7, JoinListsPreserves
    <2>8. CASE Finish
      BY <2>8, FinishPreserves
    <2>9. CASE RequestFails
      BY <2>9, RequestFailsPreserves
    <2>10. CASE Transaction
      BY <2>10, TransactionPreserves
    <2>11. CASE UNCHANGED fetchVars
      BY <2>11, StutterPreserves
    <2> QED
      BY <2>1, <2>2, <2>3, <2>4, <2>5, <2>6, <2>7, <2>8, <2>9, <2>10, <2>11
         DEF FetchNext, Serve
  <1> QED
    BY <1>1, <1>2, ContractHolds, PTL DEF FetchSpec

(* Every variable of the read keeps its shape.                              *)
THEOREM FetchTypeCorrect == FetchSpec => []FetchTypeOK
PROOF
  <1>1. ReadInv => FetchTypeOK
    <2> SUFFICES ASSUME ReadInv PROVE FetchTypeOK
      OBVIOUS
    <2>1. \A k \in Kinds : values[k] \in Seq(Items)
      BY DEF ReadInv, SourceTypes, Lists, Elements
    <2>2. \A e \in EntryKinds : values[e] \in Seq(Entry)
      BY SourceConstants DEF ReadInv, SourceTypes, Lists, Elements
    <2> QED
      BY <2>1, <2>2 DEF ReadInv, SourceTypes, FetchTypeOK
  <1> QED
    BY <1>1, ReadInvariance, PTL

(* An undisturbed read loses no page, reads none twice or out of order, and *)
(* is refused only for a frozen policy or a spender listed twice.           *)
THEOREM QuietReadIsExactHolds == FetchSpec => []QuietReadIsExact
PROOF
  <1>1. ReadInv => QuietReadIsExact
    BY DEF ReadInv
  <1> QED
    BY <1>1, ReadInvariance, PTL

(* A contract that is frozen throughout a read is never accepted, even if   *)
(* the owner replaces the rest of the policy meanwhile.                     *)
THEOREM FrozenIsRefusedHolds == FetchSpec => []FrozenIsRefused
PROOF
  <1>1. ReadInv => FrozenIsRefused
    BY DEF ReadInv, FreezeInv
  <1> QED
    BY <1>1, ReadInvariance, PTL

=============================================================================
