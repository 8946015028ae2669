--------------------------- MODULE MCCompassPolicy ---------------------------
(* Instances of the policy contract small enough for TLC. *)
EXTENDS CompassPolicy, SequencesExt

MCItems == {"zero", "a", "b"}
MCEntryKeys == {"zero", "k"}
MCLimits == {0, 1}
MCCaps == {10, 20}

(* Arrays up to the bound, and one beyond it. *)
MCLists == BoundedSeq(MCItems, 2) \cup {<<"a", "b", "a">>}
MCEntries ==
  BoundedSeq([key : {"k"}, limit : MCLimits, enabled : BOOLEAN], 2)
    \cup {<<[key |-> "zero", limit |-> 1, enabled |-> TRUE]>>}

(* Arguments of updatePolicy: every list with every list of entries, and    *)
(* one policy for each of the remaining requires.                           *)
MCPolicy(l, es, c, f, id, s) ==
  [list |-> [k \in Kinds |-> l], entries |-> [e \in EntryKinds |-> es],
   caps |-> c, frozen |-> f, identified |-> id, safe |-> s]

MCCandidates ==
  {MCPolicy(l, es, 10, FALSE, TRUE, TRUE) : l \in MCLists, es \in MCEntries}
    \cup {MCPolicy(<<"a">>, <<>>, 20, f, id, s) :
            f \in BOOLEAN, id \in BOOLEAN, s \in BOOLEAN}
=============================================================================
