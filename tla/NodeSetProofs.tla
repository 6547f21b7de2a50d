---------------------------- MODULE NodeSetProofs ----------------------------
(***************************************************************************)
(* Lemmas about the node set and the three ways an entry changes.          *)
(***************************************************************************)
EXTENDS NodeSet, TLAPS

\* Indexing the node set yields an entry or the zero entry, and only an
\* entry of the set has a score.
LEMMA LookupType ==
  ASSUME NEW set \in NodeSets, NEW id \in Ids
  PROVE  /\ Lookup(set, id) \in AnyEntry
         /\ Lookup(set, id).score > 0 => Lookup(set, id) \in Entry
         /\ set[id] # Absent => set[id] \in Entry /\ Lookup(set, id) = set[id]
  BY SeqAssumption
  DEF NodeSets, Lookup, ZeroEntry, AnyEntry, Entry, Node, Time, Never, Report

\* Whatever updateNode or a worker stores is an entry again.
LEMMA StoredType ==
  ASSUME NEW e \in AnyEntry, NEW n \in Node, NEW t \in Nat, NEW ok \in BOOLEAN
  PROVE  /\ Passed(e, n, t) \in Entry
         /\ Reported(e, n, ok) \in Entry
         /\ [e EXCEPT !.check = t] \in AnyEntry
         /\ Failed(e, t) \in AnyEntry
         /\ e \in Entry => Failed(e, t) \in Entry
         /\ Failed(e, t).score <= e.score
<1>1. Passed(e, n, t) \in Entry
  BY SeqAssumption DEF Passed, AnyEntry, Entry, Node, Time, Never
<1>2. Reported(e, n, ok) \in Entry
  <2> DEFINE bonus  == IF ok THEN ProbeBonus ELSE 0
             result == IF ok THEN "ok" ELSE "failed"
  <2>1. e.score + bonus \in Nat /\ result \in Report
    BY DEF AnyEntry, ProbeBonus, Report
  <2>2. n.seq \in Seqs
    BY DEF Node
  <2> HIDE DEF bonus, result
  <2>3. [e EXCEPT !.n = n, !.seq = n.seq, !.score = @ + bonus, !.report = result]
          \in Entry
    BY <2>1, <2>2 DEF AnyEntry, Entry
  <2>4. QED
    BY <2>3 DEF Reported, bonus, result
<1>3. [e EXCEPT !.check = t] \in AnyEntry
  BY DEF AnyEntry, Time
<1>4. e.score \in Nat /\ e.score \div 2 \in Nat /\ e.score \div 2 <= e.score
  BY DEF AnyEntry
<1>5. Failed(e, t) \in AnyEntry /\ (e \in Entry => Failed(e, t) \in Entry)
      /\ Failed(e, t).score <= e.score
  BY <1>4 DEF Failed, AnyEntry, Entry, Time
<1>6. QED
  BY <1>1, <1>2, <1>3, <1>5
=============================================================================
