------------------------------- MODULE NodeSet -------------------------------
(***************************************************************************)
(* The node set of the crawler (crawler/nodes.go): one entry for a node    *)
(* identifier, and the three ways crawler/crawl.go changes an entry.  The  *)
(* entry keeps what the crawler decides on; names, addresses and the text  *)
(* of errors are abstracted, and the client information together with the  *)
(* error reason (always assigned together) is the field "report".          *)
(***************************************************************************)
EXTENDS Integers

CONSTANTS Ids,      \* node identifiers (enode.ID)
          Seqs,     \* sequence numbers a node record can carry
          NilNode,  \* the nil *enode.Node of a zero nodeJSON
          Absent    \* what the map holds for a missing key

ASSUME SeqAssumption == Seqs \subseteq Nat

\* time.Time{}, the zero time: before every time of the clock.
Never == -1
Time  == Nat \cup {Never}

\* A node record: its identifier and its sequence number.
Node == [id : Ids, seq : Seqs]

\* Info and ErrorReason: never probed, probed with success, probed in vain.
Report == {"none", "ok", "failed"}

Entry == [n : Node, seq : Seqs, score : Nat,
          first : Time, last : Time, check : Time, report : Report]

\* nodeJSON{}, what indexing the Go map with a missing key yields.
ZeroEntry == [n |-> NilNode, seq |-> 0, score |-> 0, first |-> Never,
              last |-> Never, check |-> Never, report |-> "none"]

\* A local nodeJSON: an entry, or a zero entry that is being filled in.
AnyEntry == [n : Node \cup {NilNode}, seq : Seqs \cup {0}, score : Nat,
             first : Time, last : Time, check : Time, report : Report]

NodeSets == [Ids -> Entry \cup {Absent}]

\* c.output[id]
Lookup(set, id) == IF set[id] = Absent THEN ZeroEntry ELSE set[id]

-----------------------------------------------------------------------------
\* A variant that forgets the sequence number of the new record.
PassedKeepingSeq(e, nn, t) ==
  [n |-> nn, seq |-> e.seq, score |-> e.score + 1,
   first |-> IF e.first = Never THEN t ELSE e.first,
   last |-> t, check |-> t, report |-> e.report]

\* updateNode after a successful RequestENR that returned record nn.
Passed(e, nn, t) ==
  [n |-> nn, seq |-> nn.seq, score |-> e.score + 1,
   first |-> IF e.first = Never THEN t ELSE e.first,
   last |-> t, check |-> t, report |-> e.report]

\* updateNode after a failed RequestENR of a node that has a score.
Failed(e, t) == [e EXCEPT !.score = @ \div 2, !.check = t]

ProbeBonus == 10

\* getClientInfoLoop after getClientInfo(n) succeeded (ok) or returned an error.
Reported(e, n, ok) ==
  [e EXCEPT !.n = n, !.seq = n.seq,
            !.score  = @ + (IF ok THEN ProbeBonus ELSE 0),
            !.report = IF ok THEN "ok" ELSE "failed"]

=============================================================================
