----------------------------- MODULE NodesTable -----------------------------
(***************************************************************************)
(* What the table of the crawler's database promises to those who read it  *)
(* (updateNodes in crawler/db.go): it changes by whole rounds only.  The   *)
(* rows that a round writes all have its time, which is later than that of *)
(* every row, so that no round is written in two steps, and no row is ever *)
(* removed.                                                                *)
(***************************************************************************)
EXTENDS Integers

CONSTANTS Ids,     \* node identifiers, the primary key
          Absent,  \* no row
          Entries, \* what a row can say of a node
          Times    \* the times of rounds

VARIABLE rows

Row == [e : Entries, now : Times]

TInit == rows = [id \in Ids |-> Absent]

\* INSERT OR REPLACE of a set of nodes, in one transaction.
Replace(set, now) ==
  rows' = [id \in Ids |-> IF set[id] = Absent THEN rows[id]
                          ELSE [e |-> set[id], now |-> now]]

\* A round, seen from outside.
Round(now) ==
  \A id \in Ids :
    /\ rows[id] # Absent => rows[id].now < now
    /\ rows'[id] # rows[id] => rows'[id] \in Row /\ rows'[id].now = now

TNext == DOMAIN rows' = Ids /\ \E now \in Times : Round(now)

TSpec == TInit /\ [][TNext]_rows
=============================================================================
