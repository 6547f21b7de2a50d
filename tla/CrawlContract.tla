---------------------------- MODULE CrawlContract ----------------------------
(***************************************************************************)
(* What one crawl round promises about its output: the set changes one     *)
(* entry at a time, and every change is a whole liveness check or a whole  *)
(* probe report applied to the entry as it is at that moment.  Once the    *)
(* round has returned the set, nobody changes it.                          *)
(***************************************************************************)
EXTENDS NodeSet

CONSTANTS Inputs, \* the node sets a round may start from
          Times   \* the times a check may be recorded with

VARIABLES output, ended

cvars == <<output, ended>>

CInit == output \in Inputs /\ ended = FALSE

\* A node answered its liveness check with record nn.
Pass(id, nn, t) ==
  output' = [output EXCEPT ![id] = Passed(Lookup(output, id), nn, t)]

\* A node with a score did not answer; it stays only with a score left.
Fail(id, t) ==
  LET e == Failed(Lookup(output, id), t)
  IN  /\ Lookup(output, id).score > 0
      /\ output' = [output EXCEPT ![id] = IF e.score > 0 THEN e ELSE Absent]

\* The outcome of a probe of record n.
Note(n, ok) ==
  output' = [output EXCEPT ![n.id] = Reported(Lookup(output, n.id), n, ok)]

Change ==
  /\ ~ended
  /\ UNCHANGED ended
  /\ \/ \E nn \in Node, t \in Times : Pass(nn.id, nn, t)
     \/ \E id \in Ids, t \in Times : Fail(id, t)
     \/ \E n \in Node, ok \in BOOLEAN : Note(n, ok)

End == ~ended /\ ended' = TRUE /\ UNCHANGED output

CNext == Change \/ End

CSpec == CInit /\ [][CNext]_cvars
=============================================================================
