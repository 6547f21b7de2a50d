---------------------------- MODULE DataMassager ----------------------------
(***************************************************************************)
(* What the page makes of the lists that the API counts                    *)
(* (frontend/src/data/DataMassager.ts, used by pages/Home.tsx): the first  *)
(* Top names, a group "Other", the number of nodes without a name, and     *)
(* errors, which the crawler stores as client names, apart from clients.   *)
(***************************************************************************)
EXTENDS Integers, Sequences, SequencesExt, Sublists

CONSTANTS Errors,  \* names with "_" in them, which only error texts are meant to have
          Unnamed, \* "tmp" and ""
          Top      \* how many names a list shows: 11 in the code

ASSUME MassagerAssumption == Top \in Nat \ {0} /\ Errors \cap Unnamed = {}

Least(m, n) == IF m < n THEN m ELSE n

Total(list) ==
  LET sum[n \in 0 .. Len(list)] == IF n = 0 THEN 0 ELSE sum[n - 1] + list[n].count
  IN  sum[Len(list)]

Named(list, names) == Only(list, {item \in ToSet(list) : item.name \in names})
Others(list, names) == Only(list, {item \in ToSet(list) : item.name \notin names})

First(list) == SubSeq(list, 1, Least(Top, Len(list)))
Beyond(list) == SubSeq(list, Top + 1, Len(list))

\* A variant whose "Other" is the next name only.
ShownAndNext(list) == SubSeq(list, 1, Least(Top + 1, Len(list)))

\* The first Top names, and "Other" for the rest.
Shown(list) ==
  LET other == Total(Beyond(list)) IN
  First(list) \o (IF other > 0 THEN <<[name |-> "Other", count |-> other]>> ELSE <<>>)

\* JSON's null, of a query that was not asked or that failed, counts as <<>>.
appendOtherGroup(list) == <<Shown(Others(list, Unnamed)), Total(Named(list, Unnamed))>>

getClients(list) == appendOtherGroup(Others(list, Errors))

\* Errors beyond the first Top are added up, and the sum is not used.
getErrors(list) == First(Named(list, Errors))

-----------------------------------------------------------------------------
(* Property.                                                               *)

\* Home.tsx splits the counted clients in two, with getClients and getErrors:
\* every node of the answer is counted in one bar, in "Other", or as unknown,
\* and in one only; the nodes that the page loses are those, and only those,
\* whose error comes behind the first Top errors.
CountsOnce(list) ==
  LET clients == getClients(list)
      systems == appendOtherGroup(list)
      lost    == Beyond(Named(list, Errors))
  IN  /\ Total(systems[1]) + systems[2] = Total(list)
      /\ Total(clients[1]) + clients[2] + Total(getErrors(list)) + Total(lost) = Total(list)
=============================================================================
