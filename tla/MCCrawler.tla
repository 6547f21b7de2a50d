------------------------------ MODULE MCCrawler ------------------------------
(* Instances of Crawler for TLC. *)
EXTENDS Crawler, TLC

CONSTANTS a, b, w1, w2

MCIds == {a, b}

OldEntry(id, score) ==
  [n |-> [id |-> id, seq |-> 1], seq |-> 1, score |-> score, first |-> 0,
   last |-> 0, check |-> 0, report |-> "ok"]

\* a node loaded from a file written by devp2p: a score and no client information
Unprobed(id) ==
  [n |-> [id |-> id, seq |-> 1], seq |-> 1, score |-> 1, first |-> Never,
   last |-> Never, check |-> Never, report |-> "none"]

\* a node that a worker put back after its removal, with a failed probe: no score
Ghost(id) == [Unprobed(id) EXCEPT !.score = 0, !.report = "failed"]

Empty == [id \in Ids |-> Absent]

MCInputs == {Empty, [Empty EXCEPT ![a] = OldEntry(a, 1)],
             [Empty EXCEPT ![a] = OldEntry(a, 3), ![b] = Unprobed(b)],
             [Empty EXCEPT ![a] = Ghost(a)]}

SmallInputs == {Empty, [Empty EXCEPT ![a] = OldEntry(a, 1)]}

JustEmpty == {Empty}

WorkerSymmetry == Permutations(Workers)
=============================================================================
