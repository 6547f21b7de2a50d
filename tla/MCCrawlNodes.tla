---------------------------- MODULE MCCrawlNodes ----------------------------
(* Instances of CrawlNodes for TLC. *)
EXTENDS CrawlNodes
CONSTANTS a, b
DbOnly == {[file |-> FALSE, db |-> TRUE, addr |-> FALSE]}
MCFlags == DbOnly \cup {[file |-> TRUE, db |-> TRUE, addr |-> FALSE],
                        [file |-> TRUE, db |-> FALSE, addr |-> FALSE],
                        [file |-> FALSE, db |-> TRUE, addr |-> TRUE]}

\* a node file that somebody else wrote: a node with a score, checked long ago
Old == [n |-> [id |-> a, seq |-> 1], seq |-> 1, score |-> 1, first |-> 0,
        last |-> 0, check |-> 0, report |-> "ok"]

MCSupplied == {[id \in Ids |-> IF id = a THEN Old ELSE Absent]}

NoneSupplied == {}

\* a node that answers one protocol can fail its second check in the same round
TwoAndOne == [p \in Protocols |-> IF p = "v4" THEN 2 ELSE 1]
OneEach == [p \in Protocols |-> 1]
=============================================================================
