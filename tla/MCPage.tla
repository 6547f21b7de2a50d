------------------------------- MODULE MCPage -------------------------------
(* Instances of Page for TLC. *)
EXTENDS Page, DataMassager, TLC

MCChars == {"name", "client", "version", "version_", "major", "minor", "1", "2", " ", "=",
            ":", "&", "+", "eq", "not", "lt", "lte", "gt", "gte", "like", "country"}

MCUnescape == [ch \in MCChars |-> IF ch = "+" THEN " " ELSE ch]

MCNames == {<<"name">>, <<"version_", "major">>, <<"version_", "minor">>}

MCValues == {<<"1">>, <<"2">>}
MCRank   == [value \in MCValues |-> IF value = <<"1">> THEN 1 ELSE 2]

\* A plain value, one that reads as a value with an operator, one that cuts the URL.
MCTyped == {<<"1">>, <<"1", ":", "not">>, <<"2", "&">>}

MCOps == {<<"not">>}

MCKnown == <<<<[name |-> <<"name">>, value |-> <<"1">>, op |-> Undefined]>>>>

\* A click on a client, on a version and on "Other".
MCDrills == {<<<<<<"name">>, <<"2">>>>>>,
             <<<<<<"version_", "major">>, <<"1">>>>, <<<<"version_", "minor">>, <<"2">>>>>>,
             <<>>}

\* No filter, a range of versions, two groups with a common condition, an
\* operator that the page does not know, a key that the API does not know, and a
\* value with a space.
MCLinks == {NoSearch,
            <<<<<<"name", ":", "1">>, <<"version_", "major", ":", "2", ":", "lt">>>>>>,
            <<<<<<"name", ":", "1">>>>,
              <<<<"name", ":", "1">>, <<"version_", "minor", ":", "1", ":", "lte">>>>>>,
            <<<<<<"name", ":", "1", ":", "like">>>>>>,
            <<<<<<"client", ":", "1">>, <<"name", ":", "1">>>>>>,
            <<<<<<"name", ":", "1", "+">>>>>>}

MCErrors  == {"dial_refused", "bad_hello", "too_many_peers"}
MCUnnamed == {""}

\* The lists that a GROUP BY can return: every name once, with its count.
Lists ==
  LET names == MCErrors \cup MCUnnamed \cup {"geth", "opera", "besu"}
      Orders(n) == {s \in [1 .. n -> names] : Cardinality({s[i] : i \in 1 .. n}) = n}
      Counted(s) == {[i \in DOMAIN s |-> [name |-> s[i], count |-> k[i]]] :
                       k \in [DOMAIN s -> 1 .. 2]}
  IN  UNION {Counted(s) : s \in UNION {Orders(n) : n \in 0 .. 4}}

\* appendOtherGroup, getClients and getErrors count every node of an answer once
\* (CountsOnce).  It depends on no variable, and Init spares TLC evaluating it
\* more than once.
CountedOnce == Init /\ url = NoSearch => \A list \in Lists : CountsOnce(list)
=============================================================================
