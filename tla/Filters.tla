------------------------------ MODULE Filters -------------------------------
(***************************************************************************)
(* Filters on both sides of the dashboard request.  The page has groups of *)
(* conditions (frontend/src/data/FilterUtils.ts): a node is meant if all   *)
(* conditions of some group hold.  The URL has each condition as a text    *)
(* name:value or name:value:operator, and nothing in a name or a value is  *)
(* escaped.  addFilterArgs (api/api/api.go) makes the WHERE of the queries *)
(* of these.                                                               *)
(*                                                                         *)
(* A text is a sequence of characters, or of longer pieces in their place: *)
(* "version_" with what comes behind it, an operator, an escape like %3A.  *)
(***************************************************************************)
EXTENDS Integers, Sequences, SequencesExt, Sublists

CONSTANTS Chars,     \* the pieces that texts are made of
          Unescape,  \* what a piece of a URL stands for: a space for "+", ":" for "%3A"
          Names,     \* the columns that the drawer of the page offers
          Values,    \* the values that nodes have
          Rank,      \* their order in SQL
          Undefined  \* undefined of JavaScript

Texts == Seq(Chars)

\* They end the parameter of the URL, and what is left of it is not JSON.
Cutters == {"&", "#"}

\* Texts that come through a URL as they are, and as one token.
Plain == Seq({ch \in Chars \ (Cutters \cup {":"}) : Unescape[ch] = ch})

Whole == Seq(Chars \ {":"})

Operators == {<<op>> : op \in {"eq", "not", "lt", "lte", "gt", "gte"}}

Filter == [name : Whole, value : Texts, op : Operators \cup {Undefined}]

\* One that the page has read or the user has saved.
Condition == {c \in Filter : c.name # <<>> \/ c.value \in Whole \ {<<>>}}

\* The provers do not know that Undefined is nothing else.
ASSUME FiltersAssumption ==
  /\ {":", "version"} \subseteq Chars /\ Unescape \in [Chars -> Chars]
  /\ Unescape[":"] = ":"
  /\ Operators \subseteq Plain /\ Names \subseteq Plain \ {<<>>, <<"country">>}
  /\ Values \subseteq Texts /\ Rank \in [Values -> Int]
  /\ Undefined \notin Filter /\ Undefined \notin Operators

-----------------------------------------------------------------------------
(* The page.                                                               *)

\* generateQueryStringFromFilterGroups, condition by condition.
Tokens(c) == <<c.name, c.value>> \o (IF c.op = Undefined THEN <<>> ELSE <<c.op>>)

Written(c) == IF c = Undefined THEN <<":">> ELSE Join(Tokens(c), ":")

Each(F(_), groups) ==
  [i \in DOMAIN groups |-> [j \in DOMAIN groups[i] |-> F(groups[i][j])]]

ToUrl(groups) == Each(Written, groups)

\* URLSearchParams, and the split of the text of a condition; pieces that are
\* missing are as good as empty.
Pieces(text) == Split([n \in DOMAIN text |-> Unescape[text[n]]], ":")

Piece(p, n) == IF n <= Len(p) THEN p[n] ELSE <<>>

Uncut(text) == \A n \in DOMAIN text : text[n] \notin Cutters

\* generateFilterGroupsFromQueryString: what it throws at, and what it returns.
CanRead(text) ==
  LET p == Pieces(text) IN
  /\ Uncut(text)
  /\ Piece(p, 3) \in Operators \cup {<<>>}
  /\ Piece(p, 1) # <<>> \/ Piece(p, 2) # <<>>

Readable(url) == \A i \in DOMAIN url : \A j \in DOMAIN url[i] : CanRead(url[i][j])

Read(text) ==
  LET p == Pieces(text) IN
  [name |-> p[1], value |-> Piece(p, 2),
   op   |-> IF Piece(p, 3) = <<>> THEN Undefined ELSE p[3]]

FromUrl(url) == Each(Read, url)

\* The URL has nothing but conditions with plain names and values.
IsPlain(c) == c.name \in Plain /\ c.value \in Plain /\ c.op \in Operators \cup {Undefined}

PlainUrl(url) ==
  \A i \in DOMAIN url : \A j \in DOMAIN url[i] :
    LET c == Read(url[i][j]) IN IsPlain(c) /\ url[i][j] = Written(c)

\* filterCount
FilterCount(groups) == Len(FlattenSeq(groups))

Defined(group) == Only(group, ToSet(group) \ {Undefined})

Pairs(group) ==
  [i \in DOMAIN Defined(group) |-> <<Defined(group)[i].name, Defined(group)[i].value>>]

\* hashGroup of cleanFilterGroup: the operator is not in it, and the sort, whose
\* comparison of strings by subtraction gives NaN, leaves the order as it is.
Hash(group) ==
  IF Pairs(group) = <<>> THEN <<>>
  ELSE Join([i \in DOMAIN Pairs(group) |->
               Pairs(group)[i][1] \o <<"=">> \o Pairs(group)[i][2]], "&")

\* cleanFilterGroup: the indices of the groups that it keeps.
Kept(groups) ==
  Only([i \in DOMAIN groups |-> i],
       {i \in DOMAIN groups : \A j \in 1 .. i - 1 : Hash(groups[j]) # Hash(groups[i])})

OfVersion(name) == name # <<>> /\ name[1] = "version_"

\* getUniqueFilters: a condition that occurs as often as there are groups gets a
\* tag.  Those on the version share one, and those on its other parts have none.
Tags(groups) ==
  LET all    == FlattenSeq([i \in DOMAIN groups |-> Pairs(groups[i])])
      common == {all[i] : i \in {k \in DOMAIN all : Len(Only(all, {all[k]})) = Len(groups)}}
      number == {<<"version_", part>> : part \in {"major", "minor", "patch"}}
  IN  {p[1] : p \in {q \in common : ~OfVersion(q[1])}}
        \cup {<<"version">> : p \in {q \in common : q[1] \in number /\ q[2] # <<>>}}

\* removeUniqueFilter: the tag "version" takes along every name that starts so.
TagTakes(tag, name) ==
  IF tag = <<"version">> THEN name # <<>> /\ name[1] \in {"version", "version_"}
  ELSE name = tag

\* set of drilldownFilter: the operator stays.
SetValue(group, name, value) ==
  IF \E i \in DOMAIN group : group[i] # Undefined /\ group[i].name = name
  THEN LET i == SelectInSeq(group, LAMBDA c : c # Undefined /\ c.name = name)
       IN  [group EXCEPT ![i].value = value]
  ELSE Append(group, [name |-> name, value |-> value, op |-> Undefined])

\* drilldownFilter on one group; a version sets several names.
Drilled(group, settings) ==
  LET set[n \in 0 .. Len(settings)] ==
        IF n = 0 THEN group
        ELSE SetValue(set[n - 1], settings[n][1], settings[n][2])
  IN  set[Len(settings)]

\* What a comparison says, by its symbol (FilterOperatorToSymbol, and SQL).
Compare(symbol, x, y) ==
  CASE symbol = "="  -> x = y
    [] symbol = "!=" -> x # y
    [] symbol = "<"  -> Rank[x] < Rank[y]
    [] symbol = "<=" -> Rank[x] <= Rank[y]
    [] symbol = ">"  -> Rank[x] > Rank[y]
    [] symbol = ">=" -> Rank[x] >= Rank[y]

FilterOperatorToSymbol ==
  [op \in Operators |->
     CASE op = <<"eq">>  -> "=" [] op = <<"not">> -> "!="
       [] op = <<"lt">>  -> "<" [] op = <<"lte">> -> "<="
       [] op = <<"gt">>  -> ">" [] op = <<"gte">> -> ">="]

\* The nodes that the page's drawer describes: the conditions of a group are
\* joined by "and", the groups by "or"; a group without conditions adds none.
Node == [Names -> Values]

Meant(groups, node) ==
  \E i \in DOMAIN groups :
    /\ groups[i] # <<>>
    /\ \A j \in DOMAIN groups[i] :
         LET c == groups[i][j] IN
         Compare(IF c.op = Undefined THEN "=" ELSE FilterOperatorToSymbol[c.op],
                 node[c.name], c.value)

-----------------------------------------------------------------------------
(* The API.                                                                *)

\* A variant that takes "lte" for "lt".
LessForBoth(p) ==
  IF Len(p) # 3 THEN "="
  ELSE CASE p[3] \in {<<"lt">>, <<"lte">>} -> "<" [] p[3] = <<"not">> -> "!="
         [] p[3] = <<"gt">> -> ">" [] p[3] = <<"gte">> -> ">=" [] OTHER -> "="

\* unmarshalFilterArgs: the comparator, and when it gives one.
Comp(p) ==
  IF Len(p) # 3 THEN "="
  ELSE CASE p[3] = <<"lt">>  -> "<"  [] p[3] = <<"lte">> -> "<="
         [] p[3] = <<"gt">>  -> ">"  [] p[3] = <<"gte">> -> ">="
         [] p[3] = <<"not">> -> "!=" [] OTHER -> "="

Unmarshals(text) == Uncut(text) /\ Len(Pieces(text)) \in {2, 3}

\* validateKey
ValidKey(text) == Pieces(text)[1] \in Names \cup {<<"id">>, <<"country">>}

\* addFilterArgs: the conditions of a group; those on other keys are left out,
\* but the ANDs between conditions are not.
Inner(group) == Only(group, {t \in ToSet(group) : ValidKey(t)})

\* The groups that get an OR (...): their text is not empty.
Text(group) == Inner(group) # <<>> \/ Len(group) > 1

\* The API makes a query of the URL and the database accepts it: no AND lacks a
\* side, and "country", which is a valid key and not a column, is not in it.
QueryOk(url) ==
  \A i \in DOMAIN url :
    /\ Text(url[i]) => Inner(url[i]) = url[i]
    /\ \A j \in DOMAIN url[i] :
         Unmarshals(url[i][j]) /\ Pieces(url[i][j])[1] # <<"country">>

\* The nodes it counts.  Without arguments there is no WHERE, and the lone FALSE
\* names the table.
Selected(url, node) ==
  \/ \A i \in DOMAIN url : Inner(url[i]) = <<>>
  \/ \E i \in DOMAIN url :
       /\ Text(url[i])
       /\ \A j \in DOMAIN Inner(url[i]) :
            LET p == Pieces(Inner(url[i])[j]) IN Compare(Comp(p), node[p[1]], p[2])
=============================================================================
