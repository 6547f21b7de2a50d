----------------------------- MODULE PageProofs -----------------------------
(***************************************************************************)
(* Proofs about Filters and DataMassager, for any lists of conditions and  *)
(* of counts; about the page, for any known nodes, any links that the page *)
(* is opened with and any number of groups, edits, clicks and requests;    *)
(* and about the lists that the API counts in the instance of MCPage.      *)
(***************************************************************************)
EXTENDS MCPage, ListProofs, FiniteSetTheorems

-----------------------------------------------------------------------------
(* Filters: what the page does to groups of conditions.                    *)

Group == Seq(Condition)

LEMMA SetValueType ==
  ASSUME NEW group \in Group, NEW name \in Whole \ {<<>>}, NEW value \in Texts
  PROVE  SetValue(group, name, value) \in Group
<1> DEFINE Has(c) == c # Undefined /\ c.name = name
           I == {i \in 1 .. Len(group) : Has(group[i])}
           found == \E i \in DOMAIN group : group[i] # Undefined /\ group[i].name = name
<1>0. DOMAIN group = 1 .. Len(group) /\ Len(group) \in Nat
  BY DEF Group
<1>1. CASE found
  <2> DEFINE at == SelectInSeq(group, LAMBDA c : c # Undefined /\ c.name = name)
  <2>1. I # {} /\ I \in SUBSET Nat
    BY <1>0, <1>1
  <2>2. at = Min(I)
    BY <2>1 DEF SelectInSeq
  <2>3. at \in 1 .. Len(group) /\ group[at].name = name
    <3>1. Min(I) \in I
      <4> HIDE DEF I
      <4>1. QED
        BY <2>1, MinIn
    <3>2. QED
      BY <2>2, <3>1
  <2>4. SetValue(group, name, value) = [group EXCEPT ![at].value = value]
    BY <1>1 DEF SetValue
  <2> HIDE DEF at
  <2>5. [group[at] EXCEPT !.value = value] \in Condition
    <3>1. group[at] \in Condition
      BY <2>3 DEF Group
    <3>2. QED
      BY <2>3, <3>1 DEF Condition, Filter
  <2>6. QED
    BY <2>3, <2>4, <2>5 DEF Group
<1>2. CASE ~found
  <2>1. SetValue(group, name, value)
          = Append(group, [name |-> name, value |-> value, op |-> Undefined])
    BY <1>2 DEF SetValue
  <2>2. [name |-> name, value |-> value, op |-> Undefined] \in Condition
    BY DEF Condition, Filter
  <2>3. QED
    BY <2>1, <2>2 DEF Group
<1>3. QED
  BY <1>1, <1>2

\* drilldownFilter keeps a group of saved conditions one.
LEMMA DrilledType ==
  ASSUME NEW group \in Group, NEW settings \in Seq((Whole \ {<<>>}) \X Texts)
  PROVE  Drilled(group, settings) \in Group
<1> DEFINE len == Len(settings)
           name(n) == settings[n][1]
           value(n) == settings[n][2]
           Step == [n \in 1 .. len |-> [g \in Group |-> SetValue(g, name(n), value(n))]]
           Body(g) == [n \in 0 .. len |->
                         IF n = 0 THEN group ELSE SetValue(g[n - 1], name(n), value(n))]
<1>1. len \in Nat /\ \A n \in 1 .. len : name(n) \in Whole \ {<<>>} /\ value(n) \in Texts
  OBVIOUS
<1>2. Step \in [1 .. len -> [Group -> Group]]
  <2> HIDE DEF len, name, value
  <2>1. QED
    BY <1>1, SetValueType
<1>3. PICK f \in [0 .. len -> Group] : Recursive(f, len, group, Step)
  <2> HIDE DEF Step, len
  <2>1. QED
    BY <1>1, <1>2, Recursion
<1>4. ASSUME NEW n \in 1 .. len
      PROVE  f[n] = SetValue(f[n - 1], name(n), value(n))
  <2>1. n - 1 \in 0 .. len
    BY <1>1
  <2>2. f[n] = Step[n][f[n - 1]]
    BY <1>3 DEF Recursive
  <2>3. Step[n] = [g \in Group |-> SetValue(g, name(n), value(n))]
    OBVIOUS
  <2> HIDE DEF Step, len, name, value
  <2>4. QED
    BY <1>3, <2>1, <2>2, <2>3
<1>5. f = Body(f)
  <2>1. \A n \in 0 .. len : f[n] = Body(f)[n]
    <3> TAKE n \in 0 .. len
    <3>1. CASE n = 0
      BY <1>3, <3>1 DEF Recursive
    <3>2. CASE n # 0
      <4>1. n \in 1 .. len
        BY <1>1, <3>2
      <4>2. Body(f)[n] = SetValue(f[n - 1], name(n), value(n))
        BY <3>2
      <4> HIDE DEF Body, len, name, value
      <4>3. QED
        BY <1>4, <4>1, <4>2
    <3>3. QED
      BY <3>1, <3>2
  <2>2. DOMAIN f = 0 .. len /\ f = [n \in 0 .. len |-> f[n]]
    BY <1>3
  <2>3. QED
    BY <2>1, <2>2
<1> DEFINE set == CHOOSE g : g = Body(g)
<1>6. set = Body(set)
  <2>1. \E g : g = Body(g)
    BY <1>5
  <2> HIDE DEF Body
  <2>2. QED
    BY <2>1
<1>7. Drilled(group, settings) = set[len]
  BY DEF Drilled
<1> HIDE DEF set
<1> DEFINE I == {n \in 0 .. len : set[n] \in Group}
<1>8. 0 \in I
  BY <1>1, <1>6
<1>9. ASSUME NEW n \in 1 .. len, n - 1 \in I PROVE n \in I
  <2>1. n \in 0 .. len /\ n # 0
    BY <1>1
  <2>2. Body(set)[n] = SetValue(set[n - 1], name(n), value(n))
    BY <2>1
  <2>3. set[n] = SetValue(set[n - 1], name(n), value(n))
    <3> HIDE DEF Body
    <3>1. QED
      BY <1>6, <2>2
  <2>4. set[n - 1] \in Group
    BY <1>9
  <2> HIDE DEF name, value, len
  <2>5. QED
    BY <1>1, <2>1, <2>3, <2>4, SetValueType
<1>10. \A n \in 0 .. len : n \in I
  <2> HIDE DEF I
  <2>1. QED
    BY <1>1, <1>8, <1>9, UpTo
<1>11. QED
  BY <1>1, <1>7, <1>10

\* What is saved of a group.
LEMMA DefinedType ==
  ASSUME NEW group \in Seq(Condition \cup {Undefined})
  PROVE  Defined(group) \in Group
<1> DEFINE T == Condition \cup {Undefined}
           S == ToSet(group) \ {Undefined}
<1>1. Only(group, S) \in Seq(T \cap S)
  BY OnlyType
<1>2. T \cap S \subseteq Condition
  OBVIOUS
<1>3. QED
  BY <1>1, <1>2 DEF Defined, Group

LEMMA DefinedAll ==
  ASSUME NEW group \in Group
  PROVE  Defined(group) = group
<1>1. \A n \in 1 .. Len(group) : group[n] \in ToSet(group) \ {Undefined}
  BY FiltersAssumption DEF FiltersAssumption, ToSet, Group, Condition
<1>2. QED
  BY <1>1, OnlyAll DEF Defined, Group

\* cleanFilterGroup keeps some of the groups.
LEMMA KeptType ==
  ASSUME NEW T, NEW groups \in Seq(T)
  PROVE  /\ Kept(groups) \in Seq(DOMAIN groups)
         /\ Len(Kept(groups)) <= Len(groups)
<1> DEFINE indices == [i \in DOMAIN groups |-> i]
           S == {i \in DOMAIN groups : \A j \in 1 .. i - 1 : Hash(groups[j]) # Hash(groups[i])}
           D == DOMAIN groups
<1>1. indices \in Seq(D) /\ Len(indices) = Len(groups)
  OBVIOUS
<1>2. /\ Only(indices, S) \in Seq(D \cap S)
      /\ Len(Only(indices, S)) <= Len(indices)
  <2> HIDE DEF S, indices, D
  <2>1. QED
    BY <1>1, OnlyType
<1>3. D \cap S \subseteq D
  OBVIOUS
<1>4. Kept(groups) = Only(indices, S)
  BY DEF Kept
<1>5. Only(indices, S) \in Seq(D)
  <2> HIDE DEF S, indices, D
  <2>1. QED
    BY <1>2, <1>3
<1>6. QED
  BY <1>1, <1>2, <1>4, <1>5

LEMMA PairsType ==
  ASSUME NEW group \in Group
  PROVE  Pairs(group) \in Seq(Whole \X Texts)
<1> DEFINE pair(c) == <<c.name, c.value>>
<1>1. Pairs(group) = [j \in DOMAIN group |-> pair(group[j])]
  BY DefinedAll DEF Pairs
<1>2. \A c \in Condition : pair(c) \in Whole \X Texts
  BY DEF Condition, Filter
<1>3. \A j \in DOMAIN group : group[j] \in Condition
  BY DEF Group
<1>4. DOMAIN group = 1 .. Len(group) /\ Len(group) \in Nat
  BY DEF Group
<1> HIDE DEF pair
<1>5. QED
  BY <1>1, <1>2, <1>3, <1>4

\* A tag is a name, or "version".
LEMMA TagsType ==
  ASSUME NEW groups \in Seq(Group)
  PROVE  Tags(groups) \subseteq Texts
<1> DEFINE Pair == Whole \X Texts
           pairs == [i \in DOMAIN groups |-> Pairs(groups[i])]
           all == FlattenSeq(pairs)
           common == {all[i] : i \in {k \in DOMAIN all : Len(Only(all, {all[k]})) = Len(groups)}}
           number == {<<"version_", part>> : part \in {"major", "minor", "patch"}}
<1>1. \A i \in DOMAIN groups : Pairs(groups[i]) \in Seq(Pair)
  <2> TAKE i \in DOMAIN groups
  <2>1. groups[i] \in Group
    OBVIOUS
  <2>2. QED
    BY <2>1, PairsType
<1>2. pairs \in Seq(Seq(Pair))
  BY <1>1
<1>3. all \in Seq(Pair)
  <2> HIDE DEF Pair, pairs
  <2>1. QED
    BY <1>2, FlattenType
<1>4. Tags(groups) = {p[1] : p \in {q \in common : ~OfVersion(q[1])}}
                       \cup {<<"version">> : p \in {q \in common : q[1] \in number /\ q[2] # <<>>}}
  BY DEF Tags
<1>5. \A p \in common : p[1] \in Texts
  <2>1. \A k \in DOMAIN all : all[k] \in Pair
    <3> HIDE DEF all, Pair
    <3>1. QED
      BY <1>3
  <2>2. \A p \in Pair : p[1] \in Texts
    <3>1. Whole \subseteq Texts
      BY DEF Whole, Texts
    <3>2. QED
      BY <3>1
  <2> HIDE DEF all, Pair
  <2>3. QED
    BY <2>1, <2>2
<1>6. <<"version">> \in Texts
  BY FiltersAssumption DEF FiltersAssumption, Texts
<1> HIDE DEF common, number
<1>7. QED
  BY <1>4, <1>5, <1>6

-----------------------------------------------------------------------------
(* Filters: the URL, and what the API makes of it.                         *)

LEMMA TextFacts ==
  /\ ":" \in Chars /\ Unescape \in [Chars -> Chars] /\ Unescape[":"] = ":"
  /\ Plain \subseteq Whole /\ Whole \subseteq Texts
  /\ Operators \subseteq Plain /\ <<>> \notin Operators
  /\ Undefined \notin Filter /\ Undefined \notin Operators
<1>1. <<>> \notin Operators
  BY DEF Operators
<1>2. QED
  BY <1>1, FiltersAssumption DEF FiltersAssumption, Plain, Whole, Texts

\* What a text is split into.
LEMMA PiecesType ==
  ASSUME NEW text \in Texts
  PROVE  /\ Pieces(text) \in Seq(Whole) /\ Len(Pieces(text)) \in Nat \ {0}
         /\ Pieces(text)[1] \in Whole
         /\ \A n \in Nat \ {0} : Piece(Pieces(text), n) \in Whole
         /\ Piece(Pieces(text), 1) = Pieces(text)[1]
<1> DEFINE decoded == [n \in DOMAIN text |-> Unescape[text[n]]]
<1>1. decoded \in Seq(Chars)
  BY TextFacts DEF Texts
<1>2. Pieces(text) = Split(decoded, ":")
  BY DEF Pieces
<1> HIDE DEF decoded
<1>3. Pieces(text) \in Parts(Chars \ {":"})
  BY <1>1, <1>2, SplitClean
<1>4. Pieces(text) \in Seq(Whole) /\ Pieces(text) # <<>>
  BY <1>3 DEF Parts, Whole
<1> DEFINE p == Pieces(text)
<1> HIDE DEF p
<1>5. p \in Seq(Whole) /\ p # <<>> /\ <<>> \in Whole
  BY <1>4 DEF p, Whole
<1>6. Len(p) \in Nat \ {0} /\ \A n \in 1 .. Len(p) : p[n] \in Whole
  BY <1>5
<1>7. \A n \in Nat \ {0} : Piece(p, n) \in Whole
  BY <1>5, <1>6 DEF Piece
<1>8. p[1] \in Whole /\ Piece(p, 1) = p[1]
  BY <1>6 DEF Piece
<1>9. QED
  BY <1>5, <1>6, <1>7, <1>8 DEF p

\* What the page reads is a condition.
LEMMA ReadType ==
  ASSUME NEW text \in Texts, CanRead(text)
  PROVE  Read(text) \in Condition
<1> DEFINE p == Pieces(text)
           c == Read(text)
<1> HIDE DEF p
<1>1. /\ p[1] \in Whole /\ Piece(p, 1) = p[1]
      /\ Piece(p, 2) \in Whole /\ Piece(p, 3) \in Whole
  BY PiecesType DEF p
<1>2. /\ Piece(p, 3) \in Operators \cup {<<>>}
      /\ Piece(p, 1) # <<>> \/ Piece(p, 2) # <<>>
  BY DEF CanRead, p
<1>3. Piece(p, 3) # <<>> => Piece(p, 3) = p[3]
  BY DEF Piece
<1>4. c = [name |-> p[1], value |-> Piece(p, 2),
           op   |-> IF Piece(p, 3) = <<>> THEN Undefined ELSE p[3]]
  BY DEF Read, p
<1> HIDE DEF c
<1>5. c.name = p[1] /\ c.value = Piece(p, 2) /\ c.op \in Operators \cup {Undefined}
  BY <1>2, <1>3, <1>4
<1>6. c \in Filter
  BY <1>1, <1>4, <1>5, TextFacts DEF Filter
<1>7. QED
  BY <1>1, <1>2, <1>5, <1>6 DEF Condition, c

LEMMA Pair ==
  ASSUME NEW T, NEW a \in T, NEW b \in T
  PROVE  /\ Append(<<a>>, b) = <<a, b>> /\ <<a>> \o <<b>> = <<a, b>>
         /\ <<a, b>> \in Seq(T) /\ <<a, b>> # <<>> /\ Len(<<a, b>>) = 2
         /\ <<a, b>>[1] = a /\ <<a, b>>[2] = b
<1> DEFINE one == <<a>>
           last == <<b>>
           two == <<a, b>>
<1>1. /\ one \in Seq(T) /\ Len(one) = 1 /\ one[1] = a
      /\ last \in Seq(T) /\ Len(last) = 1 /\ last[1] = b
      /\ two \in Seq(T) /\ Len(two) = 2 /\ two[1] = a /\ two[2] = b
  OBVIOUS
<1> HIDE DEF one, last, two
<1>2. one \o last = two
  <2>1. /\ Len(one) + Len(last) = Len(two)
        /\ \A i \in 1 .. Len(one) : one[i] = two[i]
        /\ \A i \in 1 .. Len(last) : last[i] = two[Len(one) + i]
    BY <1>1
  <2>2. QED
    BY <1>1, <2>1, Glued
<1>3. Append(one, b) = two
  <2> DEFINE more == Append(one, b)
  <2>1. /\ more \in Seq(T) /\ Len(more) = Len(one) + 1 /\ more[Len(one) + 1] = b
        /\ \A i \in 1 .. Len(one) : more[i] = one[i]
    BY <1>1, SeqAppend, Zenon
  <2> HIDE DEF more
  <2>2. /\ Len(one) + Len(last) = Len(more)
        /\ \A i \in 1 .. Len(last) : last[i] = more[Len(one) + i]
    BY <1>1, <2>1
  <2>3. one \o last = more
    BY <1>1, <2>1, <2>2, Glued
  <2>4. QED
    BY <1>2, <2>3 DEF more
<1>4. two # <<>>
  <2>1. Len(<<>>) = 0
    OBVIOUS
  <2>2. QED
    BY <1>1, <2>1
<1>5. QED
  BY <1>1, <1>2, <1>3, <1>4, Zenon DEF one, last, two

\* The text of a condition, character by character.
LEMMA WrittenText ==
  ASSUME NEW c \in Filter
  PROVE  /\ Written(c) \in Texts
         /\ c.op = Undefined => Written(c) = c.name \o <<":">> \o c.value
         /\ c.op # Undefined =>
              Written(c) = (c.name \o <<":">> \o c.value) \o <<":">> \o c.op
<1>1. /\ c.name \in Texts /\ c.value \in Texts /\ c # Undefined /\ ":" \in Chars
      /\ c.op # Undefined => c.op \in Texts
  BY TextFacts DEF Filter
<1> DEFINE n == c.name
           v == c.value
<1> HIDE DEF n, v
<1>2. n \in Seq(Chars) /\ v \in Seq(Chars) /\ <<n>> \in Parts(Chars)
  BY <1>1 DEF n, v, Texts, Parts
<1>3. Join(<<n>>, ":") = n
  BY <1>1, <1>2, JoinOne
<1>4. Append(<<n>>, v) = <<n, v>> /\ <<n, v>> \in Parts(Chars)
  BY <1>2, Pair DEF Parts
<1>5. Join(Append(<<n>>, v), ":") = Join(<<n>>, ":") \o <<":">> \o v
  BY <1>1, <1>2, JoinAppend
<1>6. Join(<<n, v>>, ":") = n \o <<":">> \o v
  BY <1>3, <1>4, <1>5
<1>7. CASE c.op = Undefined
  <2>1. Tokens(c) = <<n, v>>
    BY <1>2, <1>7 DEF Tokens, n, v
  <2>2. Written(c) = Join(<<n, v>>, ":")
    BY <1>1, <2>1 DEF Written
  <2>3. Written(c) \in Texts
    BY <1>1, <1>4, <2>2, JoinType DEF Texts
  <2>4. QED
    BY <1>6, <1>7, <2>2, <2>3 DEF n, v
<1>8. CASE c.op # Undefined
  <2> DEFINE o == c.op
  <2> HIDE DEF o
  <2>1. o \in Seq(Chars)
    BY <1>1, <1>8 DEF o, Texts
  <2>2. Tokens(c) = <<n, v>> \o <<o>>
    BY <1>8 DEF Tokens, n, v, o
  <2>3. Tokens(c) = Append(<<n, v>>, o) /\ Tokens(c) \in Parts(Chars)
    <3>1. <<n, v>> \in Seq(Seq(Chars)) /\ <<n, v>> \o <<o>> = Append(<<n, v>>, o)
      BY <1>2, <2>1
    <3>2. QED
      BY <2>1, <2>2, <3>1, SeqAppend DEF Parts
  <2>4. Join(Append(<<n, v>>, o), ":") = Join(<<n, v>>, ":") \o <<":">> \o o
    BY <1>1, <1>4, <2>1, JoinAppend
  <2>5. Written(c) = Join(Tokens(c), ":")
    BY <1>1 DEF Written
  <2>6. Written(c) \in Texts
    BY <1>1, <2>3, <2>5, JoinType DEF Texts
  <2>7. Written(c) = (n \o <<":">> \o v) \o <<":">> \o o
    BY <1>6, <2>3, <2>4, <2>5
  <2>8. QED
    BY <1>8, <2>6, <2>7 DEF n, v, o
<1>9. QED
  BY <1>7, <1>8

\* The conditions that the URL carries as they are.
PlainFilter == [name : Plain, value : Plain, op : Operators \cup {Undefined}]

\* Such a condition is split into the tokens that it was joined of, and read back.
LEMMA PlainRead ==
  ASSUME NEW c \in PlainFilter
  PROVE  /\ c \in Filter /\ Uncut(Written(c)) /\ Pieces(Written(c)) = Tokens(c)
         /\ Tokens(c)[1] = c.name /\ Piece(Tokens(c), 2) = c.value
         /\ Tokens(c)[2] = c.value /\ Piece(Tokens(c), 1) = c.name
         /\ c.op = Undefined => Len(Tokens(c)) = 2 /\ Piece(Tokens(c), 3) = <<>>
         /\ c.op # Undefined => /\ Len(Tokens(c)) = 3 /\ Piece(Tokens(c), 3) = c.op
                                /\ Tokens(c)[3] = c.op
         /\ Read(Written(c)) = c
<1> DEFINE P == {ch \in Chars \ (Cutters \cup {":"}) : Unescape[ch] = ch}
           T == P \cup {":"}
           w == Written(c)
<1>1. /\ c.name \in Plain /\ c.value \in Plain
      /\ c.op \in Operators \cup {Undefined}
      /\ c = [name |-> c.name, value |-> c.value, op |-> c.op]
  BY DEF PlainFilter
<1>2. c \in Filter /\ c # Undefined
  BY <1>1, TextFacts DEF Filter
<1> DEFINE n == c.name
           v == c.value
           o == c.op
<1> HIDE DEF n, v, o
<1>3. n \in Plain /\ v \in Plain /\ (o # Undefined => o \in Plain /\ o # <<>>)
  BY <1>1, TextFacts DEF n, v, o
<1>4. /\ Tokens(c) \in Seq(Plain) /\ Tokens(c) # <<>>
      /\ Tokens(c)[1] = n /\ Tokens(c)[2] = v
      /\ o = Undefined => Len(Tokens(c)) = 2
      /\ o # Undefined => Len(Tokens(c)) = 3 /\ Tokens(c)[3] = o
  <2>1. CASE o = Undefined
    <3>1. Tokens(c) = <<n, v>>
      BY <1>3, <2>1 DEF Tokens, n, v, o
    <3>2. QED
      BY <1>3, <2>1, <3>1
  <2>2. CASE o # Undefined
    <3>1. Tokens(c) = <<n, v>> \o <<o>>
      BY <2>2 DEF Tokens, n, v, o
    <3>2. <<n, v>> \in Seq(Plain) /\ <<o>> \in Seq(Plain) /\ Len(<<n, v>>) = 2
          /\ Len(<<o>>) = 1 /\ <<n, v>>[1] = n /\ <<n, v>>[2] = v /\ <<o>>[1] = o
      BY <1>3, <2>2
    <3> DEFINE first == <<n, v>>
               last == <<o>>
    <3> HIDE DEF first, last
    <3>3. /\ first \o last \in Seq(Plain) /\ Len(first \o last) = 3
          /\ (first \o last)[1] = n /\ (first \o last)[2] = v /\ (first \o last)[3] = o
      BY <3>2 DEF first, last
    <3>4. Tokens(c) = first \o last
      BY <3>1 DEF first, last
    <3>5. QED
      BY <2>2, <3>3, <3>4
  <2>3. QED
    BY <2>1, <2>2
<1>5. /\ P \subseteq Chars /\ ":" \notin P /\ P \cap Cutters = {} /\ Plain = Seq(P)
      /\ \A ch \in T : Unescape[ch] = ch /\ ch \notin Cutters
  BY TextFacts DEF Plain, Cutters
<1> HIDE DEF P
<1>6. Tokens(c) \in Parts(P)
  BY <1>4, <1>5 DEF Parts
<1>7. T \ {":"} = P /\ ":" \in T
  BY <1>5
<1>8. w = Join(Tokens(c), ":")
  BY <1>2 DEF Written
<1>9. Parts(P) \subseteq Parts(T)
  <2>1. Seq(P) \subseteq Seq(T)
    OBVIOUS
  <2> HIDE DEF T
  <2>2. QED
    BY <2>1 DEF Parts
<1> HIDE DEF T, w
<1>10. w \in Seq(T)
  BY <1>6, <1>7, <1>8, <1>9, JoinType
<1>11. [k \in DOMAIN w |-> Unescape[w[k]]] = w /\ Uncut(w)
  <2>1. \A k \in DOMAIN w : w[k] \in T
    BY <1>10
  <2>2. w = [k \in DOMAIN w |-> w[k]]
    BY <1>10
  <2>3. QED
    BY <1>5, <2>1, <2>2 DEF Uncut
<1>12. Split(w, ":") = Tokens(c)
  BY <1>6, <1>7, <1>8, SplitUndoesJoin
<1>13. Pieces(w) = Tokens(c)
  BY <1>11, <1>12 DEF Pieces
<1>14. /\ Piece(Tokens(c), 1) = n /\ Piece(Tokens(c), 2) = v
       /\ o = Undefined => Piece(Tokens(c), 3) = <<>>
       /\ o # Undefined => Piece(Tokens(c), 3) = o
  BY <1>4 DEF Piece
<1>15. Read(w) = c
  <2>1. Read(w) = [name |-> n, value |-> v,
                   op   |-> IF Piece(Tokens(c), 3) = <<>> THEN Undefined ELSE Tokens(c)[3]]
    BY <1>4, <1>13, <1>14 DEF Read
  <2>2. (IF Piece(Tokens(c), 3) = <<>> THEN Undefined ELSE Tokens(c)[3]) = o
    BY <1>3, <1>4, <1>14
  <2>3. QED
    BY <1>1, <2>1, <2>2 DEF n, v, o
<1>16. QED
  BY <1>2, <1>4, <1>11, <1>13, <1>14, <1>15 DEF w, n, v, o

\* The texts that the page writes.
SavedToken == {Written(c) : c \in Condition}

LEMMA SavedTokens == SavedToken \subseteq Texts
BY WrittenText DEF SavedToken, Condition

LEMMA ToUrlType ==
  ASSUME NEW groups \in Seq(Group)
  PROVE  /\ ToUrl(groups) \in Seq(Seq(SavedToken))
         /\ Len(ToUrl(groups)) = Len(groups)
         /\ \A i \in 1 .. Len(groups) :
              /\ Len(ToUrl(groups)[i]) = Len(groups[i])
              /\ \A j \in 1 .. Len(groups[i]) : ToUrl(groups)[i][j] = Written(groups[i][j])
<1> DEFINE row(group) == [j \in DOMAIN group |-> Written(group[j])]
<1>1. ToUrl(groups) = [i \in DOMAIN groups |-> row(groups[i])]
  BY DEF ToUrl, Each
<1>2. ASSUME NEW group \in Group
      PROVE  /\ row(group) \in Seq(SavedToken) /\ Len(row(group)) = Len(group)
             /\ \A j \in 1 .. Len(group) : row(group)[j] = Written(group[j])
  <2>1. DOMAIN group = 1 .. Len(group) /\ Len(group) \in Nat
    BY DEF Group
  <2>2. \A j \in 1 .. Len(group) : Written(group[j]) \in SavedToken
    BY DEF Group, SavedToken
  <2>3. QED
    BY <2>1, <2>2
<1>3. /\ DOMAIN groups = 1 .. Len(groups) /\ Len(groups) \in Nat
      /\ \A i \in 1 .. Len(groups) : groups[i] \in Group
  OBVIOUS
<1> HIDE DEF row
<1>4. QED
  BY <1>1, <1>2, <1>3

\* A URL that the page reads has groups of conditions.
LEMMA FromUrlType ==
  ASSUME NEW asks \in Seq(Seq(Texts)), Readable(asks)
  PROVE  FromUrl(asks) \in Seq(Group) /\ Len(FromUrl(asks)) = Len(asks)
<1> DEFINE row(group) == [j \in DOMAIN group |-> Read(group[j])]
<1>1. FromUrl(asks) = [i \in DOMAIN asks |-> row(asks[i])]
  BY DEF FromUrl, Each
<1>2. ASSUME NEW group \in Seq(Texts), \A j \in DOMAIN group : CanRead(group[j])
      PROVE  row(group) \in Group
  <2>1. /\ DOMAIN group = 1 .. Len(group) /\ Len(group) \in Nat
        /\ \A j \in 1 .. Len(group) : group[j] \in Texts
    OBVIOUS
  <2>2. \A j \in 1 .. Len(group) : Read(group[j]) \in Condition
    BY <1>2, <2>1, ReadType
  <2>3. QED
    BY <2>1, <2>2 DEF Group
<1>3. /\ DOMAIN asks = 1 .. Len(asks) /\ Len(asks) \in Nat
      /\ \A i \in 1 .. Len(asks) : asks[i] \in Seq(Texts)
      /\ \A i \in 1 .. Len(asks) : \A j \in DOMAIN asks[i] : CanRead(asks[i][j])
  BY DEF Readable
<1> HIDE DEF row
<1>4. \A i \in 1 .. Len(asks) : row(asks[i]) \in Group
  BY <1>2, <1>3
<1>5. QED
  BY <1>1, <1>3, <1>4

\* generateQueryStringFromFilterGroups and generateFilterGroupsFromQueryString,
\* join(':') and split(':'): the page can read the URL of any groups of
\* conditions with plain names and values, and it reads these groups, with every
\* operator.  It is not so for a value with ":", "&", "#", or an escape in it.
THEOREM UrlRoundTrip ==
  ASSUME NEW groups \in Seq(Seq(PlainFilter)),
         \A i \in DOMAIN groups : \A j \in DOMAIN groups[i] :
           groups[i][j].name # <<>> \/ groups[i][j].value # <<>>
  PROVE  Readable(ToUrl(groups)) /\ FromUrl(ToUrl(groups)) = groups
<1> DEFINE u == ToUrl(groups)
           row(group) == [j \in DOMAIN group |-> Written(group[j])]
<1>1. u = [i \in DOMAIN groups |-> row(groups[i])]
  BY DEF ToUrl, Each
<1>2. /\ DOMAIN groups = 1 .. Len(groups) /\ groups = [i \in DOMAIN groups |-> groups[i]]
      /\ \A i \in DOMAIN groups : groups[i] \in Seq(PlainFilter)
  OBVIOUS
<1> HIDE DEF u
<1>3. ASSUME NEW i \in DOMAIN groups
      PROVE  /\ DOMAIN u[i] = DOMAIN groups[i]
             /\ \A j \in DOMAIN u[i] : CanRead(u[i][j]) /\ Read(u[i][j]) = groups[i][j]
             /\ groups[i] = [j \in DOMAIN groups[i] |-> groups[i][j]]
  <2>1. u[i] = [j \in DOMAIN groups[i] |-> Written(groups[i][j])]
    BY <1>1
  <2>2. /\ \A j \in DOMAIN groups[i] : groups[i][j] \in PlainFilter
        /\ groups[i] = [j \in DOMAIN groups[i] |-> groups[i][j]]
    BY <1>2
  <2>3. ASSUME NEW j \in DOMAIN groups[i]
        PROVE  CanRead(Written(groups[i][j])) /\ Read(Written(groups[i][j])) = groups[i][j]
    <3> DEFINE c == groups[i][j]
    <3>1. c \in PlainFilter /\ (c.name # <<>> \/ c.value # <<>>)
      BY <2>2
    <3> HIDE DEF c
    <3>2. c.op \in Operators \cup {Undefined}
      BY <3>1 DEF PlainFilter
    <3>3. CanRead(Written(c)) /\ Read(Written(c)) = c
      BY <3>1, <3>2, PlainRead DEF CanRead
    <3>4. QED
      BY <3>3 DEF c
  <2>4. QED
    BY <2>1, <2>2, <2>3
<1>4. DOMAIN u = DOMAIN groups
  BY <1>1
<1>5. Readable(u)
  BY <1>3, <1>4 DEF Readable
<1>6. FromUrl(u) = groups
  <2>1. FromUrl(u) = [i \in DOMAIN u |-> [j \in DOMAIN u[i] |-> Read(u[i][j])]]
    BY DEF FromUrl, Each
  <2>2. \A i \in DOMAIN groups : [j \in DOMAIN u[i] |-> Read(u[i][j])] = groups[i]
    BY <1>3
  <2>3. QED
    BY <1>2, <1>4, <2>1, <2>2
<1>7. QED
  BY <1>5, <1>6 DEF u

\* What is read of the plain text of a URL.
LEMMA PlainToken ==
  ASSUME NEW text \in Texts, IsPlain(Read(text)), text = Written(Read(text))
  PROVE  Read(text) \in PlainFilter
<1>1. Read(text) = [name |-> Read(text).name, value |-> Read(text).value, op |-> Read(text).op]
  BY DEF Read
<1>2. QED
  BY <1>1 DEF IsPlain, PlainFilter

\* A condition that was read or saved has a name or a value; the text of one that
\* was neither has not.
LEMMA SavedReadable ==
  ASSUME NEW text \in SavedToken, IsPlain(Read(text)), text = Written(Read(text))
  PROVE  CanRead(text)
<1> DEFINE r == Read(text)
<1>1. text \in Texts /\ r \in PlainFilter
  BY SavedTokens, PlainToken
<1>2. PICK c \in Condition : text = Written(c)
  BY DEF SavedToken
<1>3. text = Written(r)
  OBVIOUS
<1> HIDE DEF r
<1>4. r \in Filter /\ r.op \in Operators \cup {Undefined}
  BY <1>1, PlainRead DEF PlainFilter
<1>5. SUFFICES ASSUME r.name = <<>>, r.value = <<>> PROVE FALSE
  BY <1>1, <1>3, <1>4, PlainRead DEF CanRead
<1>6. text[1] = ":" /\ (Len(text) = 1 \/ text[2] = ":")
  <2>1. CASE r.op = Undefined
    <3>1. text = <<>> \o <<":">> \o <<>>
      BY <1>3, <1>4, <1>5, <2>1, WrittenText
    <3>2. text = <<":">>
      BY <3>1
    <3>3. QED
      BY <3>2
  <2>2. CASE r.op # Undefined
    <3>1. text = (<<>> \o <<":">> \o <<>>) \o <<":">> \o r.op /\ r.op \in Texts
      BY <1>3, <1>4, <1>5, <2>2, WrittenText, TextFacts
    <3> DEFINE o == r.op
    <3> HIDE DEF o
    <3>2. o \in Seq(Chars) /\ ":" \in Chars /\ text = (<<>> \o <<":">> \o <<>>) \o <<":">> \o o
      BY <3>1, TextFacts DEF o, Texts
    <3> DEFINE ch == ":"
               two == <<ch, ch>>
    <3>3. ch \in Chars
      BY <3>2
    <3> HIDE DEF ch
    <3>4. <<>> \o <<ch>> \o <<>> = <<ch>>
      OBVIOUS
    <3>5. two \in Seq(Chars) /\ <<ch>> \o <<ch>> = two
          /\ Len(two) = 2 /\ two[1] = ch /\ two[2] = ch
      BY <3>3, Pair
    <3>6. text = (<<>> \o <<ch>> \o <<>>) \o <<ch>> \o o
      BY <3>2 DEF ch
    <3> HIDE DEF two
    <3>7. text = two \o o
      BY <3>4, <3>5, <3>6
    <3>8. \A i \in 1 .. Len(two) : (two \o o)[i] = two[i]
      BY <3>2, <3>5, Concat
    <3>9. QED
      BY <3>5, <3>7, <3>8 DEF ch
  <2>3. QED
    BY <2>1, <2>2
<1> DEFINE n == c.name
           v == c.value
           colon == <<":">>
<1>7. /\ n \in Whole /\ v \in Texts /\ c \in Filter
      /\ n # <<>> \/ v \in Whole \ {<<>>}
  BY <1>2 DEF Condition, Filter
<1>8. colon \in Seq(Chars) /\ Len(colon) = 1 /\ colon[1] = ":"
  BY TextFacts
<1> HIDE DEF n, v, colon
<1>9. \E rest \in Seq(Chars) : text = (n \o colon \o v) \o rest
  <2>1. n \in Seq(Chars) /\ v \in Seq(Chars)
    BY <1>7, TextFacts DEF Texts
  <2>2. CASE c.op = Undefined
    <3>1. text = n \o colon \o v
      BY <1>2, <1>7, <2>2, WrittenText DEF n, v, colon
    <3>2. (n \o colon \o v) \o <<>> = n \o colon \o v /\ <<>> \in Seq(Chars)
      BY <1>8, <2>1
    <3>3. QED
      BY <3>1, <3>2
  <2>3. CASE c.op # Undefined
    <3> DEFINE o == c.op
    <3>1. text = (n \o colon \o v) \o colon \o o
      BY <1>2, <1>7, <2>3, WrittenText DEF n, v, colon
    <3>2. o \in Seq(Chars)
      BY <1>7, <2>3, TextFacts DEF Filter, Texts
    <3> HIDE DEF o
    <3>3. colon \o o \in Seq(Chars)
      BY <1>8, <3>2
    <3>4. ((n \o colon \o v) \o colon) \o o = (n \o colon \o v) \o (colon \o o)
      BY <1>8, <2>1, <3>2
    <3>5. QED
      BY <3>1, <3>3, <3>4
  <2>4. QED
    BY <2>2, <2>3
<1>10. PICK rest \in Seq(Chars) : text = (n \o colon \o v) \o rest
  BY <1>9
<1>11. n \in Seq(Chars) /\ v \in Seq(Chars)
  BY <1>7, TextFacts DEF Texts
<1>12. CASE n # <<>>
  <2>1. Len(n) > 0 /\ n[1] \in Chars \ {":"}
    BY <1>7, <1>12 DEF Whole
  <2>2. text[1] = n[1]
    BY <1>8, <1>10, <1>11, <2>1
  <2>3. QED
    BY <1>6, <2>1, <2>2
<1>13. CASE n = <<>>
  <2>1. v # <<>> /\ Len(v) > 0 /\ v[1] \in Chars \ {":"}
    BY <1>7, <1>13 DEF Whole
  <2>2. n \o colon \o v = colon \o v
    BY <1>8, <1>11, <1>13
  <2> DEFINE first == colon \o v
  <2>3. /\ first \in Seq(Chars) /\ Len(first) = 1 + Len(v) /\ Len(v) \in Nat
        /\ first[1 + 1] = v[1]
    <3>1. v \in Seq(Chars) /\ 1 \in 1 .. Len(v) /\ Len(v) \in Nat
      BY <1>11, <2>1
    <3>2. /\ first \in Seq(Chars) /\ Len(first) = Len(colon) + Len(v)
          /\ \A i \in 1 .. Len(v) : first[Len(colon) + i] = v[i]
      <4>1. colon \in Seq(Chars) /\ v \in Seq(Chars)
        BY <1>8, <3>1
      <4>2. /\ colon \o v \in Seq(Chars) /\ Len(colon \o v) = Len(colon) + Len(v)
            /\ \A i \in 1 .. Len(v) : (colon \o v)[Len(colon) + i] = v[i]
        BY <4>1, Concat, SMTT(60)
      <4>3. QED
        BY <4>2, Zenon
    <3>3. QED
      BY <1>8, <3>1, <3>2
  <2> HIDE DEF first
  <2>4. text = first \o rest
    BY <1>10, <2>2 DEF first
  <2>5. /\ Len(text) = Len(first) + Len(rest) /\ Len(rest) \in Nat
        /\ 2 <= Len(first) => text[2] = first[2]
    <3>1. /\ Len(text) = Len(first) + Len(rest) /\ Len(rest) \in Nat
          /\ \A i \in 1 .. Len(first) : text[i] = first[i]
      BY <2>3, <2>4, Concat
    <3>2. 2 <= Len(first) => 2 \in 1 .. Len(first)
      BY <2>3
    <3>3. 2 <= Len(first) => text[2] = first[2]
      BY <3>1, <3>2, Zenon
    <3>4. QED
      BY <3>1, <3>3
  <2>6. Len(text) > 1 /\ text[2] = v[1]
    BY <2>1, <2>3, <2>5
  <2>7. QED
    BY <1>6, <2>1, <2>6
<1>14. QED
  BY <1>12, <1>13

\* unmarshalFilterArgs knows the operators of FilterOperatorToSymbol.
LEMMA SameComparison ==
  ASSUME NEW c \in PlainFilter
  PROVE  Comp(Tokens(c)) = IF c.op = Undefined THEN "=" ELSE FilterOperatorToSymbol[c.op]
<1>1. CASE c.op = Undefined
  <2>1. Len(Tokens(c)) = 2
    BY <1>1, PlainRead
  <2>2. QED
    BY <1>1, <2>1 DEF Comp
<1>2. CASE c.op # Undefined
  <2>1. Len(Tokens(c)) = 3 /\ Tokens(c)[3] = c.op /\ c.op \in Operators
    BY <1>2, PlainRead DEF PlainFilter
  <2> DEFINE o == c.op
  <2> HIDE DEF o
  <2>2. Comp(Tokens(c)) = CASE o = <<"lt">>  -> "<"  [] o = <<"lte">> -> "<="
                            [] o = <<"gt">>  -> ">"  [] o = <<"gte">> -> ">="
                            [] o = <<"not">> -> "!=" [] OTHER -> "="
    BY <2>1 DEF Comp, o
  <2>3. o \in {<<"eq">>, <<"not">>, <<"lt">>, <<"lte">>, <<"gt">>, <<"gte">>}
    BY <2>1 DEF Operators, o
  <2>4. FilterOperatorToSymbol[o] =
          CASE o = <<"eq">>  -> "=" [] o = <<"not">> -> "!="
            [] o = <<"lt">>  -> "<" [] o = <<"lte">> -> "<="
            [] o = <<"gt">>  -> ">" [] o = <<"gte">> -> ">="
    BY <2>1 DEF FilterOperatorToSymbol, o
  <2>5. Comp(Tokens(c)) = FilterOperatorToSymbol[o]
    BY <2>2, <2>3, <2>4
  <2>6. QED
    BY <1>2, <2>5 DEF o
<1>3. QED
  BY <1>1, <1>2

\* addFilterArgs leaves no condition out of a group on the names of the drawer.
LEMMA InnerAll ==
  ASSUME NEW group \in Seq(Texts), \A j \in DOMAIN group : Pieces(group[j])[1] \in Names
  PROVE  Inner(group) = group /\ (Text(group) <=> group # <<>>)
<1>1. \A j \in 1 .. Len(group) : group[j] \in {t \in ToSet(group) : ValidKey(t)}
  BY DEF ToSet, ValidKey
<1>2. Inner(group) = group
  BY <1>1, OnlyAll DEF Inner
<1>3. Len(group) > 1 => group # <<>>
  OBVIOUS
<1>4. QED
  BY <1>2, <1>3 DEF Text

\* addFilterArgs against the drawer's words "and" and "or": a URL of conditions
\* with plain values, on names that the drawer offers and with a condition, makes
\* a query that the database accepts, and that selects the nodes that the page
\* means.
THEOREM ApiSelectsWhatIsMeant ==
  ASSUME NEW asks \in Seq(Seq(Texts)), Offered(asks),
         \E i \in DOMAIN asks : asks[i] # <<>>
  PROVE  /\ QueryOk(asks)
         /\ \A node \in Node : Selected(asks, node) <=> Meant(FromUrl(asks), node)
<1>1. \A i \in DOMAIN asks : asks[i] \in Seq(Texts)
  OBVIOUS
<1> DEFINE Holds(t, node) ==
             Compare(Comp(Pieces(t)), node[Pieces(t)[1]], Pieces(t)[2])
           Says(c, node) ==
             Compare(IF c.op = Undefined THEN "=" ELSE FilterOperatorToSymbol[c.op],
                     node[c.name], c.value)
<1>2. ASSUME NEW i \in DOMAIN asks, NEW j \in DOMAIN asks[i]
      PROVE  /\ Unmarshals(asks[i][j]) /\ Pieces(asks[i][j])[1] \in Names
             /\ \A node : Holds(asks[i][j], node) <=> Says(Read(asks[i][j]), node)
  <2> DEFINE t == asks[i][j]
             c == Read(t)
  <2>1. t \in Texts
    BY <1>1
  <2>2. IsPlain(c) /\ t = Written(c) /\ c.name \in Names
    BY DEF Offered, PlainUrl
  <2> HIDE DEF t
  <2>3. c \in PlainFilter
    BY <2>1, <2>2, PlainToken
  <2> HIDE DEF c
  <2>4. /\ Uncut(t) /\ Pieces(t) = Tokens(c) /\ Tokens(c)[1] = c.name
        /\ Tokens(c)[2] = c.value /\ Len(Tokens(c)) \in {2, 3}
    BY <2>2, <2>3, PlainRead
  <2>5. Comp(Pieces(t)) = IF c.op = Undefined THEN "=" ELSE FilterOperatorToSymbol[c.op]
    BY <2>3, <2>4, SameComparison
  <2>6. \A node : Holds(t, node) <=> Says(c, node)
    BY <2>4, <2>5
  <2> HIDE DEF Holds, Says
  <2>7. Unmarshals(t) /\ Pieces(t)[1] \in Names
    BY <2>2, <2>4 DEF Unmarshals
  <2>8. QED
    BY <2>6, <2>7 DEF c, t
<1>3. \A i \in DOMAIN asks : Inner(asks[i]) = asks[i] /\ (Text(asks[i]) <=> asks[i] # <<>>)
  BY <1>1, <1>2, InnerAll
<1>4. QueryOk(asks)
  BY <1>2, <1>3, FiltersAssumption DEF QueryOk, FiltersAssumption
<1>5. ASSUME NEW node \in Node
      PROVE  Selected(asks, node) <=> Meant(FromUrl(asks), node)
  <2>1. Selected(asks, node) <=>
          \E i \in DOMAIN asks :
            asks[i] # <<>> /\ \A j \in DOMAIN asks[i] : Holds(asks[i][j], node)
    BY <1>3 DEF Selected
  <2>2. /\ DOMAIN FromUrl(asks) = DOMAIN asks
        /\ \A i \in DOMAIN asks : FromUrl(asks)[i] = [j \in DOMAIN asks[i] |-> Read(asks[i][j])]
    BY DEF FromUrl, Each
  <2>3. \A i \in DOMAIN asks : FromUrl(asks)[i] = <<>> <=> asks[i] = <<>>
    BY <1>1, <2>2
  <2>4. Meant(FromUrl(asks), node) <=>
          \E i \in DOMAIN asks :
            asks[i] # <<>> /\ \A j \in DOMAIN asks[i] : Says(Read(asks[i][j]), node)
    <3>1. Meant(FromUrl(asks), node) <=>
            \E i \in DOMAIN FromUrl(asks) :
              /\ FromUrl(asks)[i] # <<>>
              /\ \A j \in DOMAIN FromUrl(asks)[i] : Says(FromUrl(asks)[i][j], node)
      BY DEF Meant
    <3> HIDE DEF Says
    <3>2. QED
      BY <2>2, <2>3, <3>1
  <2> HIDE DEF Says, Holds
  <2>5. QED
    BY <1>2, <2>1, <2>4
<1>6. QED
  BY <1>4, <1>5

-----------------------------------------------------------------------------
(* DataMassager.                                                           *)

\* The recursion that Total is: sum has the totals of the first items.
TotalRec(list, sum) ==
  /\ sum \in [0 .. Len(list) -> Nat]
  /\ sum[0] = 0
  /\ \A n \in 1 .. Len(list) : sum[n] = sum[n - 1] + list[n].count
  /\ Total(list) = sum[Len(list)]

LEMMA TotalDef ==
  ASSUME NEW T, \A item \in T : item.count \in Nat, NEW list \in Seq(T)
  PROVE  \E sum : TotalRec(list, sum)
<1> DEFINE len == Len(list)
           count(n) == list[n].count
           Step == [n \in 1 .. len |-> [x \in Nat |-> x + count(n)]]
           Body(g) == [n \in 0 .. len |-> IF n = 0 THEN 0 ELSE g[n - 1] + list[n].count]
<1>1. len \in Nat /\ \A n \in 1 .. len : count(n) \in Nat
  OBVIOUS
<1>2. Step \in [1 .. len -> [Nat -> Nat]]
  <2> HIDE DEF len, count
  <2>1. QED
    BY <1>1
<1>3. PICK f \in [0 .. len -> Nat] : Recursive(f, len, 0, Step)
  <2>1. 0 \in Nat
    OBVIOUS
  <2> HIDE DEF Step, len
  <2>2. QED
    BY <1>1, <1>2, <2>1, Recursion
<1>4. ASSUME NEW n \in 1 .. len
      PROVE  f[n] = f[n - 1] + count(n)
  <2>1. n - 1 \in 0 .. len
    BY <1>1
  <2>2. f[n] = Step[n][f[n - 1]]
    BY <1>3 DEF Recursive
  <2>3. Step[n] = [x \in Nat |-> x + count(n)]
    OBVIOUS
  <2> HIDE DEF Step, len, count
  <2>4. QED
    BY <1>3, <2>1, <2>2, <2>3
<1>5. f = Body(f)
  <2>1. \A n \in 0 .. len : f[n] = Body(f)[n]
    <3> TAKE n \in 0 .. len
    <3>1. CASE n = 0
      BY <1>3, <3>1 DEF Recursive
    <3>2. CASE n # 0
      <4>1. n \in 1 .. len
        BY <1>1, <3>2
      <4>2. Body(f)[n] = f[n - 1] + count(n)
        BY <3>2
      <4> HIDE DEF Body, len, count
      <4>3. QED
        BY <1>4, <4>1, <4>2
    <3>3. QED
      BY <3>1, <3>2
  <2>2. DOMAIN f = 0 .. len /\ f = [n \in 0 .. len |-> f[n]]
    BY <1>3
  <2>3. QED
    BY <2>1, <2>2
<1> DEFINE sum == CHOOSE g : g = Body(g)
<1>6. sum = Body(sum)
  <2>1. \E g : g = Body(g)
    BY <1>5
  <2> HIDE DEF Body
  <2>2. QED
    BY <2>1
<1>7. Total(list) = sum[len]
  BY DEF Total
<1> HIDE DEF sum
<1>8. sum[0] = 0
  BY <1>1, <1>6
<1>9. ASSUME NEW n \in 1 .. len
      PROVE  sum[n] = sum[n - 1] + list[n].count
  <2>1. n \in 0 .. len /\ n # 0
    BY <1>1
  <2>2. Body(sum)[n] = sum[n - 1] + list[n].count
    BY <2>1
  <2> HIDE DEF Body, len
  <2>3. QED
    BY <1>6, <2>2
<1>10. \A n \in 0 .. len : sum[n] \in Nat
  <2> DEFINE I == {n \in 0 .. len : sum[n] \in Nat}
  <2>1. 0 \in I
    BY <1>1, <1>8
  <2>2. ASSUME NEW n \in 1 .. len, n - 1 \in I PROVE n \in I
    <3>1. sum[n - 1] \in Nat /\ count(n) \in Nat /\ n \in 0 .. len
      BY <1>1, <2>2
    <3>2. sum[n] = sum[n - 1] + count(n)
      BY <1>9
    <3> HIDE DEF len, count
    <3>3. QED
      BY <3>1, <3>2
  <2>3. \A n \in 0 .. len : n \in I
    <3> HIDE DEF I
    <3>1. QED
      BY <1>1, <2>1, <2>2, UpTo
  <2>4. QED
    BY <2>3
<1>11. sum \in [0 .. len -> Nat]
  <2>1. sum = [n \in 0 .. len |-> sum[n]]
    BY <1>6
  <2>2. QED
    BY <1>10, <2>1
<1>12. QED
  BY <1>7, <1>8, <1>9, <1>11 DEF TotalRec

LEMMA TotalType ==
  ASSUME NEW T, \A item \in T : item.count \in Nat, NEW list \in Seq(T)
  PROVE  Total(list) \in Nat /\ Total(<<>>) = 0
<1>1. PICK sum : TotalRec(list, sum)
  BY TotalDef
<1>2. <<>> \in Seq(T) /\ Len(<<>>) = 0 /\ Len(list) \in Nat
  OBVIOUS
<1>3. PICK none : TotalRec(<<>>, none)
  BY <1>2, TotalDef
<1>4. Total(list) \in Nat
  BY <1>1, <1>2 DEF TotalRec
<1>5. Total(<<>>) = 0
  BY <1>2, <1>3 DEF TotalRec
<1>6. QED
  BY <1>4, <1>5

LEMMA TotalAppend ==
  ASSUME NEW T, \A item \in T : item.count \in Nat,
         NEW list \in Seq(T), NEW item \in T
  PROVE  Total(Append(list, item)) = Total(list) + item.count
<1> DEFINE more == Append(list, item)
           len == Len(list)
<1>1. /\ more \in Seq(T) /\ Len(more) = len + 1 /\ len \in Nat
      /\ more[len + 1] = item /\ \A n \in 1 .. len : more[n] = list[n]
  OBVIOUS
<1>2. PICK sum : TotalRec(list, sum)
  BY TotalDef
<1>3. PICK sums : TotalRec(more, sums)
  <2> HIDE DEF more
  <2>1. QED
    BY <1>1, TotalDef
<1> HIDE DEF more
<1> DEFINE I == {n \in 0 .. len : sums[n] = sum[n]}
<1>4. 0 \in I
  BY <1>1, <1>2, <1>3 DEF TotalRec
<1>5. ASSUME NEW n \in 1 .. len, n - 1 \in I PROVE n \in I
  <2>1. n \in 0 .. len /\ n \in 1 .. Len(more) /\ more[n] = list[n]
    BY <1>1
  <2>2. sums[n] = sums[n - 1] + list[n].count
    BY <1>3, <2>1 DEF TotalRec
  <2>3. sum[n] = sum[n - 1] + list[n].count
    BY <1>2 DEF TotalRec
  <2>4. QED
    BY <1>5, <2>1, <2>2, <2>3
<1>6. \A n \in 0 .. len : n \in I
  <2> HIDE DEF I, len
  <2>1. QED
    BY <1>1, <1>4, <1>5, UpTo
<1>7. sums[len] = sum[len] /\ len + 1 \in 1 .. Len(more) /\ (len + 1) - 1 = len
  BY <1>1, <1>6
<1>8. sums[len + 1] = sums[len] + item.count
  <2>1. sums[len + 1] = sums[(len + 1) - 1] + more[len + 1].count
    BY <1>3, <1>7 DEF TotalRec
  <2>2. QED
    BY <1>1, <1>7, <2>1
<1>9. QED
  BY <1>1, <1>2, <1>3, <1>7, <1>8 DEF TotalRec, more

LEMMA TotalConcat ==
  ASSUME NEW T, \A item \in T : item.count \in Nat,
         NEW left \in Seq(T), NEW right \in Seq(T)
  PROVE  Total(left \o right) = Total(left) + Total(right)
<1> DEFINE len == Len(right)
           first(n) == SubSeq(right, 1, n)
           I == {n \in 0 .. len : Total(left \o first(n)) = Total(left) + Total(first(n))}
<1>1. len \in Nat
  OBVIOUS
<1>2. 0 \in I
  <2>1. first(0) = <<>> /\ left \o first(0) = left
    OBVIOUS
  <2>2. Total(left) \in Nat /\ Total(<<>>) = 0
    BY TotalType
  <2> HIDE DEF first
  <2>3. Total(first(0)) = 0
    BY <2>1, <2>2
  <2>4. Total(left \o first(0)) = Total(left)
    BY <2>1
  <2>5. 0 \in 0 .. len
    BY <1>1
  <2> HIDE DEF len
  <2>6. QED
    BY <2>2, <2>3, <2>4, <2>5
<1>3. ASSUME NEW n \in 1 .. len, n - 1 \in I PROVE n \in I
  <2>1. /\ n \in 0 .. len /\ right[n] \in T
        /\ first(n - 1) \in Seq(T) /\ left \o first(n - 1) \in Seq(T)
    OBVIOUS
  <2>2. first(n) = Append(first(n - 1), right[n])
    OBVIOUS
  <2>3. left \o first(n) = Append(left \o first(n - 1), right[n])
    BY <2>1, <2>2
  <2>4. Total(left \o first(n - 1)) = Total(left) + Total(first(n - 1))
    BY <1>3
  <2> HIDE DEF first
  <2>5. /\ Total(first(n)) = Total(first(n - 1)) + right[n].count
        /\ Total(left \o first(n)) = Total(left \o first(n - 1)) + right[n].count
    BY <2>1, <2>2, <2>3, TotalAppend
  <2>6. /\ Total(left) \in Nat /\ Total(first(n - 1)) \in Nat
        /\ right[n].count \in Nat
    BY <2>1, TotalType
  <2>7. QED
    BY <2>1, <2>4, <2>5, <2>6
<1>4. \A n \in 0 .. len : n \in I
  <2> HIDE DEF I
  <2>1. QED
    BY <1>1, <1>2, <1>3, UpTo
<1>5. first(len) = right /\ len \in 0 .. len
  OBVIOUS
<1> HIDE DEF first
<1>6. QED
  BY <1>4, <1>5

\* A list that is split in two has the sum of their totals.
LEMMA TotalSplit ==
  ASSUME NEW T, \A item \in T : item.count \in Nat,
         NEW list \in Seq(T), NEW R, NEW S,
         \A n \in 1 .. Len(list) : list[n] \in R <=> list[n] \notin S
  PROVE  Total(Only(list, R)) + Total(Only(list, S)) = Total(list)
<1>1. PICK r : OnlyRec(list, R, T, r)
  BY OnlyDef
<1>2. PICK s : OnlyRec(list, S, T, s)
  BY OnlyDef
<1>3. PICK sum : TotalRec(list, sum)
  BY TotalDef
<1> DEFINE len == Len(list)
           I == {n \in 0 .. len : Total(r[n]) + Total(s[n]) = sum[n]}
<1>4. len \in Nat /\ \A n \in 1 .. len : list[n] \in T
  OBVIOUS
<1>5. 0 \in I
  <2>1. r[0] = <<>> /\ s[0] = <<>> /\ sum[0] = 0
    BY <1>1, <1>2, <1>3 DEF OnlyRec, TotalRec
  <2>2. Total(<<>>) = 0
    BY TotalType
  <2>3. Total(r[0]) + Total(s[0]) = sum[0]
    BY <2>1, <2>2
  <2>4. QED
    BY <1>4, <2>3
<1>6. ASSUME NEW n \in 1 .. len, n - 1 \in I PROVE n \in I
  <2>1. n \in 0 .. len /\ n - 1 \in 0 .. len /\ list[n] \in T
    BY <1>4
  <2>2. Total(r[n - 1]) + Total(s[n - 1]) = sum[n - 1]
    BY <1>6
  <2>3. sum[n] = sum[n - 1] + list[n].count
    BY <1>3 DEF TotalRec
  <2>4. r[n - 1] \in Seq(T) /\ s[n - 1] \in Seq(T)
    BY <1>1, <1>2, <2>1 DEF OnlyRec
  <2>5. Total(r[n - 1]) \in Nat /\ Total(s[n - 1]) \in Nat /\ list[n].count \in Nat
    BY <2>1, <2>4, TotalType
  <2>6. CASE list[n] \in R
    <3>1. r[n] = Append(r[n - 1], list[n]) /\ s[n] = s[n - 1]
      BY <1>1, <1>2, <2>6 DEF OnlyRec
    <3>2. Total(r[n]) = Total(r[n - 1]) + list[n].count
      BY <2>1, <2>4, <3>1, TotalAppend
    <3>3. Total(s[n]) = Total(s[n - 1])
      BY <3>1
    <3>4. QED
      BY <2>1, <2>2, <2>3, <2>5, <3>2, <3>3
  <2>7. CASE list[n] \notin R
    <3>1. s[n] = Append(s[n - 1], list[n]) /\ r[n] = r[n - 1]
      BY <1>1, <1>2, <2>7 DEF OnlyRec
    <3>2. Total(s[n]) = Total(s[n - 1]) + list[n].count
      BY <2>1, <2>4, <3>1, TotalAppend
    <3>3. Total(r[n]) = Total(r[n - 1])
      BY <3>1
    <3>4. QED
      BY <2>1, <2>2, <2>3, <2>5, <3>2, <3>3
  <2>8. QED
    BY <2>6, <2>7
<1>7. \A n \in 0 .. len : n \in I
  <2> HIDE DEF I
  <2>1. QED
    BY <1>4, <1>5, <1>6, UpTo
<1>8. Total(r[len]) + Total(s[len]) = sum[len]
  BY <1>4, <1>7
<1>9. QED
  BY <1>1, <1>2, <1>3, <1>8 DEF OnlyRec, TotalRec

\* The first names and the others are the whole list.
LEMMA FirstAndBeyond ==
  ASSUME NEW T, \A item \in T : item.count \in Nat, NEW list \in Seq(T)
  PROVE  /\ First(list) \in Seq(T) /\ Beyond(list) \in Seq(T)
         /\ Total(list) = Total(First(list)) + Total(Beyond(list))
<1> DEFINE len == Len(list)
           least == Least(Top, len)
<1>0. Top \in Nat \ {0} /\ len \in Nat
  BY MassagerAssumption DEF MassagerAssumption
<1>1. least \in 0 .. len /\ (Top <= len => least = Top) /\ (~(Top <= len) => least = len)
  BY <1>0 DEF Least
<1>2. /\ First(list) \in Seq(T) /\ Len(First(list)) = least
      /\ \A i \in 1 .. least : First(list)[i] = list[i]
  <2>1. First(list) = SubSeq(list, 1, least)
    BY DEF First
  <2> HIDE DEF least
  <2>2. QED
    BY <1>1, <2>1
<1>3. /\ Beyond(list) \in Seq(T) /\ Len(Beyond(list)) = len - least
      /\ \A i \in 1 .. len - least : Beyond(list)[i] = list[least + i]
  <2>1. Beyond(list) = SubSeq(list, Top + 1, len)
    BY DEF Beyond
  <2> HIDE DEF least
  <2>2. CASE Top <= len
    BY <1>0, <1>1, <2>1, <2>2
  <2>3. CASE ~(Top <= len)
    <3>1. Beyond(list) = <<>> /\ least = len
      BY <1>0, <1>1, <2>1, <2>3
    <3>2. QED
      BY <1>0, <3>1
  <2>4. QED
    BY <2>2, <2>3
<1> HIDE DEF least
<1>4. Len(First(list)) + Len(Beyond(list)) = Len(list)
  BY <1>0, <1>1, <1>2, <1>3
<1>5. First(list) \o Beyond(list) = list
  <2>1. \A i \in 1 .. Len(First(list)) : First(list)[i] = list[i]
    BY <1>2
  <2>2. \A i \in 1 .. Len(Beyond(list)) : Beyond(list)[i] = list[Len(First(list)) + i]
    BY <1>2, <1>3
  <2>3. First(list) \in Seq(T) /\ Beyond(list) \in Seq(T)
    BY <1>2, <1>3
  <2>4. QED
    BY <1>4, <2>1, <2>2, <2>3, Glued
<1>6. Total(First(list) \o Beyond(list)) = Total(First(list)) + Total(Beyond(list))
  BY <1>2, <1>3, TotalConcat
<1>7. QED
  BY <1>2, <1>3, <1>5, <1>6

\* appendOtherGroup: the first names and "Other" count what the list counts.
LEMMA ShownTotal ==
  ASSUME NEW T, \A item \in T : item.count \in Nat, NEW list \in Seq(T)
  PROVE  Total(Shown(list)) = Total(list)
<1> DEFINE first == First(list)
           rest == Beyond(list)
           other == [name |-> "Other", count |-> Total(rest)]
           U == T \cup {other}
<1>1. first \in Seq(T) /\ rest \in Seq(T) /\ Total(list) = Total(first) + Total(rest)
  BY FirstAndBeyond
<1>2. Shown(list) = first \o (IF Total(rest) > 0 THEN <<other>> ELSE <<>>)
  BY DEF Shown
<1> HIDE DEF first, rest
<1>3. Total(first) \in Nat /\ Total(rest) \in Nat
  BY <1>1, TotalType
<1>4. CASE Total(rest) > 0
  <2>1. \A item \in U : item.count \in Nat
    BY <1>3
  <2>2. other.count = Total(rest)
    OBVIOUS
  <2> HIDE DEF other
  <2>3. first \in Seq(U) /\ other \in U
    BY <1>1
  <2>4. Shown(list) = Append(first, other)
    BY <1>2, <1>4, <2>3
  <2> HIDE DEF U
  <2>5. Total(Append(first, other)) = Total(first) + other.count
    BY <2>1, <2>3, TotalAppend
  <2>6. QED
    BY <1>1, <2>2, <2>4, <2>5
<1>5. CASE ~(Total(rest) > 0)
  <2>1. Total(rest) = 0
    BY <1>3, <1>5
  <2>2. Shown(list) = first
    BY <1>1, <1>2, <1>5
  <2>3. QED
    BY <1>1, <1>3, <2>1, <2>2
<1>6. QED
  BY <1>4, <1>5

\* Home.tsx, appendOtherGroup, getClients and getErrors: every node of an answer
\* is counted once, and what is lost of it are the errors behind the first Top,
\* however long the list and whatever it counts.
THEOREM MassagerCountsOnce ==
  ASSUME NEW T, \A item \in T : item.count \in Nat, NEW list \in Seq(T)
  PROVE  CountsOnce(list)
<1>1. ASSUME NEW some \in Seq(T), NEW names
      PROVE  /\ Named(some, names) \in Seq(T) /\ Others(some, names) \in Seq(T)
             /\ Total(Others(some, names)) + Total(Named(some, names)) = Total(some)
  <2> DEFINE R == {item \in ToSet(some) : item.name \notin names}
             S == {item \in ToSet(some) : item.name \in names}
  <2>1. \A n \in 1 .. Len(some) : some[n] \in R <=> some[n] \notin S
    BY DEF ToSet
  <2>2. Only(some, R) \in Seq(T \cap R) /\ Only(some, S) \in Seq(T \cap S)
    <3> HIDE DEF R, S
    <3>1. QED
      BY OnlyType
  <2> HIDE DEF R, S
  <2>3. Only(some, R) \in Seq(T) /\ Only(some, S) \in Seq(T)
    BY <2>2
  <2>4. Total(Only(some, R)) + Total(Only(some, S)) = Total(some)
    BY <2>1, TotalSplit
  <2>5. QED
    BY <2>3, <2>4 DEF Named, Others, R, S
<1>2. ASSUME NEW some \in Seq(T)
      PROVE  Total(appendOtherGroup(some)[1]) + appendOtherGroup(some)[2] = Total(some)
  <2>1. Total(Shown(Others(some, Unnamed))) = Total(Others(some, Unnamed))
    BY <1>1, ShownTotal
  <2>2. QED
    BY <1>1, <2>1 DEF appendOtherGroup
<1>3. /\ Total(getClients(list)[1]) + getClients(list)[2] = Total(Others(list, Errors))
      /\ Total(Others(list, Errors)) + Total(Named(list, Errors)) = Total(list)
  BY <1>1, <1>2 DEF getClients
<1> DEFINE failed == Named(list, Errors)
<1>4. failed \in Seq(T)
  BY <1>1
<1>5. Total(failed) = Total(getErrors(list)) + Total(Beyond(failed))
  <2>1. getErrors(list) = First(failed)
    BY DEF getErrors
  <2> HIDE DEF failed
  <2>2. QED
    BY <1>4, <2>1, FirstAndBeyond
<1>6. /\ Total(failed) \in Nat /\ Total(Others(list, Errors)) \in Nat
      /\ Total(getErrors(list)) \in Nat /\ Total(Beyond(failed)) \in Nat
  <2>1. Others(list, Errors) \in Seq(T)
    BY <1>1
  <2>2. First(failed) \in Seq(T) /\ Beyond(failed) \in Seq(T)
    <3> HIDE DEF failed
    <3>1. QED
      BY <1>4, FirstAndBeyond
  <2>3. Total(First(failed)) \in Nat /\ Total(Beyond(failed)) \in Nat
    <3> HIDE DEF failed
    <3>1. QED
      BY <2>2, TotalType
  <2>4. QED
    BY <1>4, <2>1, <2>3, TotalType DEF getErrors
<1>7. Total(getClients(list)[1]) + getClients(list)[2] + Total(getErrors(list))
        + Total(Beyond(failed)) = Total(list)
  BY <1>3, <1>5, <1>6
<1>8. QED
  BY <1>2, <1>7 DEF CountsOnce

-----------------------------------------------------------------------------
(* The inductive invariant of the page.                                    *)

\* The references that are not those of the known nodes.
Own == Len(Known) + 1 .. Len(Known) + 3 * MaxGroups

Some == Condition \cup {Undefined}

\* The URLs that the page pushes, and those that it asks the API for.
Pushed == {u \in Seq(Seq(SavedToken)) : Len(u) <= MaxGroups}
Asked == {u \in Seq(Seq(Texts)) : \E i \in DOMAIN u : u[i] # <<>>}

HeapOK(h) == h \in [Refs -> Seq(Some)] /\ \A r \in 1 .. Len(Known) : h[r] = Known[r]

\* References to groups, of which saved conditions are all that there are.
RefsOK(refs) == refs \in Seq(Own) /\ Len(refs) <= MaxGroups
SavedAt(h, refs) == \A i \in DOMAIN refs : h[refs[i]] \in Group

\* Only the drawer has conditions that are not saved, while it is open.
GroupsOK ==
  /\ HeapOK(heap) /\ RefsOK(filters) /\ RefsOK(edit)
  /\ SavedAt(heap, filters)
  /\ ~drawer => SavedAt(heap, edit)

UrlsOK ==
  /\ url \in Links \cup Pushed
  /\ past \in Seq(Links \cup Pushed)

RequestsOK ==
  /\ asked \in 1 .. MaxAsked
  /\ pending \in Seq([nr : 1 .. asked, of : Asked]) /\ Len(pending) <= asked
  /\ data \in {NoData} \cup [nr : 1 .. asked, of : Asked]

RestOK == tags \subseteq Texts /\ drawer \in BOOLEAN /\ edits \in 0 .. MaxEdits

Inv == GroupsOK /\ UrlsOK /\ RequestsOK /\ NewestIsOfUrl /\ RestOK

-----------------------------------------------------------------------------
(* URLs and groups.                                                        *)

LEMMA Facts ==
  /\ Known \in Seq(Group) /\ Len(Known) \in Nat /\ MaxGroups \in Nat
  /\ Len(Known) <= MaxGroups
  /\ \E i \in DOMAIN Known : Known[i] # <<>>
  /\ Own \subseteq Refs /\ Own \subseteq Nat
  /\ Refs = (1 .. Len(Known)) \cup Own
  /\ (1 .. Len(Known)) \cap Own = {}
<1>1. Known \in Seq(Group) /\ Len(Known) \in Nat /\ MaxGroups \in Nat
      /\ Len(Known) <= MaxGroups
  BY PageAssumption DEF PageAssumption, Group
<1>2. \E i \in DOMAIN Known : Known[i] # <<>>
  <2>1. Known \in Seq(Seq(Condition))
    BY PageAssumption DEF PageAssumption
  <2>2. Len(FlattenSeq(Known)) # 0
    BY PageAssumption DEF PageAssumption, FilterCount
  <2>3. ~ \A n \in 1 .. Len(Known) : Known[n] = <<>>
    BY <2>1, <2>2, FlattenType
  <2>4. QED
    BY <1>1, <2>3
<1>3. QED
  BY <1>1, <1>2 DEF Own, Refs

LEMMA UrlTexts == Seq(Seq(SavedToken)) \subseteq Seq(Seq(Texts))
<1>1. Seq(SavedToken) \subseteq Seq(Texts)
  BY SavedTokens
<1> DEFINE S == Seq(SavedToken)
           T == Seq(Texts)
<1>2. S \subseteq T
  BY <1>1
<1> HIDE DEF S, T
<1>3. Seq(S) \subseteq Seq(T)
  BY <1>2
<1>4. QED
  BY <1>3 DEF S, T

\* The groups of any URL that the page meets are saved ones, and not all empty.
LEMMA WantedType ==
  ASSUME NEW u \in Links \cup Pushed
  PROVE  /\ Wanted(u) \in Seq(Group) /\ Len(Wanted(u)) <= MaxGroups
         /\ \E i \in DOMAIN Wanted(u) : Wanted(u)[i] # <<>>
<1>1. CASE FallsBack(u)
  BY <1>1, Facts DEF Wanted
<1>2. CASE ~FallsBack(u)
  <2>1. Wanted(u) = FromUrl(u) /\ Readable(u) /\ FilterCount(FromUrl(u)) # 0
        /\ u # NoSearch
    BY <1>2 DEF Wanted, FallsBack
  <2>2. FromUrl(u) \in Seq(Group) /\ Len(FromUrl(u)) = Len(u) /\ Len(u) <= MaxGroups
    <3>1. u \in Seq(Seq(Texts)) /\ Len(u) <= MaxGroups
      <4>1. CASE u \in Links
        BY <2>1, <4>1, PageAssumption DEF PageAssumption
      <4>2. CASE u \in Pushed
        BY <4>2, UrlTexts DEF Pushed
      <4>3. QED
        BY <4>1, <4>2
    <3>2. QED
      BY <2>1, <3>1, FromUrlType
  <2>3. ~ \A n \in 1 .. Len(FromUrl(u)) : FromUrl(u)[n] = <<>>
    <3>1. FromUrl(u) \in Seq(Seq(Condition))
      BY <2>2 DEF Group
    <3>2. QED
      BY <2>1, <3>1, FlattenType DEF FilterCount
  <2>4. QED
    BY <2>1, <2>2, <2>3
<1>3. QED
  BY <1>1, <1>2

\* What is asked for a URL has a condition in it.
LEMMA AskedType ==
  ASSUME NEW u \in Links \cup Pushed
  PROVE  ToUrl(Wanted(u)) \in Asked
<1>1. Wanted(u) \in Seq(Group)
  BY WantedType
<1>2. PICK i \in DOMAIN Wanted(u) : Wanted(u)[i] # <<>>
  BY WantedType
<1>3. Wanted(u)[i] \in Seq(Condition) /\ i \in 1 .. Len(Wanted(u))
  BY <1>1 DEF Group
<1>4. /\ ToUrl(Wanted(u)) \in Seq(Seq(SavedToken))
      /\ Len(ToUrl(Wanted(u))) = Len(Wanted(u))
      /\ Len(ToUrl(Wanted(u))[i]) = Len(Wanted(u)[i])
  BY <1>1, <1>3, ToUrlType
<1>5. ToUrl(Wanted(u))[i] # <<>>
  BY <1>2, <1>3, <1>4
<1>6. QED
  BY <1>3, <1>4, <1>5, UrlTexts DEF Asked

LEMMA PushedType ==
  ASSUME NEW groups \in Seq(Group), Len(groups) <= MaxGroups
  PROVE  ToUrl(groups) \in Pushed
BY ToUrlType DEF Pushed

-----------------------------------------------------------------------------
(* Groups in the heap.                                                     *)

LEMMA ConcatType ==
  ASSUME NEW T, NEW a \in Seq(T), NEW b \in Seq(T)
  PROVE  a \o b \in Seq(T) /\ Len(a \o b) = Len(a) + Len(b)
OBVIOUS

\* The elements of three lists in a row.
LEMMA ConcatSets ==
  ASSUME NEW T, NEW a \in Seq(T), NEW b \in Seq(T), NEW c \in Seq(T)
  PROVE  ToSet(a \o b \o c) = ToSet(a) \cup ToSet(b) \cup ToSet(c)
<1>1. ASSUME NEW x \in Seq(T), NEW y \in Seq(T)
      PROVE  x \o y \in Seq(T) /\ ToSet(x \o y) = ToSet(x) \cup ToSet(y)
  <2> DEFINE z == x \o y
  <2>1. z \in Seq(T) /\ Len(z) = Len(x) + Len(y)
    OBVIOUS
  <2>2. \A i \in 1 .. Len(x) : z[i] = x[i]
    OBVIOUS
  <2>3. \A i \in 1 .. Len(y) : z[Len(x) + i] = y[i]
    OBVIOUS
  <2> HIDE DEF z
  <2>4. ASSUME NEW s \in Seq(T)
        PROVE  DOMAIN s = 1 .. Len(s) /\ Len(s) \in Nat
    OBVIOUS
  <2>5. ToSet(x) \subseteq ToSet(z)
    <3>1. \A i \in 1 .. Len(x) : i \in 1 .. Len(z)
      BY <2>1, <2>4
    <3>2. QED
      BY <2>1, <2>2, <2>4, <3>1 DEF ToSet
  <2>6. ToSet(y) \subseteq ToSet(z)
    <3>1. \A i \in 1 .. Len(y) : Len(x) + i \in 1 .. Len(z)
      BY <2>1, <2>4
    <3>2. QED
      BY <2>1, <2>3, <2>4, <3>1 DEF ToSet
  <2>7. ASSUME NEW i \in 1 .. Len(z) PROVE z[i] \in ToSet(x) \cup ToSet(y)
    <3>1. CASE i <= Len(x)
      <4>1. i \in DOMAIN x /\ z[i] = x[i]
        BY <2>1, <2>2, <2>4, <3>1
      <4>2. QED
        BY <4>1 DEF ToSet
    <3>2. CASE i > Len(x)
      <4>1. i - Len(x) \in 1 .. Len(y) /\ Len(x) + (i - Len(x)) = i
        BY <2>1, <2>4, <3>2
      <4>2. i - Len(x) \in DOMAIN y /\ z[i] = y[i - Len(x)]
        BY <2>3, <2>4, <4>1
      <4>3. QED
        BY <4>2 DEF ToSet
    <3>3. QED
      BY <2>1, <2>4, <3>1, <3>2
  <2>8. ToSet(z) \subseteq ToSet(x) \cup ToSet(y)
    BY <2>1, <2>4, <2>7 DEF ToSet
  <2>9. QED
    BY <2>1, <2>5, <2>6, <2>8 DEF z
<1>2. a \o b \in Seq(T) /\ ToSet(a \o b) = ToSet(a) \cup ToSet(b)
  BY <1>1
<1>3. ToSet((a \o b) \o c) = ToSet(a \o b) \cup ToSet(c)
  BY <1>1, <1>2
<1>4. QED
  BY <1>2, <1>3

\* Put: groups behind references that the known nodes do not have.
LEMMA PutType ==
  ASSUME NEW h, HeapOK(h), NEW refs \in Seq(Own), NEW groups,
         \A i \in DOMAIN refs : groups[i] \in Seq(Some)
  PROVE  /\ HeapOK(Put(h, refs, groups))
         /\ \A r \in Refs : r \notin ToSet(refs) => Put(h, refs, groups)[r] = h[r]
         /\ \A r \in ToSet(refs) :
              \E i \in DOMAIN refs : Put(h, refs, groups)[r] = groups[i]
<1> DEFINE at(r) == CHOOSE i \in DOMAIN refs : refs[i] = r
           new == Put(h, refs, groups)
<1>1. \A r \in ToSet(refs) : at(r) \in DOMAIN refs /\ r \in Own
  <2> SUFFICES ASSUME NEW r \in ToSet(refs) PROVE at(r) \in DOMAIN refs /\ r \in Own
    OBVIOUS
  <2>1. \E i \in DOMAIN refs : refs[i] = r
    BY DEF ToSet
  <2>2. QED
    BY <2>1
<1>2. new = [r \in Refs |-> IF r \in ToSet(refs) THEN groups[at(r)] ELSE h[r]]
  BY DEF Put
<1> HIDE DEF at, new
<1>3. \A r \in Refs : r \notin ToSet(refs) => new[r] = h[r]
  BY <1>2
<1>4. \A r \in ToSet(refs) : \E i \in DOMAIN refs : new[r] = groups[i]
  BY <1>1, <1>2, Facts
<1>5. new \in [Refs -> Seq(Some)]
  BY <1>1, <1>2 DEF HeapOK
<1>6. \A r \in 1 .. Len(Known) : new[r] = Known[r]
  <2>1. \A r \in 1 .. Len(Known) : r \in Refs /\ r \notin ToSet(refs)
    BY <1>1, Facts
  <2>2. QED
    BY <1>3, <2>1 DEF HeapOK
<1>7. QED
  BY <1>3, <1>4, <1>5, <1>6 DEF HeapOK, new

\* Saved groups behind references leave only saved ones behind others.
LEMMA PutSaved ==
  ASSUME NEW h, HeapOK(h), NEW refs \in Seq(Own), NEW groups,
         \A i \in DOMAIN refs : groups[i] \in Group,
         NEW others \in Seq(Own), \A i \in DOMAIN others :
                                    others[i] \in ToSet(refs) \/ h[others[i]] \in Group
  PROVE  HeapOK(Put(h, refs, groups)) /\ SavedAt(Put(h, refs, groups), others)
<1> DEFINE new == Put(h, refs, groups)
<1>1. \A g \in Group : g \in Seq(Some)
  BY DEF Group, Some
<1>2. /\ HeapOK(new)
      /\ \A r \in Refs : r \notin ToSet(refs) => new[r] = h[r]
      /\ \A r \in ToSet(refs) : \E i \in DOMAIN refs : new[r] = groups[i]
  BY <1>1, PutType
<1> HIDE DEF new
<1>3. \A i \in DOMAIN others : others[i] \in Refs
  BY Facts
<1>4. SavedAt(new, others)
  BY <1>2, <1>3 DEF SavedAt
<1>5. QED
  BY <1>2, <1>4 DEF new

\* Store: what the known nodes, the page and the drawer refer to is not collected.
LEMMA StoreType ==
  ASSUME NEW h, HeapOK(h), filters' \in Seq(Own), edit' \in Seq(Own), Store(h)
  PROVE  /\ HeapOK(heap')
         /\ SavedAt(h, filters') => SavedAt(heap', filters')
         /\ SavedAt(h, edit') => SavedAt(heap', edit')
<1> DEFINE all == KnownRefs \o filters' \o edit'
<1>1. KnownRefs \in Seq(Refs) /\ filters' \in Seq(Refs) /\ edit' \in Seq(Refs)
      /\ Len(KnownRefs) = Len(Known) /\ \A i \in 1 .. Len(Known) : KnownRefs[i] = i
  <2>1. KnownRefs = [i \in 1 .. Len(Known) |-> i]
    BY Facts DEF KnownRefs
  <2>2. \A i \in 1 .. Len(Known) : i \in Refs
    BY Facts
  <2>3. KnownRefs \in Seq(Refs) /\ Len(KnownRefs) = Len(Known)
    BY <2>1, <2>2, Facts
  <2>4. filters' \in Seq(Refs) /\ edit' \in Seq(Refs)
    BY Facts
  <2>5. QED
    BY <2>1, <2>3, <2>4
<1>2. /\ \A i \in DOMAIN KnownRefs : KnownRefs[i] \in ToSet(all)
      /\ \A i \in DOMAIN filters' : filters'[i] \in ToSet(all)
      /\ \A i \in DOMAIN edit' : edit'[i] \in ToSet(all)
  <2>1. ToSet(all) = ToSet(KnownRefs) \cup ToSet(filters') \cup ToSet(edit')
    BY <1>1, ConcatSets
  <2> HIDE DEF all
  <2>2. QED
    BY <2>1 DEF ToSet
<1>3. heap' = [r \in Refs |-> IF r \in ToSet(all) THEN h[r] ELSE <<>>]
  BY DEF Store
<1> HIDE DEF all
<1>4. \A r \in ToSet(all) : r \in Refs => heap'[r] = h[r]
  BY <1>3
<1>5. HeapOK(heap')
  <2>1. <<>> \in Seq(Some)
    OBVIOUS
  <2>2. heap' \in [Refs -> Seq(Some)]
    BY <1>3, <2>1 DEF HeapOK
  <2>3. \A r \in 1 .. Len(Known) : r \in ToSet(all) /\ r \in Refs
    BY <1>1, <1>2, Facts
  <2>4. QED
    BY <1>4, <2>2, <2>3 DEF HeapOK
<1>6. SavedAt(h, filters') => SavedAt(heap', filters')
  BY <1>1, <1>2, <1>4 DEF SavedAt
<1>7. SavedAt(h, edit') => SavedAt(heap', edit')
  BY <1>1, <1>2, <1>4 DEF SavedAt
<1>8. QED
  BY <1>5, <1>6, <1>7

\* A list has no more elements than its length.
LEMMA ListCount ==
  ASSUME NEW T, NEW list \in Seq(T)
  PROVE  IsFiniteSet(ToSet(list)) /\ Cardinality(ToSet(list)) \in Nat
         /\ Cardinality(ToSet(list)) <= Len(list)
<1>1. list \in [1 .. Len(list) -> ToSet(list)] /\ Len(list) \in Nat
      /\ \A t \in ToSet(list) : \E i \in 1 .. Len(list) : list[i] = t
  BY DEF ToSet
<1>2. list \in Surjection(1 .. Len(list), ToSet(list))
  BY <1>1 DEF Surjection
<1>3. IsFiniteSet(1 .. Len(list)) /\ Cardinality(1 .. Len(list)) = Len(list)
  <2> DEFINE len == Len(list)
  <2>1. 1 \in Int /\ len \in Int /\ len \in Nat
    BY <1>1
  <2> HIDE DEF len
  <2>2. /\ IsFiniteSet(1 .. len)
        /\ Cardinality(1 .. len) = IF 1 > len THEN 0 ELSE len - 1 + 1
    BY <2>1, FS_Interval
  <2>3. IsFiniteSet(1 .. len) /\ Cardinality(1 .. len) = len
    BY <2>1, <2>2
  <2>4. QED
    BY <2>3 DEF len
<1>4. IsFiniteSet(ToSet(list))
      /\ Cardinality(ToSet(list)) <= Cardinality(1 .. Len(list))
  BY <1>2, <1>3, FS_Surjection
<1>5. QED
  BY <1>3, <1>4, FS_CardinalityType

\* There are always free references: the page and the drawer have MaxGroups each.
LEMMA FreeType ==
  ASSUME RefsOK(filters), RefsOK(edit), NEW n \in 0 .. MaxGroups
  PROVE  /\ RefsOK(Free(n)) /\ Len(Free(n)) = n
         /\ \A i \in 1 .. n : Free(n)[i] \notin ToSet(filters) \cup ToSet(edit)
<1> DEFINE used == ToSet(filters) \cup ToSet(edit)
           left == Refs \ ToSet(KnownRefs \o filters \o edit)
<1>1. left = Own \ used
  <2>1. KnownRefs = [i \in 1 .. Len(Known) |-> i]
    BY Facts DEF KnownRefs
  <2>2. \A i \in 1 .. Len(Known) : i \in Refs
    BY Facts
  <2>3. KnownRefs \in Seq(Refs) /\ DOMAIN KnownRefs = 1 .. Len(Known)
    BY <2>1, <2>2, Facts
  <2>4. filters \in Seq(Refs) /\ edit \in Seq(Refs)
    BY Facts DEF RefsOK
  <2>5. ToSet(KnownRefs) = 1 .. Len(Known)
    BY <2>1, <2>3 DEF ToSet
  <2>6. ToSet(KnownRefs \o filters \o edit) = (1 .. Len(Known)) \cup used
    BY <2>3, <2>4, <2>5, ConcatSets
  <2> HIDE DEF used
  <2>7. QED
    BY <2>6, Facts
<1>2. /\ IsFiniteSet(used) /\ Cardinality(used) \in Nat
      /\ Cardinality(used) <= 2 * MaxGroups
  <2>1. /\ IsFiniteSet(ToSet(filters)) /\ Cardinality(ToSet(filters)) \in Nat
        /\ Cardinality(ToSet(filters)) <= MaxGroups
    BY ListCount, Facts DEF RefsOK
  <2>2. /\ IsFiniteSet(ToSet(edit)) /\ Cardinality(ToSet(edit)) \in Nat
        /\ Cardinality(ToSet(edit)) <= MaxGroups
    BY ListCount, Facts DEF RefsOK
  <2>3. /\ IsFiniteSet(used)
        /\ Cardinality(used) = Cardinality(ToSet(filters)) + Cardinality(ToSet(edit))
                                 - Cardinality(ToSet(filters) \cap ToSet(edit))
    BY <2>1, <2>2, FS_Union
  <2>4. Cardinality(ToSet(filters) \cap ToSet(edit)) \in Nat
    <3>1. IsFiniteSet(ToSet(filters) \cap ToSet(edit))
      BY <2>1, FS_Intersection
    <3>2. QED
      BY <3>1, FS_CardinalityType
  <2>5. Cardinality(used) \in Nat
    BY <2>3, FS_CardinalityType
  <2> HIDE DEF used
  <2>6. QED
    BY <2>1, <2>2, <2>3, <2>4, <2>5, Facts
<1> HIDE DEF used
<1>3. IsFiniteSet(Own) /\ Cardinality(Own) = 3 * MaxGroups
  <2> DEFINE first == Len(Known) + 1
             last == Len(Known) + 3 * MaxGroups
  <2>1. first \in Int /\ last \in Int /\ Own = first .. last
    BY Facts DEF Own
  <2>2. last - first + 1 = 3 * MaxGroups /\ (first > last => MaxGroups = 0)
    BY Facts
  <2> HIDE DEF first, last
  <2>3. IsFiniteSet(Own)
        /\ Cardinality(Own) = IF first > last THEN 0 ELSE last - first + 1
    BY <2>1, FS_Interval
  <2>4. QED
    BY <2>2, <2>3, Facts
<1>4. /\ IsFiniteSet(left) /\ Cardinality(left) \in Nat
      /\ Cardinality(left) >= MaxGroups
  <2>1. IsFiniteSet(left) /\ Cardinality(left) = Cardinality(Own) - Cardinality(Own \cap used)
    BY <1>1, <1>3, FS_Difference
  <2>2. Cardinality(Own \cap used) <= Cardinality(used) /\ IsFiniteSet(Own \cap used)
    BY <1>2, FS_Intersection
  <2>3. Cardinality(Own \cap used) \in Nat /\ Cardinality(left) \in Nat
    BY <2>1, <2>2, FS_CardinalityType
  <2>4. QED
    BY <1>2, <1>3, <2>1, <2>2, <2>3, Facts
<1> HIDE DEF left
<1>5. \E refs \in [1 .. n -> left] : IsInjective(refs)
  <2>1. PICK all \in Bijection(1 .. Cardinality(left), left) : TRUE
    BY <1>4, FS_CardinalityType DEF ExistsBijection
  <2>2. all \in [1 .. Cardinality(left) -> left] /\ IsInjective(all)
    BY <2>1 DEF Bijection, Injection
  <2>3. 1 .. n \subseteq 1 .. Cardinality(left)
    BY <1>4, Facts
  <2> DEFINE refs == [i \in 1 .. n |-> all[i]]
  <2>4. refs \in [1 .. n -> left]
    BY <2>2, <2>3
  <2>5. IsInjective(refs)
    BY <2>2, <2>3 DEF IsInjective
  <2>6. QED
    BY <2>4, <2>5
<1>6. Free(n) \in [1 .. n -> left]
  BY <1>5 DEF Free, left
<1>7. \A i \in 1 .. n : Free(n)[i] \in Own /\ Free(n)[i] \notin used
  BY <1>1, <1>6
<1>8. Free(n) \in Seq(Own) /\ Len(Free(n)) = n
  BY <1>6, <1>7
<1>9. QED
  BY <1>7, <1>8, Facts DEF RefsOK, used

-----------------------------------------------------------------------------
(* Steps to a URL.                                                         *)

\* The new arrays that RefsOf has are not those of the known nodes.
LEMMA RefsOfType ==
  ASSUME NEW u \in Links \cup Pushed
  PROVE  RefsOK(RefsOf(u)) /\ DOMAIN RefsOf(u) = DOMAIN Wanted(u)
<1>1. Wanted(u) \in Seq(Group) /\ Len(Wanted(u)) <= MaxGroups
  BY WantedType
<1>2. RefsOf(u) = [i \in 1 .. Len(Wanted(u)) |-> Len(Known) + i]
  BY <1>1 DEF RefsOf
<1>3. \A i \in 1 .. Len(Wanted(u)) : Len(Known) + i \in Own
  BY <1>1, Facts DEF Own
<1>4. RefsOf(u) \in Seq(Own) /\ Len(RefsOf(u)) = Len(Wanted(u))
  BY <1>1, <1>2, <1>3
<1>5. QED
  BY <1>1, <1>4 DEF RefsOK

LEMMA NewGroups ==
  ASSUME NEW u \in Links \cup Pushed, NEW h, HeapOK(h)
  PROVE  /\ HeapOK(Put(h, RefsOf(u), Wanted(u)))
         /\ SavedAt(Put(h, RefsOf(u), Wanted(u)), RefsOf(u))
<1>1. RefsOf(u) \in Seq(Own) /\ DOMAIN RefsOf(u) = DOMAIN Wanted(u)
  BY RefsOfType DEF RefsOK
<1>2. \A i \in DOMAIN RefsOf(u) : Wanted(u)[i] \in Group
  BY <1>1, WantedType
<1>3. \A i \in DOMAIN RefsOf(u) : RefsOf(u)[i] \in ToSet(RefsOf(u))
  BY DEF ToSet
<1>4. QED
  BY <1>1, <1>2, <1>3, PutSaved

\* A new request is for the URL, and has the highest number.
LEMMA AskType ==
  ASSUME Inv, NEW u \in Links \cup Pushed, asked < MaxAsked,
         url' = u, asked' = asked + 1, data' = data,
         pending' = Append(pending, [nr |-> asked', of |-> ToUrl(Wanted(u))])
  PROVE  RequestsOK' /\ NewestIsOfUrl'
<1> DEFINE new == [nr |-> asked + 1, of |-> ToUrl(Wanted(u))]
           Old == [nr : 1 .. asked, of : Asked]
           All == [nr : 1 .. asked + 1, of : Asked]
<1>1. /\ asked \in 1 .. MaxAsked /\ asked \in Nat
      /\ pending \in Seq(Old) /\ Len(pending) <= asked
      /\ data \in {NoData} \cup Old
  BY PageAssumption DEF Inv, RequestsOK, PageAssumption
<1>2. new \in All /\ new.nr = asked + 1 /\ new.of = ToUrl(Wanted(u))
  BY <1>1, AskedType
<1>3. \A q \in Old : q \in All /\ q.nr # asked + 1
  BY <1>1
<1>4. data \in {NoData} \cup All /\ data.nr # asked + 1
  BY <1>1, <1>3 DEF NoData
<1>5. asked + 1 \in 1 .. MaxAsked
  BY <1>1, PageAssumption DEF PageAssumption
<1>6. pending' = Append(pending, new)
  OBVIOUS
<1> HIDE DEF new, Old, All
<1>7. /\ pending' \in Seq(All) /\ Len(pending') = Len(pending) + 1
      /\ \A k \in DOMAIN pending' : pending'[k] \in Old \/ pending'[k] = new
  <2>1. pending \in Seq(All) /\ Len(pending) \in Nat
    BY <1>1, <1>3
  <2>2. pending' \in Seq(All) /\ Len(pending') = Len(pending) + 1
    BY <1>2, <1>6, <2>1
  <2>3. \A k \in 1 .. Len(pending) + 1 :
          pending'[k] = IF k <= Len(pending) THEN pending[k] ELSE new
    BY <1>1, <1>6
  <2>4. QED
    BY <1>1, <2>1, <2>2, <2>3
<1>8. RequestsOK'
  BY <1>1, <1>4, <1>5, <1>7 DEF RequestsOK, All, NoData
<1>9. NewestIsOfUrl'
  BY <1>2, <1>3, <1>4, <1>7 DEF NewestIsOfUrl
<1>10. QED
  BY <1>8, <1>9

\* Show: the groups of a URL, or those that are there.
LEMMA ShowType ==
  ASSUME Inv, NEW u \in Links \cup Pushed, NEW h, HeapOK(h), SavedAt(h, filters),
         NEW groups, RefsOK(groups), ~drawer' => SavedAt(h, groups),
         Show(u, h, groups), data' = data
  PROVE  /\ GroupsOK' /\ url' \in Links \cup Pushed
         /\ RequestsOK' /\ NewestIsOfUrl' /\ tags' \subseteq Texts
<1>1. url' \in Links \cup Pushed
  BY DEF Show
<1>2. CASE u = url
  <2>1. /\ edit' = groups /\ filters' = filters /\ tags' = tags
        /\ asked' = asked /\ pending' = pending /\ url' = url /\ Store(h)
    BY <1>2 DEF Show
  <2>2. RefsOK(filters') /\ RefsOK(edit')
    BY <2>1 DEF Inv, GroupsOK
  <2>3. HeapOK(heap') /\ SavedAt(heap', filters') /\ (~drawer' => SavedAt(heap', edit'))
    <3>1. filters' \in Seq(Own) /\ edit' \in Seq(Own)
      BY <2>2 DEF RefsOK
    <3>2. SavedAt(h, filters') /\ (~drawer' => SavedAt(h, edit'))
      BY <2>1
    <3>3. QED
      BY <2>1, <3>1, <3>2, StoreType
  <2>4. GroupsOK'
    BY <2>2, <2>3 DEF GroupsOK
  <2>5. RequestsOK' /\ NewestIsOfUrl' /\ tags' \subseteq Texts
    BY <2>1 DEF Inv, RequestsOK, NewestIsOfUrl, RestOK
  <2>6. QED
    BY <1>1, <2>4, <2>5
<1>3. CASE u # url
  <2> DEFINE new == Put(h, RefsOf(u), Wanted(u))
  <2>1. /\ edit' = RefsOf(u) /\ filters' = RefsOf(u) /\ tags' = Tags(Wanted(u))
        /\ asked' = asked + 1 /\ asked < MaxAsked /\ url' = u /\ Store(new)
        /\ pending' = Append(pending, [nr |-> asked', of |-> ToUrl(Wanted(u))])
    BY <1>3 DEF Show
  <2>2. RefsOK(filters') /\ RefsOK(edit')
    BY <2>1, RefsOfType
  <2>3. HeapOK(heap') /\ SavedAt(heap', filters') /\ SavedAt(heap', edit')
    <3>1. filters' \in Seq(Own) /\ edit' \in Seq(Own)
      BY <2>2 DEF RefsOK
    <3>2. HeapOK(new) /\ SavedAt(new, filters') /\ SavedAt(new, edit')
      BY <2>1, NewGroups
    <3> HIDE DEF new
    <3>3. QED
      BY <2>1, <3>1, <3>2, StoreType
  <2>4. GroupsOK'
    BY <2>2, <2>3 DEF GroupsOK
  <2>5. RequestsOK' /\ NewestIsOfUrl'
    BY <2>1, AskType
  <2>6. tags' \subseteq Texts
    BY <2>1, WantedType, TagsType
  <2>7. QED
    BY <1>1, <2>4, <2>5, <2>6
<1>4. QED
  BY <1>2, <1>3

\* Push: a URL of saved groups.
LEMMA PushType ==
  ASSUME Inv, NEW h, HeapOK(h), SavedAt(h, filters),
         NEW refs, RefsOK(refs), SavedAt(h, refs),
         NEW groups, RefsOK(groups), ~drawer' => SavedAt(h, groups),
         Push(h, refs, groups), data' = data,
         drawer' \in BOOLEAN, edits' = edits
  PROVE  Inv'
<1>1. At(h, refs) \in Seq(Group) /\ Len(At(h, refs)) = Len(refs)
  <2>1. refs \in Seq(Own) /\ \A i \in 1 .. Len(refs) : h[refs[i]] \in Group
    BY DEF RefsOK, SavedAt
  <2>2. At(h, refs) = [i \in 1 .. Len(refs) |-> h[refs[i]]]
    BY <2>1 DEF At
  <2>3. QED
    BY <2>1, <2>2
<1>2. ToUrl(At(h, refs)) \in Links \cup Pushed
  BY <1>1, PushedType DEF RefsOK
<1>3. Show(ToUrl(At(h, refs)), h, groups) /\ past' = Append(past, url)
  BY DEF Push
<1>4. /\ GroupsOK' /\ url' \in Links \cup Pushed
      /\ RequestsOK' /\ NewestIsOfUrl' /\ tags' \subseteq Texts
  BY <1>2, <1>3, ShowType
<1>5. past' \in Seq(Links \cup Pushed)
  BY <1>3 DEF Inv, UrlsOK
<1>6. QED
  BY <1>4, <1>5 DEF Inv, UrlsOK, RestOK

-----------------------------------------------------------------------------
(* Every step keeps the invariant.                                         *)

LEMMA BackStep ==
  ASSUME Inv, Back
  PROVE  Inv'
<1>1. /\ past # <<>> /\ past' = Front(past) /\ Show(Last(past), heap, edit)
      /\ drawer' = drawer /\ edits' = edits /\ data' = data
  BY DEF Back
<1>2. past \in Seq(Links \cup Pushed) /\ GroupsOK /\ RestOK
  BY DEF Inv, UrlsOK
<1>3. Last(past) \in Links \cup Pushed /\ Front(past) \in Seq(Links \cup Pushed)
  BY <1>1, <1>2 DEF Last, Front
<1>4. /\ GroupsOK' /\ url' \in Links \cup Pushed
      /\ RequestsOK' /\ NewestIsOfUrl' /\ tags' \subseteq Texts
  <2>1. /\ HeapOK(heap) /\ SavedAt(heap, filters) /\ RefsOK(edit)
        /\ ~drawer' => SavedAt(heap, edit)
    BY <1>1, <1>2 DEF GroupsOK
  <2>2. QED
    BY <1>1, <1>3, <2>1, ShowType
<1>5. QED
  BY <1>1, <1>2, <1>3, <1>4 DEF Inv, UrlsOK, RestOK

\* A click changes the groups of the page in place; while the drawer is closed
\* they may be those of the drawer.
LEMMA DrillStep ==
  ASSUME Inv, NEW settings \in Drills, Drill(settings)
  PROVE  Inv'
<1> DEFINE drilled == [i \in DOMAIN filters |-> Drilled(heap[filters[i]], settings)]
           h == Put(heap, filters, drilled)
           kept == Kept(At(h, filters))
           refs == [i \in DOMAIN kept |-> filters[kept[i]]]
<1>1. /\ ~drawer /\ Push(h, refs, edit)
      /\ drawer' = drawer /\ edits' = edits /\ data' = data
  BY DEF Drill
<1>2. /\ HeapOK(heap) /\ RefsOK(filters) /\ RefsOK(edit)
      /\ SavedAt(heap, filters) /\ SavedAt(heap, edit) /\ drawer \in BOOLEAN
  BY <1>1 DEF Inv, GroupsOK, RestOK
<1>3. filters \in Seq(Own) /\ edit \in Seq(Own) /\ Len(filters) <= MaxGroups
      /\ Len(filters) \in Nat
  BY <1>2 DEF RefsOK
<1>4. \A i \in DOMAIN filters : drilled[i] \in Group
  <2>1. settings \in Seq((Whole \ {<<>>}) \X Texts)
    BY PageAssumption DEF PageAssumption
  <2>2. \A i \in DOMAIN filters : heap[filters[i]] \in Group
    BY <1>2 DEF SavedAt
  <2>3. QED
    BY <2>1, <2>2, DrilledType
<1> HIDE DEF drilled
<1>5. HeapOK(h) /\ SavedAt(h, filters)
  <2>1. \A i \in DOMAIN filters : filters[i] \in ToSet(filters)
    BY DEF ToSet
  <2>2. QED
    BY <1>2, <1>3, <1>4, <2>1, PutSaved
<1>6. SavedAt(h, edit)
  <2>1. \A i \in DOMAIN edit : heap[edit[i]] \in Group
    BY <1>2 DEF SavedAt
  <2>2. QED
    BY <1>2, <1>3, <1>4, <2>1, PutSaved
<1> HIDE DEF h
<1>7. /\ kept \in Seq(DOMAIN filters) /\ Len(kept) <= Len(filters) /\ Len(kept) \in Nat
  <2>1. At(h, filters) \in Seq(Group) /\ DOMAIN At(h, filters) = DOMAIN filters
        /\ Len(At(h, filters)) = Len(filters)
    <3>1. At(h, filters) = [i \in 1 .. Len(filters) |-> h[filters[i]]]
      BY <1>3 DEF At
    <3>2. \A i \in 1 .. Len(filters) : h[filters[i]] \in Group
      BY <1>3, <1>5 DEF SavedAt
    <3>3. QED
      BY <1>3, <3>1, <3>2
  <2>2. kept \in Seq(DOMAIN At(h, filters)) /\ Len(kept) <= Len(At(h, filters))
    BY <2>1, KeptType
  <2>3. QED
    BY <2>1, <2>2
<1> HIDE DEF kept
<1>8. refs = [i \in 1 .. Len(kept) |-> filters[kept[i]]]
      /\ \A i \in 1 .. Len(kept) : kept[i] \in DOMAIN filters
  BY <1>7
<1>9. RefsOK(refs) /\ SavedAt(h, refs)
  <2>1. \A i \in 1 .. Len(kept) : filters[kept[i]] \in Own /\ h[filters[kept[i]]] \in Group
    BY <1>3, <1>5, <1>8 DEF SavedAt
  <2> HIDE DEF refs
  <2>2. refs \in Seq(Own) /\ Len(refs) = Len(kept)
    BY <1>7, <1>8, <2>1
  <2>3. SavedAt(h, refs)
    BY <1>8, <2>1 DEF SavedAt
  <2>4. QED
    BY <1>3, <1>7, <2>2, <2>3, Facts DEF RefsOK
<1> HIDE DEF refs
<1>10. QED
  BY <1>1, <1>2, <1>5, <1>6, <1>9, PushType

\* The tag goes from copies of the groups.
LEMMA RemoveTagStep ==
  ASSUME Inv, NEW tag, RemoveTag(tag)
  PROVE  Inv'
<1> DEFINE left(i) == {c \in ToSet(heap[edit[i]]) : c = Undefined \/ ~TagTakes(tag, c.name)}
           without == [i \in DOMAIN edit |-> Only(heap[edit[i]], left(i))]
           refs == Free(Len(edit))
           h == Put(heap, refs, without)
<1>1. /\ ~drawer /\ Push(h, refs, refs)
      /\ drawer' = drawer /\ edits' = edits /\ data' = data
  BY DEF RemoveTag
<1>2. /\ HeapOK(heap) /\ RefsOK(filters) /\ RefsOK(edit)
      /\ SavedAt(heap, filters) /\ SavedAt(heap, edit) /\ drawer \in BOOLEAN
  BY <1>1 DEF Inv, GroupsOK, RestOK
<1>3. /\ filters \in Seq(Own) /\ edit \in Seq(Own)
      /\ Len(edit) \in 0 .. MaxGroups /\ DOMAIN edit = 1 .. Len(edit)
  BY <1>2, Facts DEF RefsOK
<1>4. \A i \in DOMAIN edit : without[i] \in Group
  <2>1. SUFFICES ASSUME NEW i \in DOMAIN edit PROVE without[i] \in Group
    OBVIOUS
  <2>2. heap[edit[i]] \in Seq(Condition)
    BY <1>2 DEF SavedAt, Group
  <2> HIDE DEF left
  <2>3. Only(heap[edit[i]], left(i)) \in Seq(Condition \cap left(i))
    BY <2>2, OnlyType
  <2>4. Only(heap[edit[i]], left(i)) \in Seq(Condition)
    BY <2>3
  <2>5. QED
    BY <2>4 DEF Group
<1>5. RefsOK(refs) /\ Len(refs) = Len(edit)
  BY <1>2, <1>3, FreeType
<1> HIDE DEF refs, without, left
<1>6. refs \in Seq(Own) /\ DOMAIN refs = DOMAIN edit
      /\ \A i \in DOMAIN refs : refs[i] \in ToSet(refs)
  BY <1>3, <1>5 DEF RefsOK, ToSet
<1>7. HeapOK(h) /\ SavedAt(h, refs)
  BY <1>2, <1>4, <1>6, PutSaved
<1>8. SavedAt(h, filters)
  <2>1. \A i \in DOMAIN filters : heap[filters[i]] \in Group
    BY <1>2 DEF SavedAt
  <2>2. QED
    BY <1>2, <1>3, <1>4, <1>6, <2>1, PutSaved
<1> HIDE DEF h
<1>9. QED
  BY <1>1, <1>2, <1>5, <1>7, <1>8, PushType

\* An edit leaves the groups of the page saved ones.
LEMMA EditsStep ==
  ASSUME Inv, NEW refs, RefsOK(refs), NEW h, HeapOK(h), SavedAt(h, filters), Edits(refs, h)
  PROVE  Inv'
<1>1. /\ drawer /\ drawer' = drawer /\ edits < MaxEdits /\ edits' = edits + 1
      /\ edit' = refs /\ Store(h)
      /\ UNCHANGED <<url, past, filters, tags, asked, pending, data>>
  BY DEF Edits
<1>2. GroupsOK /\ UrlsOK /\ RequestsOK /\ NewestIsOfUrl /\ RestOK
  BY DEF Inv
<1>3. RefsOK(filters') /\ RefsOK(edit') /\ SavedAt(h, filters')
  BY <1>1, <1>2 DEF GroupsOK
<1>4. HeapOK(heap') /\ SavedAt(heap', filters')
  BY <1>1, <1>3, StoreType DEF RefsOK
<1>5. GroupsOK'
  BY <1>1, <1>3, <1>4 DEF GroupsOK
<1>6. UrlsOK' /\ RequestsOK' /\ NewestIsOfUrl'
  BY <1>1, <1>2 DEF UrlsOK, RequestsOK, NewestIsOfUrl
<1>7. RestOK'
  <2>1. tags' \subseteq Texts /\ drawer' \in BOOLEAN
    BY <1>1, <1>2 DEF RestOK
  <2>2. edits' \in 0 .. MaxEdits
    BY <1>1, <1>2, PageAssumption DEF RestOK, PageAssumption
  <2>3. QED
    BY <2>1, <2>2 DEF RestOK
<1>8. QED
  BY <1>5, <1>6, <1>7 DEF Inv

\* New arrays for the drawer are not those of the page or of the known nodes.
LEMMA NewArray ==
  ASSUME Inv, MaxGroups # 0, NEW group \in Seq(Some)
  PROVE  /\ HeapOK(Put(heap, Free(1), <<group>>))
         /\ SavedAt(Put(heap, Free(1), <<group>>), filters)
         /\ Free(1) \in Seq(Own) /\ Len(Free(1)) = 1
<1> DEFINE h == Put(heap, Free(1), <<group>>)
<1>1. HeapOK(heap) /\ RefsOK(filters) /\ RefsOK(edit) /\ SavedAt(heap, filters)
  BY DEF Inv, GroupsOK
<1>2. /\ RefsOK(Free(1)) /\ Len(Free(1)) = 1
      /\ \A i \in 1 .. 1 : Free(1)[i] \notin ToSet(filters) \cup ToSet(edit)
  <2>1. 1 \in 0 .. MaxGroups
    BY Facts
  <2>2. QED
    BY <1>1, <2>1, FreeType
<1>3. Free(1) \in Seq(Own) /\ DOMAIN Free(1) = 1 .. 1
  BY <1>2 DEF RefsOK
<1>4. \A i \in DOMAIN Free(1) : <<group>>[i] \in Seq(Some)
  BY <1>3
<1>5. /\ HeapOK(h)
      /\ \A r \in Refs : r \notin ToSet(Free(1)) => h[r] = heap[r]
  BY <1>1, <1>3, <1>4, PutType
<1> HIDE DEF h
<1>6. \A i \in DOMAIN filters : filters[i] \in Refs /\ filters[i] \notin ToSet(Free(1))
  <2>1. \A i \in DOMAIN filters : filters[i] \in Own /\ filters[i] \in ToSet(filters)
    BY <1>1 DEF RefsOK, ToSet
  <2>2. \A r \in ToSet(Free(1)) : r \notin ToSet(filters)
    BY <1>2, <1>3 DEF ToSet
  <2>3. QED
    BY <2>1, <2>2, Facts
<1>7. SavedAt(h, filters)
  BY <1>1, <1>5, <1>6 DEF SavedAt
<1>8. QED
  BY <1>2, <1>3, <1>5, <1>7 DEF h

LEMMA AddGroupStep ==
  ASSUME Inv, AddGroup
  PROVE  Inv'
<1>1. Len(edit) < MaxGroups
      /\ Edits(edit \o Free(1), Put(heap, Free(1), <<<<Undefined>>>>))
  BY DEF AddGroup
<1>2. edit \in Seq(Own) /\ Len(edit) \in Nat /\ MaxGroups # 0
  BY <1>1, Facts DEF Inv, GroupsOK, RefsOK
<1>3. <<Undefined>> \in Seq(Some)
  BY DEF Some
<1> DEFINE group == <<Undefined>>
<1> HIDE DEF group
<1>4. group \in Seq(Some)
  BY <1>3 DEF group
<1>5. /\ HeapOK(Put(heap, Free(1), <<group>>))
      /\ SavedAt(Put(heap, Free(1), <<group>>), filters)
      /\ Free(1) \in Seq(Own) /\ Len(Free(1)) = 1
  BY <1>2, <1>4, NewArray
<1>6. RefsOK(edit \o Free(1))
  <2> DEFINE new == Free(1)
  <2>1. new \in Seq(Own) /\ Len(new) = 1
    BY <1>5
  <2> HIDE DEF new
  <2>2. edit \o new \in Seq(Own) /\ Len(edit \o new) = Len(edit) + 1
    BY <1>2, <2>1, ConcatType
  <2>3. Len(edit \o new) <= MaxGroups
    BY <1>1, <1>2, <2>2, Facts
  <2>4. QED
    BY <2>2, <2>3 DEF RefsOK, new
<1>7. Edits(edit \o Free(1), Put(heap, Free(1), <<group>>))
  BY <1>1 DEF group
<1>8. QED
  BY <1>5, <1>6, <1>7, EditsStep

\* A group of the drawer is copied for a change of its conditions.
LEMMA CopyStep ==
  ASSUME Inv, NEW i \in DOMAIN edit, NEW group \in Seq(Some),
         Edits([edit EXCEPT ![i] = Free(1)[1]], Put(heap, Free(1), <<group>>))
  PROVE  Inv'
<1>1. edit \in Seq(Own) /\ Len(edit) <= MaxGroups /\ i \in 1 .. Len(edit) /\ Len(edit) \in Nat
  BY DEF Inv, GroupsOK, RefsOK
<1>2. MaxGroups # 0
  BY <1>1, Facts
<1>3. /\ HeapOK(Put(heap, Free(1), <<group>>))
      /\ SavedAt(Put(heap, Free(1), <<group>>), filters)
      /\ Free(1) \in Seq(Own) /\ Len(Free(1)) = 1
  BY <1>2, NewArray
<1> DEFINE r == Free(1)[1]
<1>4. r \in Own
  BY <1>3
<1> HIDE DEF r
<1>5. [edit EXCEPT ![i] = r] \in Seq(Own) /\ Len([edit EXCEPT ![i] = r]) = Len(edit)
  BY <1>1, <1>4
<1>6. RefsOK([edit EXCEPT ![i] = r])
  BY <1>1, <1>5 DEF RefsOK
<1>7. QED
  BY <1>3, <1>6, EditsStep DEF r

LEMMA GroupOfDrawer ==
  ASSUME Inv, NEW i \in DOMAIN edit
  PROVE  heap[edit[i]] \in Seq(Some) /\ edit[i] \in Own /\ edit[i] \in Refs
<1>1. edit[i] \in Own
  BY DEF Inv, GroupsOK, RefsOK
<1>2. QED
  BY <1>1, Facts DEF Inv, GroupsOK, HeapOK

LEMMA AddConditionStep ==
  ASSUME Inv, NEW i \in DOMAIN edit, AddCondition(i)
  PROVE  Inv'
<1>1. Append(heap[edit[i]], Undefined) \in Seq(Some)
  BY GroupOfDrawer DEF Some
<1>2. QED
  BY <1>1, CopyStep DEF AddCondition

\* A list without one of its elements.
LEMMA RemoveAtType ==
  ASSUME NEW T, NEW list \in Seq(T), NEW k \in 1 .. Len(list)
  PROVE  RemoveAt(list, k) \in Seq(T) /\ Len(RemoveAt(list, k)) = Len(list) - 1
<1> DEFINE first == SubSeq(list, 1, k - 1)
           rest == SubSeq(list, k + 1, Len(list))
<1>1. first \in Seq(T) /\ Len(first) = k - 1
  OBVIOUS
<1>2. rest \in Seq(T) /\ Len(rest) = Len(list) - k
  OBVIOUS
<1>3. RemoveAt(list, k) = first \o rest
  BY DEF RemoveAt
<1> HIDE DEF first, rest
<1>4. QED
  BY <1>1, <1>2, <1>3

LEMMA RemoveAtFrom ==
  ASSUME NEW T, NEW list \in Seq(T), NEW k \in 1 .. Len(list)
  PROVE  \A m \in DOMAIN RemoveAt(list, k) : \E n \in DOMAIN list :
           RemoveAt(list, k)[m] = list[n]
<1> DEFINE S == ToSet(list)
<1>1. list \in Seq(S)
  BY DEF ToSet
<1>2. RemoveAt(list, k) \in Seq(S)
  <2> HIDE DEF S
  <2>1. QED
    BY <1>1, RemoveAtType
<1>3. \A m \in DOMAIN RemoveAt(list, k) : RemoveAt(list, k)[m] \in S
  <2> HIDE DEF S
  <2>1. QED
    BY <1>2
<1>4. QED
  BY <1>3 DEF ToSet

LEMMA RemoveGroupStep ==
  ASSUME Inv, NEW i \in DOMAIN edit, RemoveGroup(i)
  PROVE  Inv'
<1>1. edit \in Seq(Own) /\ Len(edit) <= MaxGroups /\ i \in 1 .. Len(edit) /\ Len(edit) \in Nat
  BY DEF Inv, GroupsOK, RefsOK
<1>2. RemoveAt(edit, i) \in Seq(Own) /\ Len(RemoveAt(edit, i)) = Len(edit) - 1
  BY <1>1, RemoveAtType
<1>3. RefsOK(RemoveAt(edit, i))
  BY <1>1, <1>2, Facts DEF RefsOK
<1>4. HeapOK(heap) /\ SavedAt(heap, filters)
  BY DEF Inv, GroupsOK
<1>5. QED
  BY <1>3, <1>4, EditsStep DEF RemoveGroup

LEMMA RemoveConditionStep ==
  ASSUME Inv, NEW i \in DOMAIN edit, NEW j \in DOMAIN heap[edit[i]], RemoveCondition(i, j)
  PROVE  Inv'
<1>1. CASE Len(heap[edit[i]]) = 1
  BY <1>1, RemoveGroupStep DEF RemoveCondition
<1>2. CASE Len(heap[edit[i]]) # 1
  <2>1. heap[edit[i]] \in Seq(Some) /\ j \in 1 .. Len(heap[edit[i]])
    BY GroupOfDrawer
  <2>2. RemoveAt(heap[edit[i]], j) \in Seq(Some)
    BY <2>1, RemoveAtType
  <2>3. QED
    BY <1>2, <2>2, CopyStep DEF RemoveCondition
<1>3. QED
  BY <1>1, <1>2

\* What can be saved is a condition, whatever it takes the place of.
LEMMA ConditionsType ==
  ASSUME NEW old \in Some, NEW c \in Conditions(old)
  PROVE  c \in Condition
<1>1. /\ c.name \in Names \cup (IF old = Undefined THEN {} ELSE {old.name} \ {<<>>})
      /\ c.value \in Typed
      /\ c.op \in Ops \cup (IF old = Undefined THEN {} ELSE {old.op})
      /\ c = [name |-> c.name, value |-> c.value, op |-> c.op]
  BY DEF Conditions
<1>2. Names \subseteq Whole \ {<<>>} /\ Ops \subseteq Operators /\ Typed \subseteq Texts
  BY FiltersAssumption, TextFacts, PageAssumption DEF FiltersAssumption, PageAssumption
<1>3. old # Undefined => old.name \in Whole /\ old.op \in Operators \cup {Undefined}
  BY DEF Some, Condition, Filter
<1>4. c.name \in Whole \ {<<>>} /\ c.op \in Operators \cup {Undefined} /\ c.value \in Texts
  BY <1>1, <1>2, <1>3
<1>5. c \in Filter
  BY <1>1, <1>4 DEF Filter
<1>6. QED
  BY <1>4, <1>5 DEF Condition

\* saveFilter changes the group in place, also one that the page has.
LEMMA SaveConditionStep ==
  ASSUME Inv, NEW i \in DOMAIN edit, NEW j \in DOMAIN heap[edit[i]],
         NEW c \in Conditions(heap[edit[i]][j]), SaveCondition(i, j, c)
  PROVE  Inv'
<1> DEFINE r == edit[i]
           group == [heap[r] EXCEPT ![j] = c]
           h == [heap EXCEPT ![r] = group]
<1>1. /\ heap[r] \in Seq(Some) /\ r \in Own /\ r \in Refs
      /\ j \in 1 .. Len(heap[r])
  BY GroupOfDrawer
<1>2. Edits(edit, h)
  BY DEF SaveCondition
<1>3. c \in Condition
  BY <1>1, ConditionsType
<1> HIDE DEF r
<1>4. group \in Seq(Some) /\ (heap[r] \in Seq(Condition) => group \in Seq(Condition))
  BY <1>1, <1>3 DEF Some
<1> HIDE DEF group
<1>5. /\ HeapOK(heap) /\ SavedAt(heap, filters) /\ RefsOK(edit)
      /\ filters \in Seq(Refs)
  BY Facts DEF Inv, GroupsOK, RefsOK
<1>6. \A s \in Refs : h[s] = IF s = r THEN group ELSE heap[s]
  BY <1>5 DEF HeapOK
<1>7. HeapOK(h)
  <2>1. h \in [Refs -> Seq(Some)]
    BY <1>1, <1>4, <1>5 DEF HeapOK
  <2>2. \A s \in 1 .. Len(Known) : s # r /\ s \in Refs
    BY <1>1, Facts
  <2> HIDE DEF h
  <2>3. QED
    BY <1>5, <1>6, <2>1, <2>2 DEF HeapOK
<1> HIDE DEF h
<1>8. SavedAt(h, filters)
  BY <1>4, <1>5, <1>6 DEF SavedAt, Group
<1>9. QED
  BY <1>2, <1>5, <1>7, <1>8, EditsStep

LEMMA CancelStep ==
  ASSUME Inv, Cancel
  PROVE  Inv'
<1>1. /\ drawer' = FALSE /\ edit' = filters /\ Store(heap)
      /\ UNCHANGED <<url, past, filters, tags, edits, asked, pending, data>>
  BY DEF Cancel
<1>2. GroupsOK /\ UrlsOK /\ RequestsOK /\ NewestIsOfUrl /\ RestOK
  BY DEF Inv
<1>3. RefsOK(filters') /\ RefsOK(edit') /\ SavedAt(heap, filters') /\ SavedAt(heap, edit')
  BY <1>1, <1>2 DEF GroupsOK
<1>4. HeapOK(heap') /\ SavedAt(heap', filters') /\ SavedAt(heap', edit')
  BY <1>1, <1>2, <1>3, StoreType DEF GroupsOK, RefsOK
<1>5. GroupsOK'
  BY <1>3, <1>4 DEF GroupsOK
<1>6. UrlsOK' /\ RequestsOK' /\ NewestIsOfUrl' /\ RestOK'
  BY <1>1, <1>2 DEF UrlsOK, RequestsOK, NewestIsOfUrl, RestOK
<1>7. QED
  BY <1>5, <1>6 DEF Inv

\* onApply: what is left of the groups has saved conditions only.
LEMMA AppliedType ==
  ASSUME NEW groups \in Seq(Seq(Some))
  PROVE  Applied(groups) \in Seq(Group) /\ Len(Applied(groups)) <= Len(groups)
<1> DEFINE defined == [i \in DOMAIN groups |-> Defined(groups[i])]
           S == ToSet(defined) \ {<<>>}
           full == Only(defined, S)
           kept == Kept(full)
<1>1. defined \in Seq(Group) /\ Len(defined) = Len(groups)
  <2>1. \A i \in 1 .. Len(groups) : groups[i] \in Seq(Condition \cup {Undefined})
    BY DEF Some
  <2>2. \A i \in 1 .. Len(groups) : Defined(groups[i]) \in Group
    BY <2>1, DefinedType
  <2>3. QED
    BY <2>2
<1> HIDE DEF defined, S
<1>2. full \in Seq(Group \cap S) /\ Len(full) <= Len(defined)
  BY <1>1, OnlyType
<1>3. full \in Seq(Group)
  BY <1>2
<1> HIDE DEF full
<1>4. kept \in Seq(DOMAIN full) /\ Len(kept) <= Len(full)
  BY <1>3, KeptType
<1> HIDE DEF kept
<1>5. \A i \in 1 .. Len(kept) : full[kept[i]] \in Group
  BY <1>3, <1>4
<1>6. Applied(groups) = [i \in DOMAIN kept |-> full[kept[i]]]
  BY DEF Applied, defined, S, full, kept
<1>7. Applied(groups) \in Seq(Group) /\ Len(Applied(groups)) = Len(kept)
  <2>1. DOMAIN kept = 1 .. Len(kept) /\ Len(kept) \in Nat
    BY <1>4
  <2>2. Applied(groups) = [i \in 1 .. Len(kept) |-> full[kept[i]]]
    BY <1>6, <2>1
  <2>3. QED
    BY <1>5, <2>1, <2>2
<1>8. Len(kept) \in Nat /\ Len(full) \in Nat /\ Len(defined) \in Nat
  BY <1>1, <1>3, <1>4
<1>9. QED
  BY <1>1, <1>2, <1>4, <1>7, <1>8

LEMMA ApplyStep ==
  ASSUME Inv, Apply
  PROVE  Inv'
<1> DEFINE groups == Applied(At(heap, edit))
           refs == Free(Len(groups))
           h == Put(heap, refs, groups)
<1>1. drawer' = FALSE /\ Push(h, refs, refs) /\ edits' = edits /\ data' = data
  BY DEF Apply
<1>2. /\ HeapOK(heap) /\ RefsOK(filters) /\ RefsOK(edit) /\ SavedAt(heap, filters)
      /\ filters \in Seq(Own) /\ edit \in Seq(Own) /\ Len(edit) <= MaxGroups
  BY DEF Inv, GroupsOK, RefsOK
<1>3. At(heap, edit) \in Seq(Seq(Some)) /\ Len(At(heap, edit)) = Len(edit)
  <2>1. At(heap, edit) = [i \in 1 .. Len(edit) |-> heap[edit[i]]]
    BY <1>2 DEF At
  <2>2. \A i \in 1 .. Len(edit) : heap[edit[i]] \in Seq(Some)
    BY GroupOfDrawer, <1>2
  <2>3. QED
    BY <1>2, <2>1, <2>2
<1>4. groups \in Seq(Group) /\ Len(groups) <= Len(edit)
  BY <1>3, AppliedType
<1> HIDE DEF groups
<1>5. Len(groups) \in 0 .. MaxGroups
  BY <1>2, <1>4, Facts
<1>6. RefsOK(refs) /\ Len(refs) = Len(groups)
  BY <1>2, <1>5, FreeType
<1> HIDE DEF refs
<1>7. /\ refs \in Seq(Own) /\ \A i \in DOMAIN refs : groups[i] \in Group
      /\ \A i \in DOMAIN refs : refs[i] \in ToSet(refs)
  BY <1>4, <1>6 DEF RefsOK, ToSet
<1>8. HeapOK(h) /\ SavedAt(h, refs)
  BY <1>2, <1>7, PutSaved
<1>9. SavedAt(h, filters)
  <2>1. \A i \in DOMAIN filters : heap[filters[i]] \in Group
    BY <1>2 DEF SavedAt
  <2>2. QED
    BY <1>2, <1>7, <2>1, PutSaved
<1> HIDE DEF h
<1>10. drawer' \in BOOLEAN
  BY <1>1
<1>11. QED
  BY <1>1, <1>6, <1>8, <1>9, <1>10, PushType

LEMMA ClearAllStep ==
  ASSUME Inv, ClearAll
  PROVE  Inv'
<1>1. drawer' = FALSE /\ Push(heap, <<>>, <<>>) /\ edits' = edits /\ data' = data
  BY DEF ClearAll
<1>2. HeapOK(heap) /\ SavedAt(heap, filters)
  BY DEF Inv, GroupsOK
<1>3. RefsOK(<<>>) /\ SavedAt(heap, <<>>)
  BY Facts DEF RefsOK, SavedAt
<1>4. drawer' \in BOOLEAN
  BY <1>1
<1>5. QED
  BY <1>1, <1>2, <1>3, <1>4, PushType

\* An answer, or none: one request less is under way.
LEMMA AnswerStep ==
  ASSUME Inv, NEW k \in DOMAIN pending, Answer(k) \/ FetchFails(k)
  PROVE  Inv'
<1> DEFINE Old == [nr : 1 .. asked, of : Asked]
<1>1. /\ pending' = RemoveAt(pending, k) /\ data' \in {data, pending[k]}
      /\ UNCHANGED <<heap, url, past, filters, edit, tags, drawer, edits, asked>>
  BY DEF Answer, FetchFails
<1>2. GroupsOK /\ UrlsOK /\ RequestsOK /\ NewestIsOfUrl /\ RestOK
  BY DEF Inv
<1>3. /\ pending \in Seq(Old) /\ Len(pending) <= asked /\ asked \in Nat
      /\ data \in {NoData} \cup Old /\ k \in 1 .. Len(pending)
  BY <1>2, PageAssumption DEF RequestsOK, PageAssumption
<1> HIDE DEF Old
<1>4. RemoveAt(pending, k) \in Seq(Old) /\ Len(RemoveAt(pending, k)) = Len(pending) - 1
  BY <1>3, RemoveAtType
<1>5. \A m \in DOMAIN RemoveAt(pending, k) : \E n \in DOMAIN pending :
        RemoveAt(pending, k)[m] = pending[n]
  BY <1>3, RemoveAtFrom
<1>6. RequestsOK'
  <2>1. pending' \in Seq(Old) /\ Len(pending') <= asked
    BY <1>1, <1>3, <1>4
  <2>2. data' \in {NoData} \cup Old
    BY <1>1, <1>3
  <2>3. QED
    BY <1>1, <1>2, <2>1, <2>2 DEF RequestsOK, Old, NoData
<1>7. NewestIsOfUrl'
  <2>1. \A m \in DOMAIN pending' : pending'[m].nr = asked => pending'[m].of = ToUrl(Wanted(url))
    BY <1>1, <1>2, <1>5 DEF NewestIsOfUrl
  <2>2. data'.nr = asked => data'.of = ToUrl(Wanted(url))
    BY <1>1, <1>2 DEF NewestIsOfUrl
  <2>3. QED
    BY <1>1, <2>1, <2>2 DEF NewestIsOfUrl
<1>8. GroupsOK' /\ UrlsOK' /\ RestOK'
  BY <1>1, <1>2 DEF GroupsOK, UrlsOK, RestOK
<1>9. QED
  BY <1>6, <1>7, <1>8 DEF Inv

LEMMA OpenStep ==
  ASSUME Inv, Open
  PROVE  Inv'
<1>1. drawer' = TRUE
      /\ UNCHANGED <<heap, url, past, filters, edit, tags, edits, asked, pending, data>>
  BY DEF Open
<1>2. GroupsOK /\ UrlsOK /\ RequestsOK /\ NewestIsOfUrl /\ RestOK
  BY DEF Inv
<1>3. GroupsOK' /\ UrlsOK' /\ RequestsOK' /\ NewestIsOfUrl' /\ RestOK'
  BY <1>1, <1>2 DEF GroupsOK, UrlsOK, RequestsOK, NewestIsOfUrl, RestOK
<1>4. QED
  BY <1>3 DEF Inv

-----------------------------------------------------------------------------
(* The invariant.                                                          *)

LEMMA InitInv == Init => Inv
<1> SUFFICES ASSUME Init PROVE Inv
  OBVIOUS
<1> DEFINE h == [r \in Refs |-> IF r \in DOMAIN Known THEN Known[r] ELSE <<>>]
<1>1. url \in Links \cup Pushed
  BY DEF Init
<1>2. HeapOK(h)
  <2>1. DOMAIN Known = 1 .. Len(Known) /\ \A i \in 1 .. Len(Known) : Known[i] \in Seq(Some)
    BY Facts DEF Group, Some
  <2>2. h \in [Refs -> Seq(Some)]
    BY <2>1
  <2>3. QED
    BY <2>1, <2>2, Facts DEF HeapOK
<1> HIDE DEF h
<1>3. /\ filters = RefsOf(url) /\ edit = RefsOf(url)
      /\ heap = Put(h, RefsOf(url), Wanted(url))
  BY DEF Init, h
<1>4. GroupsOK
  BY <1>1, <1>2, <1>3, RefsOfType, NewGroups DEF GroupsOK
<1>5. UrlsOK
  BY <1>1 DEF Init, UrlsOK
<1> DEFINE first == [nr |-> 1, of |-> ToUrl(Wanted(url))]
<1>6. asked = 1 /\ pending = <<first>> /\ data = NoData
  BY DEF Init
<1>7. first \in [nr : 1 .. 1, of : Asked] /\ first.of = ToUrl(Wanted(url))
  BY <1>1, AskedType
<1> HIDE DEF first
<1>8. RequestsOK
  BY <1>6, <1>7, PageAssumption DEF RequestsOK, PageAssumption
<1>9. NewestIsOfUrl
  BY <1>6, <1>7 DEF NewestIsOfUrl, NoData
<1>10. RestOK
  <2>1. tags \subseteq Texts
    BY <1>1, WantedType, TagsType DEF Init
  <2>2. drawer \in BOOLEAN /\ edits = 0
    BY DEF Init
  <2>3. edits \in 0 .. MaxEdits
    BY <2>2, PageAssumption DEF PageAssumption
  <2>4. QED
    BY <2>1, <2>2, <2>3 DEF RestOK
<1>11. QED
  BY <1>4, <1>5, <1>8, <1>9, <1>10 DEF Inv

LEMMA NextInv == Inv /\ [Next]_vars => Inv'
<1> SUFFICES ASSUME Inv, [Next]_vars PROVE Inv'
  OBVIOUS
<1>1. CASE Navigate
  <2>1. CASE Back
    BY <2>1, BackStep
  <2>2. ASSUME NEW settings \in Drills, Drill(settings) PROVE Inv'
    BY <2>2, DrillStep
  <2>3. ASSUME NEW tag \in tags, RemoveTag(tag) PROVE Inv'
    BY <2>3, RemoveTagStep
  <2>4. QED
    BY <1>1, <2>1, <2>2, <2>3 DEF Navigate
<1>2. CASE Drawer
  <2>1. CASE Open
    BY <2>1, OpenStep
  <2>2. CASE Cancel
    BY <2>2, CancelStep
  <2>3. CASE Apply
    BY <2>3, ApplyStep
  <2>4. CASE ClearAll
    BY <2>4, ClearAllStep
  <2>5. CASE AddGroup
    BY <2>5, AddGroupStep
  <2>6. ASSUME NEW i \in DOMAIN edit, AddCondition(i) PROVE Inv'
    BY <2>6, AddConditionStep
  <2>7. ASSUME NEW i \in DOMAIN edit, RemoveGroup(i) PROVE Inv'
    BY <2>7, RemoveGroupStep
  <2>8. ASSUME NEW i \in DOMAIN edit, NEW j \in DOMAIN heap[edit[i]], RemoveCondition(i, j)
        PROVE  Inv'
    BY <2>8, RemoveConditionStep
  <2>9. ASSUME NEW i \in DOMAIN edit, NEW j \in DOMAIN heap[edit[i]],
               NEW c \in Conditions(heap[edit[i]][j]), SaveCondition(i, j, c)
        PROVE  Inv'
    BY <2>9, SaveConditionStep
  <2>10. QED
    BY <1>2, <2>1, <2>2, <2>3, <2>4, <2>5, <2>6, <2>7, <2>8, <2>9 DEF Drawer
<1>3. CASE Server
  BY <1>3, AnswerStep DEF Server
<1>4. CASE UNCHANGED vars
  BY <1>4 DEF vars, Inv, GroupsOK, UrlsOK, RequestsOK, NewestIsOfUrl, RestOK
<1>5. QED
  BY <1>1, <1>2, <1>3, <1>4 DEF Next

\* Groups are where they belong, the page meets only its links and the URLs that
\* it pushes, and what it asks the API for has a condition in it.
THEOREM InductiveInvariant == Spec => []Inv
<1>1. QED
  BY InitInv, NextInv, PTL DEF Spec

-----------------------------------------------------------------------------
(* What it implies.                                                        *)

\* Types: the filters of the page hold saved conditions only, in the URL and in
\* the heap that the drawer changes, and no more requests are under way than
\* were made.
THEOREM TypeCorrect == Spec => []TypeOK
<1>1. Inv => TypeOK
  <2> SUFFICES ASSUME Inv PROVE TypeOK
    OBVIOUS
  <2>1. /\ heap \in [Refs -> Seq(Condition \cup {Undefined})]
        /\ filters \in Seq(Own) /\ edit \in Seq(Own) /\ SavedAt(heap, filters)
    BY DEF Inv, GroupsOK, HeapOK, RefsOK, Some
  <2>2. filters \in Seq(Refs) /\ edit \in Seq(Refs)
    BY <2>1, Facts
  <2>3. ASSUME NEW i \in DOMAIN filters
        PROVE  Undefined \notin ToSet(heap[filters[i]])
    <3>1. heap[filters[i]] \in Seq(Condition)
      BY <2>1 DEF SavedAt, Group
    <3>2. ToSet(heap[filters[i]]) \subseteq Condition
      BY <3>1 DEF ToSet
    <3>3. QED
      BY <3>2, TextFacts DEF Condition
  <2>4. tags \subseteq Texts /\ drawer \in BOOLEAN /\ edits \in 0 .. MaxEdits
    BY DEF Inv, RestOK
  <2>5. asked \in 1 .. MaxAsked /\ Len(pending) <= asked
    BY DEF Inv, RequestsOK
  <2>6. data.nr \in 0 .. asked
    BY PageAssumption DEF Inv, RequestsOK, NoData, PageAssumption
  <2>7. QED
    BY <2>1, <2>2, <2>3, <2>4, <2>5, <2>6 DEF TypeOK
<1>2. QED
  BY <1>1, InductiveInvariant, PTL

\* The deep clone of the known nodes: no click and no edit changes their list,
\* although both change groups in place.
THEOREM KnownStaysUntouched == Spec => []KnownUntouched
<1>1. Inv => KnownUntouched
  <2> SUFFICES ASSUME Inv PROVE KnownUntouched
    OBVIOUS
  <2>1. /\ \A r \in 1 .. Len(Known) : heap[r] = Known[r]
        /\ Known \in Seq(Group)
    BY Facts DEF Inv, GroupsOK, HeapOK
  <2>2. KnownRefs = [i \in 1 .. Len(Known) |-> i]
    BY <2>1 DEF KnownRefs
  <2>3. At(heap, KnownRefs) = [i \in 1 .. Len(Known) |-> heap[i]]
    BY <2>2 DEF At
  <2>4. [i \in 1 .. Len(Known) |-> heap[i]] = [i \in 1 .. Len(Known) |-> Known[i]]
    BY <2>1
  <2>5. QED
    BY <2>1, <2>3, <2>4 DEF KnownUntouched
<1>2. QED
  BY <1>1, InductiveInvariant, PTL

\* The page can read every URL that it pushes and that has plain text only: it
\* pushes no condition that was never saved, from whatever edits and links.
THEOREM PushedStaysReadable == Spec => []PushedIsReadable
<1>1. Inv => PushedIsReadable
  <2> SUFFICES ASSUME Inv, url \notin Links, PlainUrl(url) PROVE Readable(url)
    BY DEF PushedIsReadable
  <2>1. url \in Seq(Seq(SavedToken))
    BY DEF Inv, UrlsOK, Pushed
  <2>2. \A i \in DOMAIN url : \A j \in DOMAIN url[i] : url[i][j] \in SavedToken
    <3> DEFINE T == SavedToken
    <3> HIDE DEF T
    <3>1. url \in Seq(Seq(T))
      BY <2>1 DEF T
    <3>2. QED
      BY <3>1 DEF T
  <2>3. ASSUME NEW i \in DOMAIN url, NEW j \in DOMAIN url[i] PROVE CanRead(url[i][j])
    <3>1. IsPlain(Read(url[i][j])) /\ url[i][j] = Written(Read(url[i][j]))
      BY DEF PlainUrl
    <3>2. QED
      BY <2>2, <3>1, SavedReadable
  <2>4. QED
    BY <2>3 DEF Readable
<1>2. QED
  BY <1>1, InductiveInvariant, PTL

\* The newest request is for the filters of the URL, however the groups were
\* changed in place since, and so is its answer.
THEOREM NewestStaysOfUrl == Spec => []NewestIsOfUrl
<1>1. Inv => NewestIsOfUrl
  BY DEF Inv
<1>2. QED
  BY <1>1, InductiveInvariant, PTL

\* addFilterArgs: every request that the page makes on names of the drawer counts
\* the nodes that its groups mean, with every operator and number of groups.
THEOREM RequestsCountWhatIsMeant == Spec => []CountsWhatIsMeant
<1>1. Inv => CountsWhatIsMeant
  <2> SUFFICES ASSUME Inv, NEW k \in DOMAIN pending, Offered(pending[k].of)
               PROVE  /\ QueryOk(pending[k].of)
                      /\ \A node \in Node : Selected(pending[k].of, node)
                                              <=> Meant(FromUrl(pending[k].of), node)
    BY DEF CountsWhatIsMeant
  <2> DEFINE u == pending[k].of
  <2>1. u \in Asked
    <3> DEFINE Request == [nr : 1 .. asked, of : Asked]
    <3>1. pending \in Seq(Request)
      BY DEF Inv, RequestsOK
    <3>2. \A q \in Request : q.of \in Asked
      OBVIOUS
    <3> HIDE DEF Request
    <3>3. k \in 1 .. Len(pending) /\ pending[k] \in Request
      BY <3>1
    <3>4. QED
      BY <3>2, <3>3
  <2>2. Offered(u)
    OBVIOUS
  <2> HIDE DEF u
  <2>3. u \in Seq(Seq(Texts)) /\ \E i \in DOMAIN u : u[i] # <<>>
    BY <2>1 DEF Asked
  <2>4. /\ QueryOk(u)
        /\ \A node \in Node : Selected(u, node) <=> Meant(FromUrl(u), node)
    BY <2>2, <2>3, ApiSelectsWhatIsMeant
  <2>5. QED
    BY <2>4 DEF u
<1>2. QED
  BY <1>1, InductiveInvariant, PTL

\* appendOtherGroup, getClients and getErrors count every node of every list of
\* the instance once.
THEOREM ListsCountOnce == Spec => []CountedOnce
<1>1. CountedOnce
  <2> SUFFICES ASSUME NEW list \in Lists PROVE CountsOnce(list)
    BY DEF CountedOnce
  <2> DEFINE Item == [name : MCErrors \cup MCUnnamed \cup {"geth", "opera", "besu"},
                      count : 1 .. 2]
  <2> DEFINE names == MCErrors \cup MCUnnamed \cup {"geth", "opera", "besu"}
  <2>1. list \in Seq(Item)
    <3>1. PICK n \in 0 .. 4 : \E s \in [1 .. n -> names] : \E count \in [DOMAIN s -> 1 .. 2] :
            list = [i \in DOMAIN s |-> [name |-> s[i], count |-> count[i]]]
      BY DEF Lists
    <3>2. PICK s \in [1 .. n -> names] : \E count \in [DOMAIN s -> 1 .. 2] :
            list = [i \in DOMAIN s |-> [name |-> s[i], count |-> count[i]]]
      BY <3>1
    <3>3. PICK count \in [DOMAIN s -> 1 .. 2] :
            list = [i \in DOMAIN s |-> [name |-> s[i], count |-> count[i]]]
      BY <3>2
    <3> HIDE DEF names
    <3>4. DOMAIN s = 1 .. n /\ n \in Nat /\ Item = [name : names, count : 1 .. 2]
      BY DEF names
    <3> HIDE DEF Item
    <3>5. list = [i \in 1 .. n |-> [name |-> s[i], count |-> count[i]]]
      BY <3>3, <3>4
    <3>6. \A i \in 1 .. n : [name |-> s[i], count |-> count[i]] \in Item
      BY <3>4
    <3>7. QED
      BY <3>4, <3>5, <3>6
  <2>2. \A item \in Item : item.count \in Nat
    OBVIOUS
  <2> HIDE DEF Item
  <2>3. QED
    BY <2>1, <2>2, MassagerCountsOnce
<1>2. QED
  BY <1>1, PTL
=============================================================================
