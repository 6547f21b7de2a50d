----------------------------- MODULE ClientName -----------------------------
(***************************************************************************)
(* What becomes of the name that a peer sends in its Hello: readHello      *)
(* (crawler/handshake.go) splits it into the columns of the crawler's      *)
(* database, ParseVersionString (api/parser/vparser.go) parses these for   *)
(* the API's.  A text is a sequence of tokens: words, numbers and the      *)
(* separators "/", "-" and ".".  The "v" before a version is left out.     *)
(***************************************************************************)
EXTENDS Integers, Sequences, SequencesExt, Sublists

CONSTANTS Lowered, \* the words, with what strings.ToLower makes of them
          Value,   \* the numbers, with what strconv.Atoi makes of them
          Clients  \* clients whose names keep to the custom

Words   == DOMAIN Lowered
Numeric == DOMAIN Value \cup {"."}

\* The texts that have none of these separators in them.
Without(seps) == Seq((Words \cup DOMAIN Value \cup {"/", "-", "."}) \ seps)

ToLower(text) ==
  [i \in DOMAIN text |-> IF text[i] \in Words THEN Lowered[text[i]] ELSE text[i]]

Atoi(text) == IF Len(text) = 1 /\ text[1] \in DOMAIN Value THEN Value[text[1]] ELSE 0

Columns(type, desc, version, os, go) ==
  [type |-> type, desc |-> desc, version |-> version, os |-> os, go |-> go]

\* readHello: the columns of a name.
ReadName(name) ==
  LET s == Split(name, "/") IN
  CASE Len(s) = 4 -> Columns(s[1], <<>>, s[2], s[3], s[4])
    [] Len(s) = 5 -> Columns(s[1], s[2], s[3], s[4], s[5])
    [] Len(s) = 6 -> Columns(s[1], s[3] \o <<"/">> \o s[3], s[2], s[5], s[6])
    [] OTHER      -> Columns(name, <<>>, <<>>, <<>>, <<>>)

\* parseVersionNumber: major, minor and patch; none of more than four parts.
ParseVersionNumber(text) ==
  LET s == Split(text, ".")
  IN  [i \in 1 .. 3 |-> IF i <= Len(s) /\ Len(s) <= 4 THEN Atoi(s[i]) ELSE 0]

\* A variant whose cases do not fall through.
ParseWithoutFallthrough(text) ==
  LET s == Split(text, "-") IN
  [number |-> IF Len(s) \in {1, 5, 6, 7, 8} THEN ParseVersionNumber(s[1]) ELSE <<0, 0, 0>>,
   tag    |-> IF Len(s) = 2 THEN s[2] ELSE <<>>,
   build  |-> IF Len(s) = 3 THEN s[3] ELSE <<>>,
   date   |-> IF Len(s) = 4 THEN s[4] ELSE <<>>]

\* parseVersion.  Of five parts and more, the third from behind is in no field;
\* of more than eight, none is.
ParseVersion(text) ==
  LET s == Split(text, "-")
      n == Len(s)
      long == n \in 5 .. 8
  IN  [number |-> IF n <= 8 THEN ParseVersionNumber(s[1]) ELSE <<0, 0, 0>>,
       tag    |-> IF long THEN FlattenSeq(SubSeq(s, 2, n - 3))
                  ELSE IF n \in 2 .. 4 THEN s[2] ELSE <<>>,
       build  |-> IF long THEN s[n - 1] ELSE IF n \in 3 .. 4 THEN s[3] ELSE <<>>,
       date   |-> IF long THEN s[n] ELSE IF n = 4 THEN s[4] ELSE <<>>]

\* parseOS: a system and its architecture, nothing of three parts and more.
ParseOS(text) ==
  LET s == Split(text, "-") IN
  [os           |-> IF Len(s) <= 2 THEN ToLower(s[1]) ELSE <<>>,
   architecture |-> IF Len(s) = 2 THEN ToLower(s[2]) ELSE <<>>]

\* parseLanguage: the first run of numbers and dots, and the word before it,
\* which a "-" may follow.
ParseLanguage(text) ==
  LET numeric == {i \in DOMAIN text : text[i] \in Numeric}
      from == Min(numeric)
      to   == Min({i \in numeric : i + 1 \notin numeric})
      word == IF from > 1 /\ text[from - 1] = "-" THEN from - 2 ELSE from - 1
  IN  IF numeric = {} THEN [name |-> <<>>, version |-> <<>>]
      ELSE [name    |-> IF word > 0 /\ text[word] \in Words
                        THEN ToLower(<<text[word]>>) ELSE <<>>,
            version |-> SubSeq(text, from, to)]

\* ParseVersionString
ParseVersionString(c) ==
  [name |-> ToLower(c.type), version |-> ParseVersion(c.version),
   error |-> c.version # <<>> /\ ParseVersion(c.version).number = <<0, 0, 0>>,
   os |-> ParseOS(c.os), language |-> ParseLanguage(c.go)]

-----------------------------------------------------------------------------
(* The reference: how a client that keeps to the custom makes its name.    *)

\* Its type; up to two labels; a number of up to four parts, and pieces behind it;
\* a system, perhaps with its architecture; a language and its version.
Customary(c) ==
  /\ c.type \in Without({"/"})
  /\ c.labels \in Seq(Without({"/"})) /\ Len(c.labels) <= 2
  /\ c.number \in Seq(DOMAIN Value) /\ Len(c.number) \in 1 .. 4
  /\ c.pieces \in Seq(Without({"/", "-"})) /\ Len(c.pieces) <= 7
  /\ c.os \in Seq(Without({"/", "-"})) /\ Len(c.os) \in 1 .. 2
  /\ c.lang.before \in Seq(Words \cup {"-"})
  /\ c.lang.before = <<>> \/ Last(c.lang.before) = "-"
  /\ c.lang.name \in Words
  /\ c.lang.dash \in {<<>>, <<"-">>}
  /\ c.lang.version \in Seq(Numeric) \ {<<>>}
  /\ c.lang.after \in Without({"/"})
  /\ c.lang.after = <<>> \/ Head(c.lang.after) \notin Numeric

ASSUME ClientNameAssumption ==
  /\ Words \cap DOMAIN Value = {}
  /\ {"/", "-", "."} \cap (Words \cup DOMAIN Value) = {}
  /\ \A c \in Clients : Customary(c)

VersionText(c) ==
  Join(<<Join([i \in DOMAIN c.number |-> <<c.number[i]>>], ".")>> \o c.pieces, "-")

LanguageText(l) == l.before \o <<l.name>> \o l.dash \o l.version \o l.after

\* One label stands before the version, two stand behind it.
NameText(c) ==
  LET behind == <<Join(c.os, "-"), LanguageText(c.lang)>> IN
  Join(IF Len(c.labels) = 1 THEN <<c.type, c.labels[1], VersionText(c)>> \o behind
       ELSE <<c.type, VersionText(c)>> \o c.labels \o behind,
       "/")

\* What is kept of the labels: a single one; of two, the first one twice.
Described(labels) ==
  CASE Len(labels) = 0 -> <<>>
    [] Len(labels) = 1 -> labels[1]
    [] OTHER           -> labels[1] \o <<"/">> \o labels[1]

\* Of the pieces behind the number, the first is the tag, the second the build
\* and the third the date.  Of more, the last two are build and date, the one
\* before them is lost, and all the others together are the tag.
Piece(c, i) == IF i <= Len(c.pieces) THEN c.pieces[i] ELSE <<>>

\* The first three numbers of a version are known, the fourth is lost.
KnowsVersion(v, c) ==
  LET n == Len(c.pieces) IN
  /\ \A i \in 1 .. 3 : v.number[i] = IF i <= Len(c.number) THEN Value[c.number[i]] ELSE 0
  /\ IF n <= 3 THEN v.tag = Piece(c, 1) /\ v.build = Piece(c, 2) /\ v.date = Piece(c, 3)
     ELSE /\ v.build = Piece(c, n - 1) /\ v.date = Piece(c, n)
          /\ v.tag = FlattenSeq(SubSeq(c.pieces, 1, n - 3))

\* Names, systems and languages are known in lower case, tags as they were sent.
Knows(row, c) ==
  /\ row.name = ToLower(c.type)
  /\ KnowsVersion(row.version, c)
  /\ row.error <=> \A i \in 1 .. 3 : row.version.number[i] = 0
  /\ <<row.os.os, row.os.architecture>> =
       <<ToLower(c.os[1]), IF Len(c.os) = 2 THEN ToLower(c.os[2]) ELSE <<>> >>
  /\ row.language = [name |-> ToLower(<<c.lang.name>>), version |-> c.lang.version]
=============================================================================
