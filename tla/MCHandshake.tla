---------------------------- MODULE MCHandshake ----------------------------
(* Instances of Handshake and of ClientName for TLC. *)
EXTENDS Handshake, ClientName, TLC
CONSTANTS w1, w2

MCLowered ==
  ("Geth" :> "geth") @@ ("Fork" :> "fork") @@ ("linux" :> "linux") @@ ("AMD" :> "amd")
    @@ ("go" :> "go") @@ ("Java" :> "java") @@ ("corretto" :> "corretto")
    @@ ("stable" :> "stable") @@ ("RC" :> "rc") @@ ("abc" :> "abc")
MCValue == ("0" :> 0) @@ ("1" :> 1) @@ ("17" :> 17)

\* No label, one or two; numbers of up to four parts; up to seven pieces behind; with
\* and without an architecture; "go1.17", "corretto-Java-17" and "go1-RC1".
Pieces == <<<<"stable">>, <<"RC", ".", "1">>, <<"abc">>, <<"17">>, <<"Fork">>, <<"0">>, <<"go">>>>
Language(front, word, dash, numbers, rest) ==
  [before |-> front, name |-> word, dash |-> dash, version |-> numbers, after |-> rest]
MCClients ==
  [type : {<<"Geth">>}, labels : {SubSeq(<<<<"Fork">>, <<"abc">>>>, 1, n) : n \in 0 .. 2},
   number : UNION {[1 .. n -> {"0", "1", "17"}] : n \in 1 .. 4},
   pieces : {SubSeq(Pieces, 1, n) : n \in 0 .. 7},
   os : {<<<<"linux">>>>, <<<<"linux">>, <<"AMD">>>>},
   lang : {Language(<<>>, "go", <<>>, <<"1", ".", "17">>, <<>>),
           Language(<<"corretto", "-">>, "Java", <<"-">>, <<"17">>, <<>>),
           Language(<<>>, "go", <<>>, <<"1">>, <<"-", "RC", "1">>)}]

\* What readHello and ParseVersionString, one after the other, keep of the name
\* of a client, whichever parts of it there are: everything but the fourth number,
\* the piece third from behind of four and more, and the second of two labels.  The
\* tag is as the name has it, where vparser_test.go:76 expects it in lower case.  It
\* depends on no variable, and Init spares TLC evaluating it more than once.
NamesRecognised ==
  Init => \A c \in Clients :
            LET columns == ReadName(NameText(c)) IN
            /\ columns.desc = Described(c.labels)
            /\ Knows(ParseVersionString(columns), c)
=============================================================================
