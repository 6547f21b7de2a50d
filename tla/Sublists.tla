------------------------------ MODULE Sublists ------------------------------
(***************************************************************************)
(* What the programs take from the libraries of JavaScript and Go to take  *)
(* lists apart: Array.prototype.filter, which Filters and DataMassager are *)
(* built from, with a set in the place of the test (the provers cannot     *)
(* unfold SelectSeq, nor instantiate a lemma with a test as its            *)
(* parameter), and strings.Split, which ClientName is built from.          *)
(***************************************************************************)
EXTENDS Integers, Sequences

\* The elements of seq that are in S, in their order.
Only(seq, S) ==
  LET kept[n \in 0 .. Len(seq)] ==
        IF n = 0 THEN <<>>
        ELSE IF seq[n] \in S THEN Append(kept[n - 1], seq[n]) ELSE kept[n - 1]
  IN  kept[Len(seq)]

\* The parts of text between the separators, one more than there are of these.
Split(text, sep) ==
  LET cut[n \in 0 .. Len(text)] ==
        IF n = 0 THEN << <<>> >>
        ELSE LET parts == cut[n - 1] IN
             IF text[n] = sep THEN Append(parts, <<>>)
             ELSE [parts EXCEPT ![Len(parts)] = Append(@, text[n])]
  IN  cut[Len(text)]

\* The text that has these parts, at least one, between its separators.
Join(parts, sep) ==
  LET text[n \in 1 .. Len(parts)] ==
        IF n = 1 THEN parts[n] ELSE text[n - 1] \o <<sep>> \o parts[n]
  IN  text[Len(parts)]
=============================================================================
