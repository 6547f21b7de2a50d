----------------------------- MODULE ListProofs -----------------------------
(***************************************************************************)
(* Lemmas about the operators on lists: Sublists and those of the          *)
(* community modules.  They are inductions over the length of a list.  A   *)
(* set of numbers takes the place of the induction hypothesis, since the   *)
(* provers cannot instantiate a theorem that has an operator as its        *)
(* parameter.                                                              *)
(***************************************************************************)
EXTENDS Integers, Sequences, SequencesExt, Sublists, WellFoundedInduction, TLAPS

-----------------------------------------------------------------------------
(* Induction and recursion.                                                *)

\* A set of naturals with 0 and every successor has all of them: otherwise the
\* rest had a least number.
LEMMA NatSet ==
  ASSUME NEW I, 0 \in I, \A n \in Nat : n \in I => n + 1 \in I
  PROVE  Nat \subseteq I
<1> DEFINE R == OpToRel(<, Nat)
           T == Nat \ I
<1>1. IsWellFoundedOn(R, Nat)
  BY NatLessThanWellFounded
<1>2. SUFFICES ASSUME T # {} PROVE FALSE
  OBVIOUS
<1>3. PICK x \in T : \A y \in T : ~ (<<y, x>> \in R)
  <2>1. T \subseteq Nat
    OBVIOUS
  <2> HIDE DEF T, R
  <2>2. QED
    BY <1>1, <1>2, <2>1, WFMin
<1>4. x \in Nat /\ x # 0 /\ x - 1 \in Nat
  OBVIOUS
<1>5. x - 1 \in T
  BY <1>4
<1>6. <<x - 1, x>> \in R
  BY <1>4 DEF OpToRel
<1>7. QED
  BY <1>3, <1>5, <1>6

LEMMA UpTo ==
  ASSUME NEW n \in Nat, NEW I, 0 \in I, \A k \in 1 .. n : k - 1 \in I => k \in I
  PROVE  \A k \in 0 .. n : k \in I
<1> DEFINE J == {k \in Nat : k <= n => k \in I}
<1>1. 0 \in J
  OBVIOUS
<1>2. \A k \in Nat : k \in J => k + 1 \in J
  <2> SUFFICES ASSUME NEW k \in Nat, k \in J, k + 1 <= n PROVE k + 1 \in I
    OBVIOUS
  <2>1. k + 1 \in 1 .. n /\ (k + 1) - 1 = k /\ k \in I
    OBVIOUS
  <2>2. QED
    BY <2>1
<1>3. Nat \subseteq J
  <2> HIDE DEF J
  <2>1. QED
    BY <1>1, <1>2, NatSet
<1>4. QED
  BY <1>3

\* f is defined by recursion over 0 .. n.
Recursive(f, n, base, Step) ==
  f[0] = base /\ \A k \in 1 .. n : f[k] = Step[k][f[k - 1]]

LEMMA Recursion ==
  ASSUME NEW n \in Nat, NEW X, NEW base \in X, NEW Step \in [1 .. n -> [X -> X]]
  PROVE  \E f \in [0 .. n -> X] : Recursive(f, n, base, Step)
<1> DEFINE Upto(m) == \E f \in [0 .. m -> X] : Recursive(f, m, base, Step)
           I == {m \in 0 .. n : Upto(m)}
<1>1. 0 \in I
  <2> DEFINE g == [k \in 0 .. 0 |-> base]
  <2>1. g \in [0 .. 0 -> X] /\ g[0] = base /\ 0 \in 0 .. n
    OBVIOUS
  <2>2. \A k \in 1 .. 0 : g[k] = Step[k][g[k - 1]]
    OBVIOUS
  <2>3. Upto(0)
    <3> HIDE DEF g
    <3>1. QED
      BY <2>1, <2>2 DEF Recursive
  <2>4. QED
    BY <2>1, <2>3
<1>2. ASSUME NEW m \in 1 .. n, m - 1 \in I
      PROVE  m \in I
  <2>1. PICK f \in [0 .. m - 1 -> X] :
          f[0] = base /\ \A k \in 1 .. m - 1 : f[k] = Step[k][f[k - 1]]
    BY <1>2 DEF Recursive
  <2> DEFINE g == [k \in 0 .. m |-> IF k = m THEN Step[m][f[m - 1]] ELSE f[k]]
  <2>2. f[m - 1] \in X /\ Step[m][f[m - 1]] \in X
    OBVIOUS
  <2>3. g \in [0 .. m -> X]
    BY <2>2
  <2>4. g[0] = base
    BY <2>1
  <2>5. \A k \in 1 .. m : g[k] = Step[k][g[k - 1]]
    <3> TAKE k \in 1 .. m
    <3>1. CASE k = m
      <4>1. g[k - 1] = f[m - 1] /\ g[k] = Step[m][f[m - 1]]
        BY <3>1
      <4>2. QED
        BY <4>1, <3>1
    <3>2. CASE k # m
      <4>1. k \in 1 .. m - 1 /\ g[k] = f[k] /\ g[k - 1] = f[k - 1]
        BY <3>2
      <4>2. QED
        BY <4>1, <2>1
    <3>3. QED
      BY <3>1, <3>2
  <2>6. Upto(m)
    <3> HIDE DEF g
    <3>1. QED
      BY <2>3, <2>4, <2>5 DEF Recursive
  <2>7. m \in 0 .. n
    OBVIOUS
  <2>8. QED
    BY <2>6, <2>7
<1>3. \A k \in 0 .. n : k \in I
  <2> HIDE DEF I
  <2>1. QED
    BY <1>1, <1>2, UpTo
<1>4. QED
  BY <1>3

-----------------------------------------------------------------------------
(* Only.                                                                   *)

\* The recursion that Only is: kept has the selections from the first elements.
OnlyRec(seq, S, T, kept) ==
  /\ kept \in [0 .. Len(seq) -> Seq(T)]
  /\ kept[0] = <<>>
  /\ \A n \in 1 .. Len(seq) :
       kept[n] = IF seq[n] \in S THEN Append(kept[n - 1], seq[n]) ELSE kept[n - 1]
  /\ Only(seq, S) = kept[Len(seq)]

LEMMA OnlyDef ==
  ASSUME NEW T, NEW seq \in Seq(T), NEW S
  PROVE  \E kept : OnlyRec(seq, S, T, kept)
<1> DEFINE len == Len(seq)
           Step == [n \in 1 .. len |->
                      [x \in Seq(T) |-> IF seq[n] \in S THEN Append(x, seq[n]) ELSE x]]
           Body(g) == [n \in 0 .. len |->
                         IF n = 0 THEN <<>>
                         ELSE IF seq[n] \in S THEN Append(g[n - 1], seq[n]) ELSE g[n - 1]]
<1>1. len \in Nat /\ \A n \in 1 .. len : seq[n] \in T
  OBVIOUS
<1>2. Step \in [1 .. len -> [Seq(T) -> Seq(T)]]
  BY <1>1
<1>3. PICK f \in [0 .. len -> Seq(T)] :
        f[0] = <<>> /\ \A n \in 1 .. len : f[n] = Step[n][f[n - 1]]
  <2> DEFINE X == Seq(T)
             none == <<>>
  <2>1. none \in X
    OBVIOUS
  <2>2. Step \in [1 .. len -> [X -> X]]
    BY <1>2
  <2>3. \E f \in [0 .. len -> X] : Recursive(f, len, none, Step)
    <3> HIDE DEF Step, len, X, none
    <3>1. QED
      BY <1>1, <2>1, <2>2, Recursion
  <2>4. QED
    BY <2>3 DEF Recursive
<1>4. \A n \in 1 .. len :
        f[n] = IF seq[n] \in S THEN Append(f[n - 1], seq[n]) ELSE f[n - 1]
  <2> TAKE n \in 1 .. len
  <2>1. n - 1 \in 0 .. len /\ f[n - 1] \in Seq(T)
    BY <1>1, <1>3
  <2>2. Step[n] = [x \in Seq(T) |-> IF seq[n] \in S THEN Append(x, seq[n]) ELSE x]
    OBVIOUS
  <2>3. f[n] = Step[n][f[n - 1]]
    BY <1>3
  <2> HIDE DEF Step, len
  <2>4. QED
    BY <2>1, <2>2, <2>3
<1>5. f = Body(f)
  <2>1. \A n \in 0 .. len : f[n] = Body(f)[n]
    <3> TAKE n \in 0 .. len
    <3>1. CASE n = 0
      BY <1>3, <3>1
    <3>2. CASE n # 0
      <4>1. n \in 1 .. len
        BY <1>1, <3>2
      <4>2. Body(f)[n] = IF seq[n] \in S THEN Append(f[n - 1], seq[n]) ELSE f[n - 1]
        BY <3>2
      <4> HIDE DEF Body, len
      <4>3. QED
        BY <1>4, <4>1, <4>2
    <3>3. QED
      BY <3>1, <3>2
  <2>2. QED
    BY <1>3, <2>1
<1> DEFINE kept == CHOOSE g : g = Body(g)
<1>6. kept = Body(kept)
  <2>1. \E g : g = Body(g)
    BY <1>5
  <2> HIDE DEF Body
  <2>2. QED
    BY <2>1
<1>7. Only(seq, S) = kept[len]
  BY DEF Only
<1> HIDE DEF kept
<1>8. kept[0] = <<>>
  BY <1>1, <1>6
<1>9. ASSUME NEW n \in 1 .. len
      PROVE  kept[n] = IF seq[n] \in S THEN Append(kept[n - 1], seq[n]) ELSE kept[n - 1]
  <2>1. n \in 0 .. len /\ n # 0
    BY <1>1
  <2>2. Body(kept)[n] = IF n = 0 THEN <<>>
                        ELSE IF seq[n] \in S THEN Append(kept[n - 1], seq[n]) ELSE kept[n - 1]
    BY <2>1
  <2> HIDE DEF Body, len
  <2>3. QED
    BY <1>6, <2>1, <2>2
<1>10. \A n \in 0 .. len : kept[n] \in Seq(T)
  <2> DEFINE I == {n \in 0 .. len : kept[n] \in Seq(T)}
  <2>1. 0 \in I
    <3>1. <<>> \in Seq(T) /\ 0 \in 0 .. len
      BY <1>1
    <3> HIDE DEF len
    <3>2. QED
      BY <1>8, <3>1
  <2>2. ASSUME NEW n \in 1 .. len, n - 1 \in I PROVE n \in I
    <3>1. kept[n - 1] \in Seq(T) /\ seq[n] \in T /\ n \in 0 .. len
      BY <1>1, <2>2
    <3> HIDE DEF len
    <3>2. Append(kept[n - 1], seq[n]) \in Seq(T)
      BY <3>1
    <3>3. CASE seq[n] \in S
      BY <1>9, <3>1, <3>2, <3>3
    <3>4. CASE seq[n] \notin S
      BY <1>9, <3>1, <3>4
    <3>5. QED
      BY <3>3, <3>4
  <2>3. \A n \in 0 .. len : n \in I
    <3> HIDE DEF I
    <3>1. QED
      BY <1>1, <2>1, <2>2, UpTo
  <2>4. QED
    BY <2>3
<1>11. kept \in [0 .. len -> Seq(T)]
  <2>1. kept = [n \in 0 .. len |-> kept[n]]
    BY <1>6
  <2>2. QED
    BY <1>10, <2>1
<1>12. QED
  BY <1>7, <1>8, <1>9, <1>11 DEF OnlyRec

\* The selection is a list of elements that are in the set, and no longer.
LEMMA OnlyType ==
  ASSUME NEW T, NEW seq \in Seq(T), NEW S
  PROVE  /\ Only(seq, S) \in Seq(T \cap S)
         /\ Len(Only(seq, S)) <= Len(seq)
<1>1. PICK kept : OnlyRec(seq, S, T, kept)
  BY OnlyDef
<1> DEFINE len == Len(seq)
           I == {n \in 0 .. len : kept[n] \in Seq(T \cap S) /\ Len(kept[n]) <= n}
<1>2. len \in Nat /\ \A n \in 1 .. len : seq[n] \in T
  OBVIOUS
<1>3. 0 \in I
  BY <1>1, <1>2 DEF OnlyRec
<1>4. ASSUME NEW n \in 1 .. len, n - 1 \in I PROVE n \in I
  <2>1. kept[n - 1] \in Seq(T \cap S) /\ Len(kept[n - 1]) <= n - 1 /\ seq[n] \in T
    BY <1>2, <1>4
  <2>2. CASE seq[n] \in S
    <3>1. kept[n] = Append(kept[n - 1], seq[n]) /\ seq[n] \in T \cap S
      BY <1>1, <2>1, <2>2 DEF OnlyRec
    <3>2. kept[n] \in Seq(T \cap S) /\ Len(kept[n]) = Len(kept[n - 1]) + 1
      BY <2>1, <3>1
    <3>3. QED
      BY <1>2, <2>1, <3>2
  <2>3. CASE seq[n] \notin S
    <3>1. kept[n] = kept[n - 1]
      BY <1>1, <2>3 DEF OnlyRec
    <3>2. QED
      BY <1>2, <2>1, <3>1
  <2>4. QED
    BY <2>2, <2>3
<1>5. \A n \in 0 .. len : n \in I
  <2> HIDE DEF I
  <2>1. QED
    BY <1>2, <1>3, <1>4, UpTo
<1>6. QED
  BY <1>1, <1>2, <1>5 DEF OnlyRec

\* Nothing is left out of a list whose elements are all in the set.
LEMMA OnlyAll ==
  ASSUME NEW T, NEW seq \in Seq(T), NEW S, \A n \in 1 .. Len(seq) : seq[n] \in S
  PROVE  Only(seq, S) = seq
<1>1. PICK kept : OnlyRec(seq, S, T, kept)
  BY OnlyDef
<1> DEFINE len == Len(seq)
           I == {n \in 0 .. len : kept[n] = SubSeq(seq, 1, n)}
<1>2. len \in Nat /\ \A n \in 1 .. len : seq[n] \in T
  OBVIOUS
<1>3. 0 \in I
  BY <1>1, <1>2 DEF OnlyRec
<1>4. ASSUME NEW n \in 1 .. len, n - 1 \in I PROVE n \in I
  <2>1. kept[n] = Append(SubSeq(seq, 1, n - 1), seq[n])
    BY <1>1, <1>4 DEF OnlyRec
  <2>2. SubSeq(seq, 1, n - 1) \in Seq(T) /\ Len(SubSeq(seq, 1, n - 1)) = n - 1
    BY <1>2
  <2>3. Append(SubSeq(seq, 1, n - 1), seq[n]) = SubSeq(seq, 1, n)
    BY <1>2, <2>2
  <2>4. QED
    BY <1>2, <2>1, <2>3
<1>5. \A n \in 0 .. len : n \in I
  <2> HIDE DEF I
  <2>1. QED
    BY <1>2, <1>3, <1>4, UpTo
<1>6. SubSeq(seq, 1, len) = seq
  BY <1>2
<1>7. QED
  BY <1>1, <1>2, <1>5, <1>6 DEF OnlyRec

-----------------------------------------------------------------------------
(* The first elements of a list.                                           *)

LEMMA SeqAppend ==
  ASSUME NEW S, NEW list \in Seq(S), NEW x \in S
  PROVE  /\ Append(list, x) \in Seq(S) /\ Append(list, x) # <<>>
         /\ Len(Append(list, x)) = Len(list) + 1 /\ Len(list) \in Nat
         /\ Append(list, x)[Len(list) + 1] = x
         /\ \A n \in 1 .. Len(list) : Append(list, x)[n] = list[n]
  OBVIOUS

LEMMA SeqFirst ==
  ASSUME NEW S, NEW list \in Seq(S), NEW n \in 1 .. Len(list)
  PROVE  /\ SubSeq(list, 1, n) \in Seq(S) \ {<<>>}
         /\ n = 1 => SubSeq(list, 1, n) = <<list[n]>>
         /\ SubSeq(list, 1, n) = Append(SubSeq(list, 1, n - 1), list[n])
<1>1. SubSeq(list, 1, n) \in Seq(S) /\ Len(SubSeq(list, 1, n)) = n
  OBVIOUS
<1>2. SubSeq(list, 1, n) = Append(SubSeq(list, 1, n - 1), list[n])
  OBVIOUS
<1>3. n = 1 => SubSeq(list, 1, n - 1) = <<>>
  OBVIOUS
<1>4. Append(<<>>, list[n]) = <<list[n]>>
  OBVIOUS
<1>5. SubSeq(list, 1, n) # <<>>
  BY <1>1
<1>6. n = 1 => SubSeq(list, 1, n) = <<list[n]>>
  BY <1>2, <1>3, <1>4
<1>7. QED
  BY <1>1, <1>2, <1>5, <1>6

-----------------------------------------------------------------------------
(* FlattenSeq and SelectInSeq.                                             *)

Parts(T) == Seq(Seq(T)) \ {<<>>}

\* The recursion that FlattenSeq is.
FlattenRec(seqs, T, flat) ==
  /\ flat \in [1 .. Len(seqs) -> Seq(T)]
  /\ \A n \in 1 .. Len(seqs) :
       flat[n] = IF n = 1 THEN seqs[n] ELSE flat[n - 1] \o seqs[n]
  /\ FlattenSeq(seqs) = flat[Len(seqs)]

LEMMA FlattenDef ==
  ASSUME NEW T, NEW seqs \in Seq(Seq(T)), seqs # <<>>
  PROVE  \E flat : FlattenRec(seqs, T, flat)
<1> DEFINE len == Len(seqs)
           X == Seq(T)
           none == <<>>
           Step == [n \in 1 .. len |->
                      [x \in X |-> IF n = 1 THEN seqs[n] ELSE x \o seqs[n]]]
           Body(g) == [n \in 1 .. len |->
                         IF n = 1 THEN seqs[n] ELSE g[n - 1] \o seqs[n]]
<1>1. len \in Nat \ {0} /\ \A n \in 1 .. len : seqs[n] \in X
  OBVIOUS
<1>2. Step \in [1 .. len -> [X -> X]]
  BY <1>1
<1>3. PICK f \in [0 .. len -> X] : Recursive(f, len, none, Step)
  <2>1. none \in X
    OBVIOUS
  <2> HIDE DEF Step, len, X, none
  <2>2. QED
    BY <1>1, <1>2, <2>1, Recursion
<1>4. ASSUME NEW n \in 1 .. len
      PROVE  f[n] = IF n = 1 THEN seqs[n] ELSE f[n - 1] \o seqs[n]
  <2>1. n - 1 \in 0 .. len /\ f[n - 1] \in X
    <3>1. n - 1 \in 0 .. len
      BY <1>1
    <3> HIDE DEF len, X
    <3>2. QED
      BY <1>3, <3>1
  <2>2. Step[n] = [x \in X |-> IF n = 1 THEN seqs[n] ELSE x \o seqs[n]]
    OBVIOUS
  <2>3. f[n] = Step[n][f[n - 1]]
    BY <1>3 DEF Recursive
  <2> HIDE DEF Step, len, X
  <2>4. QED
    BY <2>1, <2>2, <2>3
<1> DEFINE h == [n \in 1 .. len |-> f[n]]
<1>5. h = Body(h)
  <2>1. \A n \in 1 .. len : h[n] = Body(h)[n]
    <3> TAKE n \in 1 .. len
    <3>1. CASE n = 1
      BY <1>4, <3>1
    <3>2. CASE n # 1
      <4>1. n - 1 \in 1 .. len
        BY <1>1, <3>2
      <4>2. h[n - 1] = f[n - 1] /\ h[n] = f[n]
        BY <4>1
      <4>3. Body(h)[n] = h[n - 1] \o seqs[n]
        BY <3>2
      <4> HIDE DEF Body, len, h
      <4>4. QED
        BY <1>4, <3>2, <4>2, <4>3
    <3>3. QED
      BY <3>1, <3>2
  <2>2. QED
    BY <2>1
<1> DEFINE flat == CHOOSE g : g = Body(g)
<1>6. flat = Body(flat)
  <2>1. \E g : g = Body(g)
    BY <1>5
  <2> HIDE DEF Body
  <2>2. QED
    BY <2>1
<1>7. FlattenSeq(seqs) = flat[len]
  BY <1>1 DEF FlattenSeq
<1> HIDE DEF flat
<1>8. ASSUME NEW n \in 1 .. len
      PROVE  flat[n] = IF n = 1 THEN seqs[n] ELSE flat[n - 1] \o seqs[n]
  <2>1. Body(flat)[n] = IF n = 1 THEN seqs[n] ELSE flat[n - 1] \o seqs[n]
    OBVIOUS
  <2> HIDE DEF Body, len
  <2>2. QED
    BY <1>6, <2>1
<1>9. \A n \in 1 .. len : flat[n] \in X
  <2> DEFINE I == {n \in 0 .. len : n # 0 => flat[n] \in X}
  <2>1. 0 \in I
    BY <1>1
  <2>2. ASSUME NEW n \in 1 .. len, n - 1 \in I PROVE n \in I
    <3>1. n \in 0 .. len /\ n \in Nat /\ seqs[n] \in X
      BY <1>1
    <3>2. CASE n = 1
      <4> HIDE DEF len, X
      <4>1. QED
        BY <1>8, <3>1, <3>2
    <3>3. CASE n # 1
      <4>1. flat[n - 1] \in X
        BY <2>2, <3>3
      <4>2. flat[n - 1] \o seqs[n] \in X
        BY <3>1, <4>1
      <4> HIDE DEF len, X
      <4>3. QED
        BY <1>8, <3>1, <3>3, <4>2
    <3>4. QED
      BY <3>2, <3>3
  <2>3. \A n \in 0 .. len : n \in I
    <3> HIDE DEF I
    <3>1. QED
      BY <1>1, <2>1, <2>2, UpTo
  <2>4. QED
    BY <2>3
<1>10. flat \in [1 .. len -> X]
  <2>1. flat = [n \in 1 .. len |-> flat[n]]
    BY <1>6
  <2> HIDE DEF len, X
  <2>2. QED
    BY <1>9, <2>1
<1>11. QED
  BY <1>7, <1>8, <1>10 DEF FlattenRec

\* A flattened list is a list, empty if all its parts are.
LEMMA FlattenType ==
  ASSUME NEW T, NEW seqs \in Seq(Seq(T))
  PROVE  /\ FlattenSeq(seqs) \in Seq(T)
         /\ Len(FlattenSeq(seqs)) = 0 <=> \A n \in 1 .. Len(seqs) : seqs[n] = <<>>
<1>1. CASE seqs = <<>>
  BY <1>1 DEF FlattenSeq
<1>2. CASE seqs # <<>>
  <2>1. PICK flat : FlattenRec(seqs, T, flat)
    BY <1>2, FlattenDef
  <2> DEFINE len == Len(seqs)
             I == {n \in 0 .. len : n # 0 =>
                     (flat[n] = <<>> <=> \A m \in 1 .. n : seqs[m] = <<>>)}
  <2>2. len \in Nat \ {0} /\ \A n \in 1 .. len : seqs[n] \in Seq(T)
    BY <1>2
  <2>3. 0 \in I
    BY <2>2
  <2>4. ASSUME NEW n \in 1 .. len, n - 1 \in I PROVE n \in I
    <3>1. n \in 0 .. len /\ n \in Nat \ {0}
      BY <2>2
    <3>2. CASE n = 1
      <4>1. flat[n] = seqs[n]
        BY <2>1, <3>2 DEF FlattenRec
      <4>2. QED
        BY <3>1, <3>2, <4>1
    <3>3. CASE n # 1
      <4>1. flat[n] = flat[n - 1] \o seqs[n]
        BY <2>1, <3>3 DEF FlattenRec
      <4>2. flat[n - 1] \in Seq(T) /\ seqs[n] \in Seq(T)
        <5>1. n - 1 \in 1 .. len
          BY <2>2, <3>3
        <5>2. flat \in [1 .. len -> Seq(T)]
          BY <2>1 DEF FlattenRec
        <5>3. QED
          BY <2>2, <5>1, <5>2
      <4>3. flat[n] = <<>> <=> flat[n - 1] = <<>> /\ seqs[n] = <<>>
        BY <4>1, <4>2
      <4>4. flat[n - 1] = <<>> <=> \A m \in 1 .. n - 1 : seqs[m] = <<>>
        BY <2>4, <3>1, <3>3
      <4>5. 1 .. n = (1 .. n - 1) \cup {n}
        BY <3>1
      <4>6. QED
        BY <3>1, <4>3, <4>4, <4>5
    <3>4. QED
      BY <3>2, <3>3
  <2>5. \A n \in 0 .. len : n \in I
    <3> HIDE DEF I
    <3>1. QED
      BY <2>2, <2>3, <2>4, UpTo
  <2>6. len \in 0 .. len /\ len # 0 /\ len \in 1 .. len
    BY <2>2
  <2>7. FlattenSeq(seqs) \in Seq(T) /\ FlattenSeq(seqs) = flat[len]
    BY <2>1, <2>6 DEF FlattenRec
  <2>8. QED
    BY <2>5, <2>6, <2>7
<1>3. QED
  BY <1>1, <1>2

\* One more part comes last.
LEMMA FlattenAppend ==
  ASSUME NEW T, NEW seqs \in Parts(T), NEW x \in Seq(T)
  PROVE  FlattenSeq(Append(seqs, x)) = FlattenSeq(seqs) \o x
<1> DEFINE more == Append(seqs, x)
           len == Len(seqs)
<1>1. /\ more \in Seq(Seq(T)) /\ more # <<>> /\ seqs \in Seq(Seq(T)) /\ seqs # <<>>
      /\ Len(more) = len + 1 /\ len \in Nat \ {0}
      /\ more[len + 1] = x /\ \A n \in 1 .. len : more[n] = seqs[n]
  <2>1. seqs \in Seq(Seq(T)) /\ seqs # <<>>
    BY DEF Parts
  <2>2. len \in Nat \ {0}
    BY <2>1
  <2>3. QED
    BY <2>1, <2>2, SeqAppend
<1>2. PICK flat : FlattenRec(seqs, T, flat)
  BY <1>1, FlattenDef
<1>3. PICK flats : FlattenRec(more, T, flats)
  <2> HIDE DEF more
  <2>1. QED
    BY <1>1, FlattenDef
<1> HIDE DEF more
<1> DEFINE I == {n \in 0 .. len : n # 0 => flats[n] = flat[n]}
<1>4. 0 \in I
  BY <1>1
<1>5. ASSUME NEW n \in 1 .. len, n - 1 \in I PROVE n \in I
  <2>1. n \in 0 .. len /\ n \in 1 .. Len(more) /\ more[n] = seqs[n]
    BY <1>1
  <2>2. /\ flats[n] = IF n = 1 THEN seqs[n] ELSE flats[n - 1] \o seqs[n]
        /\ flat[n] = IF n = 1 THEN seqs[n] ELSE flat[n - 1] \o seqs[n]
    BY <1>2, <1>3, <2>1 DEF FlattenRec
  <2>3. n # 1 => flats[n - 1] = flat[n - 1]
    BY <1>5, <2>1
  <2>4. flats[n] = flat[n]
    BY <2>2, <2>3
  <2>5. QED
    BY <2>1, <2>4
<1>6. \A n \in 0 .. len : n \in I
  <2> HIDE DEF I, len
  <2>1. QED
    BY <1>1, <1>4, <1>5, UpTo
<1>7. /\ flats[len] = flat[len] /\ len + 1 \in 1 .. Len(more) /\ (len + 1) - 1 = len
      /\ len + 1 # 1
  BY <1>1, <1>6
<1>8. flats[len + 1] = flats[(len + 1) - 1] \o more[len + 1]
  BY <1>3, <1>7 DEF FlattenRec
<1>9. FlattenSeq(more) = flats[len + 1] /\ FlattenSeq(seqs) = flat[len]
  BY <1>1, <1>2, <1>3 DEF FlattenRec
<1>10. QED
  BY <1>1, <1>7, <1>8, <1>9 DEF more

\* A set of naturals has its least element.
LEMMA MinIn ==
  ASSUME NEW S \in SUBSET Nat, S # {}
  PROVE  Min(S) \in S
<1> DEFINE R == OpToRel(<, Nat)
<1>1. PICK x \in S : \A y \in S : ~ (<<y, x>> \in R)
  <2>1. IsWellFoundedOn(R, Nat)
    BY NatLessThanWellFounded
  <2> HIDE DEF R
  <2>2. QED
    BY <2>1, WFMin
<1>2. \A y \in S : x <= y
  <2> SUFFICES ASSUME NEW y \in S, y < x PROVE FALSE
    OBVIOUS
  <2>1. <<y, x>> \in R
    BY DEF OpToRel
  <2>2. QED
    BY <1>1, <2>1
<1>3. QED
  BY <1>2 DEF Min

LEMMA MinIs ==
  ASSUME NEW S \in SUBSET Nat, NEW m \in S, \A y \in S : m <= y
  PROVE  Min(S) = m
<1>1. Min(S) \in S /\ \A y \in S : Min(S) <= y
  BY DEF Min
<1>2. Min(S) <= m /\ m <= Min(S) /\ Min(S) \in Nat /\ m \in Nat
  BY <1>1
<1>3. QED
  BY <1>2

-----------------------------------------------------------------------------
(* Split.                                                                  *)

\* What one more token makes of the parts before it.
Cut(parts, x, sep) ==
  IF x = sep THEN Append(parts, <<>>)
  ELSE [parts EXCEPT ![Len(parts)] = Append(@, x)]

LEMMA CutType ==
  ASSUME NEW T, NEW parts \in Parts(T), NEW x \in T, NEW sep
  PROVE  Cut(parts, x, sep) \in Parts(T)
<1>1. parts \in Seq(Seq(T)) /\ Len(parts) \in 1 .. Len(parts) /\ <<>> \in Seq(T)
  BY DEF Parts
<1>2. parts[Len(parts)] \in Seq(T)
  BY <1>1
<1>3. CASE x = sep
  <2>1. Append(parts, <<>>) \in Seq(Seq(T)) /\ Append(parts, <<>>) # <<>>
    BY <1>1
  <2>2. QED
    BY <1>3, <2>1 DEF Cut, Parts
<1>4. CASE x # sep
  <2> DEFINE last == Append(parts[Len(parts)], x)
  <2>1. last \in Seq(T)
    BY <1>2
  <2> HIDE DEF last
  <2>2. /\ [parts EXCEPT ![Len(parts)] = last] \in Seq(Seq(T))
        /\ Len([parts EXCEPT ![Len(parts)] = last]) = Len(parts)
    BY <1>1, <2>1
  <2>3. QED
    BY <1>1, <1>4, <2>2 DEF Cut, Parts, last
<1>5. QED
  BY <1>3, <1>4

\* The recursion that Split is: cut has the parts of the first tokens.
SplitRec(text, sep, T, cut) ==
  /\ cut \in [0 .. Len(text) -> Parts(T)]
  /\ cut[0] = << <<>> >>
  /\ \A n \in 1 .. Len(text) : cut[n] = Cut(cut[n - 1], text[n], sep)
  /\ Split(text, sep) = cut[Len(text)]

LEMMA SplitDef ==
  ASSUME NEW T, NEW text \in Seq(T), NEW sep
  PROVE  \E cut : SplitRec(text, sep, T, cut)
<1> DEFINE len == Len(text)
           X == Parts(T)
           none == << <<>> >>
           Step == [n \in 1 .. len |-> [x \in X |-> Cut(x, text[n], sep)]]
           Body(g) == [n \in 0 .. len |->
                         IF n = 0 THEN none ELSE Cut(g[n - 1], text[n], sep)]
<1>1. len \in Nat /\ \A n \in 1 .. len : text[n] \in T
  OBVIOUS
<1>2. Step \in [1 .. len -> [X -> X]]
  <2>1. \A n \in 1 .. len : \A x \in X : Cut(x, text[n], sep) \in X
    BY <1>1, CutType
  <2> HIDE DEF len, X
  <2>2. QED
    BY <2>1
<1>3. PICK f \in [0 .. len -> X] : Recursive(f, len, none, Step)
  <2>1. none \in X
    BY DEF Parts
  <2> HIDE DEF Step, len, X, none
  <2>2. QED
    BY <1>1, <1>2, <2>1, Recursion
<1>4. ASSUME NEW n \in 1 .. len
      PROVE  f[n] = Cut(f[n - 1], text[n], sep)
  <2>1. n - 1 \in 0 .. len
    BY <1>1
  <2>2. Step[n] = [x \in X |-> Cut(x, text[n], sep)]
    OBVIOUS
  <2>3. f[n] = Step[n][f[n - 1]]
    BY <1>3 DEF Recursive
  <2> HIDE DEF Step, len, X
  <2>4. QED
    BY <1>3, <2>1, <2>2, <2>3
<1>5. f = Body(f)
  <2>1. \A n \in 0 .. len : f[n] = Body(f)[n]
    <3> TAKE n \in 0 .. len
    <3>1. CASE n = 0
      BY <1>3, <3>1 DEF Recursive
    <3>2. CASE n # 0
      <4>1. n \in 1 .. len
        BY <1>1, <3>2
      <4>2. Body(f)[n] = Cut(f[n - 1], text[n], sep)
        BY <3>2
      <4> HIDE DEF Body, len
      <4>3. QED
        BY <1>4, <4>1, <4>2
    <3>3. QED
      BY <3>1, <3>2
  <2>2. f = [n \in 0 .. len |-> f[n]]
    BY <1>3
  <2>3. QED
    BY <2>1, <2>2
<1> DEFINE cut == CHOOSE g : g = Body(g)
<1>6. cut = Body(cut)
  <2>1. \E g : g = Body(g)
    BY <1>5
  <2> HIDE DEF Body
  <2>2. QED
    BY <2>1
<1>7. Split(text, sep) = cut[len]
  BY DEF Split, Cut
<1> HIDE DEF cut
<1>8. cut[0] = none
  BY <1>1, <1>6
<1>9. ASSUME NEW n \in 1 .. len
      PROVE  cut[n] = Cut(cut[n - 1], text[n], sep)
  <2>1. n \in 0 .. len /\ n # 0
    BY <1>1
  <2>2. Body(cut)[n] = Cut(cut[n - 1], text[n], sep)
    BY <2>1
  <2> HIDE DEF Body, len
  <2>3. QED
    BY <1>6, <2>2
<1>10. \A n \in 0 .. len : cut[n] \in X
  <2> DEFINE I == {n \in 0 .. len : cut[n] \in X}
  <2>1. 0 \in I
    <3>1. none \in X /\ 0 \in 0 .. len
      BY <1>1 DEF Parts
    <3> HIDE DEF len, X, none
    <3>2. QED
      BY <1>8, <3>1
  <2>2. ASSUME NEW n \in 1 .. len, n - 1 \in I PROVE n \in I
    <3>1. cut[n - 1] \in X /\ text[n] \in T /\ n \in 0 .. len
      BY <1>1, <2>2
    <3> HIDE DEF len
    <3>2. QED
      BY <1>9, <3>1, CutType
  <2>3. \A n \in 0 .. len : n \in I
    <3> HIDE DEF I
    <3>1. QED
      BY <1>1, <2>1, <2>2, UpTo
  <2>4. QED
    BY <2>3
<1>11. cut \in [0 .. len -> X]
  <2>1. cut = [n \in 0 .. len |-> cut[n]]
    BY <1>6
  <2> HIDE DEF len, X
  <2>2. QED
    BY <1>10, <2>1
<1>12. QED
  BY <1>7, <1>8, <1>9, <1>11 DEF SplitRec

LEMMA SplitType ==
  ASSUME NEW T, NEW text \in Seq(T), NEW sep
  PROVE  Split(text, sep) \in Parts(T) /\ Split(<<>>, sep) = << <<>> >>
<1>1. PICK cut : SplitRec(text, sep, T, cut)
  BY SplitDef
<1>2. <<>> \in Seq(T) /\ Len(<<>>) = 0 /\ Len(text) \in 0 .. Len(text)
  OBVIOUS
<1>3. PICK none : SplitRec(<<>>, sep, T, none)
  BY <1>2, SplitDef
<1>4. Split(text, sep) \in Parts(T)
  BY <1>1, <1>2 DEF SplitRec
<1>5. Split(<<>>, sep) = << <<>> >>
  BY <1>2, <1>3 DEF SplitRec
<1>6. QED
  BY <1>4, <1>5

\* No part has a separator in it.
LEMMA SplitClean ==
  ASSUME NEW T, NEW text \in Seq(T), NEW sep
  PROVE  Split(text, sep) \in Parts(T \ {sep})
<1> DEFINE U == T \ {sep}
<1>1. PICK cut : SplitRec(text, sep, T, cut)
  BY SplitDef
<1>2. Len(text) \in Nat /\ \A n \in 1 .. Len(text) : text[n] = sep \/ text[n] \in U
  OBVIOUS
<1> HIDE DEF U
<1> DEFINE len == Len(text)
           none == << <<>> >>
           I == {n \in 0 .. len : cut[n] \in Parts(U)}
<1>3. 0 \in I
  <2>1. cut[0] = none /\ none \in Seq(Seq(U)) /\ none # <<>>
    BY <1>1 DEF SplitRec
  <2> HIDE DEF none
  <2>2. QED
    BY <1>2, <2>1 DEF Parts
<1>4. ASSUME NEW n \in 1 .. len, n - 1 \in I PROVE n \in I
  <2> DEFINE old == cut[n - 1]
  <2>1. old \in Parts(U) /\ n \in 0 .. len
    BY <1>2, <1>4
  <2>2. cut[n] = Cut(old, text[n], sep)
    BY <1>1 DEF SplitRec
  <2> HIDE DEF old
  <2>3. CASE text[n] = sep
    <3>1. Append(old, <<>>) \in Parts(U)
      <4>1. old \in Seq(Seq(U)) /\ <<>> \in Seq(U)
        BY <2>1 DEF Parts
      <4>2. QED
        BY <4>1, SeqAppend DEF Parts
    <3>2. QED
      BY <2>1, <2>2, <2>3, <3>1 DEF Cut
  <2>4. CASE text[n] # sep
    <3>1. text[n] \in U
      BY <1>2, <2>4
    <3>2. QED
      BY <2>1, <2>2, <3>1, CutType
  <2>5. QED
    BY <2>3, <2>4
<1>5. \A n \in 0 .. len : n \in I
  <2> HIDE DEF I, len
  <2>1. len \in Nat
    BY <1>2 DEF len
  <2>2. QED
    BY <2>1, <1>3, <1>4, UpTo
<1>6. cut[len] \in Parts(U)
  BY <1>2, <1>5
<1>7. Split(text, sep) = cut[len]
  BY <1>1 DEF SplitRec
<1>8. QED
  BY <1>6, <1>7 DEF U

LEMMA SplitAppend ==
  ASSUME NEW T, NEW text \in Seq(T), NEW x \in T, NEW sep
  PROVE  Split(Append(text, x), sep) = Cut(Split(text, sep), x, sep)
<1> DEFINE more == Append(text, x)
           len == Len(text)
<1>1. /\ more \in Seq(T) /\ Len(more) = len + 1 /\ len \in Nat
      /\ more[len + 1] = x /\ \A n \in 1 .. len : more[n] = text[n]
  OBVIOUS
<1>2. PICK cut : SplitRec(text, sep, T, cut)
  BY SplitDef
<1>3. PICK cuts : SplitRec(more, sep, T, cuts)
  <2> HIDE DEF more
  <2>1. QED
    BY <1>1, SplitDef
<1> HIDE DEF more
<1> DEFINE I == {n \in 0 .. len : cuts[n] = cut[n]}
<1>4. 0 \in I
  <2>1. cuts[0] = << <<>> >> /\ cut[0] = << <<>> >>
    BY <1>2, <1>3 DEF SplitRec
  <2>2. QED
    BY <1>1, <2>1
<1>5. ASSUME NEW n \in 1 .. len, n - 1 \in I PROVE n \in I
  <2>1. n \in 0 .. len /\ n \in 1 .. Len(more) /\ more[n] = text[n]
    BY <1>1
  <2>2. cuts[n] = Cut(cuts[n - 1], text[n], sep) /\ cut[n] = Cut(cut[n - 1], text[n], sep)
    BY <1>2, <1>3, <2>1 DEF SplitRec
  <2>3. QED
    BY <1>5, <2>1, <2>2
<1>6. \A n \in 0 .. len : n \in I
  <2> HIDE DEF I, len
  <2>1. QED
    BY <1>1, <1>4, <1>5, UpTo
<1>7. cuts[len] = cut[len] /\ len + 1 \in 1 .. Len(more) /\ (len + 1) - 1 = len
  BY <1>1, <1>6
<1>8. cuts[len + 1] = Cut(cuts[(len + 1) - 1], more[len + 1], sep)
  BY <1>3, <1>7 DEF SplitRec
<1>9. QED
  BY <1>1, <1>2, <1>3, <1>7, <1>8 DEF SplitRec, more

\* A token that is no separator goes to the last part.
LEMMA CutLast ==
  ASSUME NEW T, NEW old \in Seq(Seq(T)), NEW last \in Seq(T), NEW sep,
         NEW x \in T \ {sep}
  PROVE  Cut(Append(old, last), x, sep) = Append(old, Append(last, x))
<1> DEFINE cut == Append(old, last)
           more == Append(last, x)
           new == Append(old, more)
           put == [cut EXCEPT ![Len(cut)] = Append(cut[Len(cut)], x)]
<1>1. more \in Seq(T)
  OBVIOUS
<1>2. /\ cut \in Seq(Seq(T)) /\ Len(cut) = Len(old) + 1 /\ Len(old) \in Nat
      /\ cut[Len(old) + 1] = last /\ \A n \in 1 .. Len(old) : cut[n] = old[n]
  BY SeqAppend
<1> HIDE DEF more
<1>3. /\ new \in Seq(Seq(T)) /\ Len(new) = Len(old) + 1
      /\ new[Len(old) + 1] = more /\ \A n \in 1 .. Len(old) : new[n] = old[n]
  BY <1>1, SeqAppend
<1> HIDE DEF cut, new
<1>4. DOMAIN cut = 1 .. Len(old) + 1 /\ DOMAIN new = 1 .. Len(old) + 1
  BY <1>2, <1>3
<1>5. put = [n \in 1 .. Len(old) + 1 |-> IF n = Len(old) + 1 THEN more ELSE cut[n]]
  BY <1>2, <1>4 DEF more
<1>6. new = [n \in 1 .. Len(old) + 1 |-> new[n]]
  BY <1>3, <1>4
<1>7. \A n \in 1 .. Len(old) + 1 : new[n] = IF n = Len(old) + 1 THEN more ELSE cut[n]
  <2> TAKE n \in 1 .. Len(old) + 1
  <2>1. n = Len(old) + 1 \/ n \in 1 .. Len(old)
    BY <1>2
  <2>2. n \in 1 .. Len(old) => n # Len(old) + 1
    BY <1>2
  <2>3. QED
    BY <1>2, <1>3, <2>1, <2>2
<1>8. new = put
  BY <1>5, <1>6, <1>7
<1>9. QED
  BY <1>8 DEF Cut, cut, new, more

\* A run without separators goes to the last part, which was empty.
LEMMA SplitRun ==
  ASSUME NEW T, NEW text \in Seq(T), NEW sep, NEW run \in Seq(T \ {sep}),
         NEW old \in Seq(Seq(T)), Split(text, sep) = Append(old, <<>>)
  PROVE  Split(text \o run, sep) = Append(old, run)
<1> DEFINE len == Len(run)
           first(n) == SubSeq(run, 1, n)
           I == {n \in 0 .. len : Split(text \o first(n), sep) = Append(old, first(n))}
<1>1. 0 \in I
  <2>1. first(0) = <<>> /\ text \o <<>> = text /\ 0 \in 0 .. len
    OBVIOUS
  <2>2. QED
    BY <2>1
<1>2. ASSUME NEW n \in 1 .. len, n - 1 \in I PROVE n \in I
  <2>1. /\ n \in 0 .. len /\ run[n] \in T \ {sep}
        /\ first(n - 1) \in Seq(T) /\ text \o first(n - 1) \in Seq(T)
    OBVIOUS
  <2>2. first(n) = Append(first(n - 1), run[n])
    OBVIOUS
  <2>3. text \o first(n) = Append(text \o first(n - 1), run[n])
    BY <2>1, <2>2
  <2>4. Split(text \o first(n - 1), sep) = Append(old, first(n - 1))
    BY <1>2
  <2> HIDE DEF first
  <2>5. Split(text \o first(n), sep) = Cut(Append(old, first(n - 1)), run[n], sep)
    BY <2>1, <2>3, <2>4, SplitAppend
  <2>6. Split(text \o first(n), sep) = Append(old, first(n))
    BY <2>1, <2>2, <2>5, CutLast
  <2>7. QED
    BY <2>1, <2>6
<1>3. \A n \in 0 .. len : n \in I
  <2> HIDE DEF I
  <2>1. len \in Nat
    OBVIOUS
  <2>2. QED
    BY <1>1, <1>2, <2>1, UpTo
<1>4. first(len) = run /\ len \in 0 .. len
  OBVIOUS
<1> HIDE DEF first
<1>5. QED
  BY <1>3, <1>4

-----------------------------------------------------------------------------
(* Join.                                                                   *)

\* The recursion that Join is: text has the text of the first parts.
JoinRec(parts, sep, T, text) ==
  /\ text \in [1 .. Len(parts) -> Seq(T)]
  /\ \A n \in 1 .. Len(parts) :
       text[n] = IF n = 1 THEN parts[n] ELSE text[n - 1] \o <<sep>> \o parts[n]
  /\ Join(parts, sep) = text[Len(parts)]

LEMMA JoinDef ==
  ASSUME NEW T, NEW parts \in Parts(T), NEW sep \in T
  PROVE  \E text : JoinRec(parts, sep, T, text)
<1> DEFINE len == Len(parts)
           X == Seq(T)
           none == <<>>
           Step == [n \in 1 .. len |->
                      [x \in X |-> IF n = 1 THEN parts[n] ELSE x \o <<sep>> \o parts[n]]]
           Body(g) == [n \in 1 .. len |->
                         IF n = 1 THEN parts[n] ELSE g[n - 1] \o <<sep>> \o parts[n]]
<1>1. len \in Nat \ {0} /\ \A n \in 1 .. len : parts[n] \in X
  BY DEF Parts
<1>2. Step \in [1 .. len -> [X -> X]]
  <2>1. \A x \in X, y \in X : x \o <<sep>> \o y \in X
    OBVIOUS
  <2> HIDE DEF X, len
  <2>2. QED
    BY <1>1, <2>1
<1>3. PICK f \in [0 .. len -> X] : Recursive(f, len, none, Step)
  <2>1. none \in X
    OBVIOUS
  <2> HIDE DEF Step, len, X, none
  <2>2. QED
    BY <1>1, <1>2, <2>1, Recursion
<1>4. ASSUME NEW n \in 1 .. len
      PROVE  f[n] = IF n = 1 THEN parts[n] ELSE f[n - 1] \o <<sep>> \o parts[n]
  <2>1. n - 1 \in 0 .. len /\ f[n - 1] \in X
    <3>1. n - 1 \in 0 .. len
      BY <1>1
    <3> HIDE DEF len, X
    <3>2. QED
      BY <1>3, <3>1
  <2>2. Step[n] = [x \in X |-> IF n = 1 THEN parts[n] ELSE x \o <<sep>> \o parts[n]]
    OBVIOUS
  <2>3. f[n] = Step[n][f[n - 1]]
    BY <1>3 DEF Recursive
  <2> HIDE DEF Step, len, X
  <2>4. QED
    BY <2>1, <2>2, <2>3
<1> DEFINE h == [n \in 1 .. len |-> f[n]]
<1>5. h = Body(h)
  <2>1. \A n \in 1 .. len : h[n] = Body(h)[n]
    <3> TAKE n \in 1 .. len
    <3>1. CASE n = 1
      BY <1>4, <3>1
    <3>2. CASE n # 1
      <4>1. n - 1 \in 1 .. len
        BY <1>1, <3>2
      <4>2. h[n - 1] = f[n - 1] /\ h[n] = f[n]
        BY <4>1
      <4>3. Body(h)[n] = h[n - 1] \o <<sep>> \o parts[n]
        BY <3>2
      <4> HIDE DEF Body, len, h
      <4>4. QED
        BY <1>4, <3>2, <4>2, <4>3
    <3>3. QED
      BY <3>1, <3>2
  <2>2. QED
    BY <2>1
<1> DEFINE text == CHOOSE g : g = Body(g)
<1>6. text = Body(text)
  <2>1. \E g : g = Body(g)
    BY <1>5
  <2> HIDE DEF Body
  <2>2. QED
    BY <2>1
<1>7. Join(parts, sep) = text[len]
  BY DEF Join
<1> HIDE DEF text
<1>8. ASSUME NEW n \in 1 .. len
      PROVE  text[n] = IF n = 1 THEN parts[n] ELSE text[n - 1] \o <<sep>> \o parts[n]
  <2>1. Body(text)[n] = IF n = 1 THEN parts[n] ELSE text[n - 1] \o <<sep>> \o parts[n]
    OBVIOUS
  <2> HIDE DEF Body, len
  <2>2. QED
    BY <1>6, <2>1
<1>9. \A n \in 1 .. len : text[n] \in X
  <2> DEFINE I == {n \in 0 .. len : n # 0 => text[n] \in X}
  <2>1. 0 \in I
    BY <1>1
  <2>2. ASSUME NEW n \in 1 .. len, n - 1 \in I PROVE n \in I
    <3>1. n \in 0 .. len /\ n \in Nat /\ parts[n] \in X
      BY <1>1
    <3>2. CASE n = 1
      <4> HIDE DEF len, X
      <4>1. QED
        BY <1>8, <3>1, <3>2
    <3>3. CASE n # 1
      <4>1. text[n - 1] \in X
        BY <2>2, <3>3
      <4>2. text[n - 1] \o <<sep>> \o parts[n] \in X
        BY <3>1, <4>1
      <4> HIDE DEF len, X
      <4>3. QED
        BY <1>8, <3>1, <3>3, <4>2
    <3>4. QED
      BY <3>2, <3>3
  <2>3. \A n \in 0 .. len : n \in I
    <3> HIDE DEF I
    <3>1. QED
      BY <1>1, <2>1, <2>2, UpTo
  <2>4. QED
    BY <2>3
<1>10. text \in [1 .. len -> X]
  <2>1. text = [n \in 1 .. len |-> text[n]]
    BY <1>6
  <2> HIDE DEF len, X
  <2>2. QED
    BY <1>9, <2>1
<1>11. QED
  BY <1>7, <1>8, <1>10 DEF JoinRec

\* A text of parts has no tokens but theirs and the separator.
LEMMA JoinType ==
  ASSUME NEW T, NEW parts \in Parts(T), NEW sep \in T
  PROVE  Join(parts, sep) \in Seq(T)
<1>1. PICK text : JoinRec(parts, sep, T, text)
  BY JoinDef
<1>2. Len(parts) \in 1 .. Len(parts)
  BY DEF Parts
<1>3. QED
  BY <1>1, <1>2 DEF JoinRec

LEMMA JoinOne ==
  ASSUME NEW T, NEW part \in Seq(T), NEW sep \in T
  PROVE  Join(<<part>>, sep) = part
<1>1. <<part>> \in Parts(T) /\ Len(<<part>>) = 1
  BY DEF Parts
<1>2. PICK text : JoinRec(<<part>>, sep, T, text)
  BY <1>1, JoinDef
<1>3. QED
  BY <1>1, <1>2 DEF JoinRec

LEMMA JoinAppend ==
  ASSUME NEW T, NEW parts \in Parts(T), NEW part \in Seq(T), NEW sep \in T
  PROVE  Join(Append(parts, part), sep) = Join(parts, sep) \o <<sep>> \o part
<1> DEFINE more == Append(parts, part)
           len == Len(parts)
<1>1. /\ more \in Parts(T) /\ Len(more) = len + 1 /\ len \in Nat \ {0}
      /\ more[len + 1] = part /\ \A n \in 1 .. len : more[n] = parts[n]
  BY DEF Parts
<1>2. PICK text : JoinRec(parts, sep, T, text)
  BY JoinDef
<1>3. PICK texts : JoinRec(more, sep, T, texts)
  <2> HIDE DEF more
  <2>1. QED
    BY <1>1, JoinDef
<1> HIDE DEF more
<1> DEFINE I == {n \in 0 .. len : n # 0 => texts[n] = text[n]}
<1>4. 0 \in I
  BY <1>1
<1>5. ASSUME NEW n \in 1 .. len, n - 1 \in I PROVE n \in I
  <2>1. n \in 0 .. len /\ n \in 1 .. Len(more) /\ more[n] = parts[n]
    BY <1>1
  <2>2. /\ texts[n] = IF n = 1 THEN parts[n] ELSE texts[n - 1] \o <<sep>> \o parts[n]
        /\ text[n] = IF n = 1 THEN parts[n] ELSE text[n - 1] \o <<sep>> \o parts[n]
    BY <1>2, <1>3, <2>1 DEF JoinRec
  <2>3. n # 1 => texts[n - 1] = text[n - 1]
    BY <1>5, <2>1
  <2>4. texts[n] = text[n]
    BY <2>2, <2>3
  <2>5. QED
    BY <2>1, <2>4
<1>6. \A n \in 0 .. len : n \in I
  <2> HIDE DEF I, len
  <2>1. QED
    BY <1>1, <1>4, <1>5, UpTo
<1>7. texts[len] = text[len] /\ len + 1 \in 1 .. Len(more) /\ (len + 1) - 1 = len /\ len + 1 # 1
  BY <1>1, <1>6
<1>8. texts[len + 1] = texts[(len + 1) - 1] \o <<sep>> \o more[len + 1]
  BY <1>3, <1>7 DEF JoinRec
<1>9. Join(more, sep) = texts[len + 1] /\ Join(parts, sep) = text[len]
  BY <1>1, <1>2, <1>3 DEF JoinRec
<1>10. QED
  BY <1>1, <1>7, <1>8, <1>9 DEF more

LEMMA SplitOne ==
  ASSUME NEW T, NEW sep, NEW part \in Seq(T \ {sep})
  PROVE  Split(part, sep) = <<part>>
<1>1. <<>> \in Seq(T) /\ <<>> \in Seq(Seq(T)) /\ <<>> \o part = part
  OBVIOUS
<1>2. Append(<<>>, <<>>) = << <<>> >> /\ Append(<<>>, part) = <<part>>
  OBVIOUS
<1>3. Split(<<>>, sep) = Append(<<>>, <<>>)
  BY <1>1, <1>2, SplitType
<1>4. Split(<<>> \o part, sep) = Append(<<>>, part)
  BY <1>1, <1>3, SplitRun
<1>5. QED
  BY <1>1, <1>2, <1>4

LEMMA SplitNext ==
  ASSUME NEW T, NEW sep \in T, NEW text \in Seq(T), NEW part \in Seq(T \ {sep})
  PROVE  Split(text \o <<sep>> \o part, sep) = Append(Split(text, sep), part)
<1> DEFINE old == Split(text, sep)
<1>1. old \in Seq(Seq(T))
  BY SplitType DEF Parts
<1>2. Append(text, sep) = text \o <<sep>> /\ Append(text, sep) \in Seq(T)
  OBVIOUS
<1>3. Split(Append(text, sep), sep) = Append(old, <<>>)
  BY SplitAppend DEF Cut
<1> HIDE DEF old
<1>4. Split(Append(text, sep) \o part, sep) = Append(old, part)
  BY <1>1, <1>2, <1>3, SplitRun
<1>5. QED
  BY <1>2, <1>4 DEF old

\* strings.Split undoes strings.Join when no part has the separator in it: what
\* the parsers of client names rely on at every level of a name.
THEOREM SplitUndoesJoin ==
  ASSUME NEW T, NEW sep \in T, NEW parts \in Parts(T \ {sep})
  PROVE  Split(Join(parts, sep), sep) = parts
<1> DEFINE len == Len(parts)
           first(n) == SubSeq(parts, 1, n)
           I == {n \in 0 .. len : n # 0 => Split(Join(first(n), sep), sep) = first(n)}
<1>1. /\ len \in Nat \ {0} /\ parts \in Seq(Seq(T \ {sep})) /\ parts \in Seq(Seq(T))
      /\ \A n \in 1 .. len : parts[n] \in Seq(T \ {sep}) /\ parts[n] \in Seq(T)
  <2>1. parts \in Seq(Seq(T \ {sep})) /\ parts # <<>>
    BY DEF Parts
  <2>2. \A s \in Seq(T \ {sep}) : s \in Seq(T)
    OBVIOUS
  <2>3. QED
    BY <2>1, <2>2
<1>2. 0 \in I
  BY <1>1
<1>3. ASSUME NEW n \in 1 .. len, n - 1 \in I PROVE n \in I
  <2>1. n \in 0 .. len /\ n \in Nat \ {0}
    BY <1>1
  <2>2. n = 1 => first(n) = <<parts[n]>>
    BY <1>1, SeqFirst
  <2>3. first(n) = Append(first(n - 1), parts[n])
    BY <1>1, SeqFirst
  <2>4. n # 1 => first(n - 1) \in Parts(T)
    <3> HAVE n # 1
    <3>1. n - 1 \in 1 .. len
      BY <1>1
    <3>2. QED
      BY <1>1, <3>1, SeqFirst DEF Parts
  <2> HIDE DEF first
  <2>5. CASE n = 1
    <3>1. Split(parts[n], sep) = <<parts[n]>> /\ Join(<<parts[n]>>, sep) = parts[n]
      BY <1>1, JoinOne, SplitOne
    <3>2. QED
      BY <2>1, <2>2, <2>5, <3>1
  <2>6. CASE n # 1
    <3> DEFINE old == first(n - 1)
               text == Join(old, sep)
    <3>1. old \in Parts(T) /\ first(n) = Append(old, parts[n])
      BY <2>3, <2>4, <2>6
    <3>2. Split(text, sep) = old
      BY <1>3, <2>1, <2>6
    <3> HIDE DEF old
    <3>3. text \in Seq(T) /\ Join(first(n), sep) = text \o <<sep>> \o parts[n]
      BY <1>1, <3>1, JoinType, JoinAppend
    <3> HIDE DEF text
    <3>4. Split(Join(first(n), sep), sep) = first(n)
      BY <1>1, <3>1, <3>2, <3>3, SplitNext
    <3>5. QED
      BY <2>1, <3>4
  <2>7. QED
    BY <2>5, <2>6
<1>4. \A n \in 0 .. len : n \in I
  <2> HIDE DEF I
  <2>1. QED
    BY <1>1, <1>2, <1>3, UpTo
<1>5. first(len) = parts /\ len \in 0 .. len
  BY <1>1
<1> HIDE DEF first
<1>6. QED
  BY <1>1, <1>4, <1>5

\* Only an empty part alone makes an empty text.
LEMMA JoinNotEmpty ==
  ASSUME NEW T, NEW sep \in T, NEW parts \in Parts(T \ {sep}), parts # << <<>> >>
  PROVE  Join(parts, sep) # <<>>
<1>1. Split(Join(parts, sep), sep) = parts
  BY SplitUndoesJoin
<1>2. <<>> \in Seq(T)
  OBVIOUS
<1>3. Split(<<>>, sep) = << <<>> >>
  BY <1>2, SplitType
<1>4. QED
  BY <1>1, <1>3

LEMMA SomeParts ==
  ASSUME NEW T, NEW list \in Seq(Seq(T)), Len(list) # 0
  PROVE  list \in Parts(T)
<1>1. Len(<<>>) = 0
  OBVIOUS
<1>2. list # <<>>
  BY <1>1
<1>3. QED
  BY <1>2 DEF Parts

\* A list of parts and one before it.
LEMMA PartsBefore ==
  ASSUME NEW T, NEW first \in Seq(T), NEW parts \in Seq(Seq(T))
  PROVE  /\ <<first>> \o parts \in Parts(T) /\ Len(<<first>> \o parts) = Len(parts) + 1
         /\ (<<first>> \o parts)[1] = first
         /\ \A i \in 1 .. Len(parts) : (<<first>> \o parts)[i + 1] = parts[i]
  BY DEF Parts

-----------------------------------------------------------------------------
(* Lists that are put together.                                            *)

\* Where the elements of two lists are in the one made of them.
LEMMA Concat ==
  ASSUME NEW T, NEW s \in Seq(T), NEW t \in Seq(T)
  PROVE  /\ s \o t \in Seq(T) /\ Len(s \o t) = Len(s) + Len(t)
         /\ Len(s) \in Nat /\ Len(t) \in Nat
         /\ \A i \in 1 .. Len(s) : (s \o t)[i] = s[i]
         /\ \A i \in 1 .. Len(t) : (s \o t)[Len(s) + i] = t[i]
  OBVIOUS

\* A list with two more elements.
LEMMA PairBehind ==
  ASSUME NEW T, NEW list \in Seq(T), NEW a \in T, NEW b \in T
  PROVE  LET more == list \o <<a, b>>
         IN  /\ more \in Seq(T) /\ Len(more) = Len(list) + 2 /\ Len(list) \in Nat
             /\ \A i \in 1 .. Len(list) : more[i] = list[i]
             /\ more[Len(list) + 1] = a /\ more[Len(list) + 2] = b
<1> DEFINE pair == <<a, b>>
           more == list \o pair
<1>1. pair \in Seq(T) /\ Len(pair) = 2 /\ pair[1] = a /\ pair[2] = b
  OBVIOUS
<1> HIDE DEF pair, more
<1>2. /\ more \in Seq(T) /\ Len(more) = Len(list) + Len(pair) /\ Len(list) \in Nat
      /\ \A i \in 1 .. Len(list) : more[i] = list[i]
      /\ \A i \in 1 .. Len(pair) : more[Len(list) + i] = pair[i]
  <2>1. pair \in Seq(T)
    BY <1>1
  <2>2. QED
    BY <2>1, Concat DEF more
<1>3. QED
  BY <1>1, <1>2 DEF more, pair

\* A list from its first and its other elements.
LEMMA Glued ==
  ASSUME NEW T, NEW list \in Seq(T), NEW first \in Seq(T), NEW rest \in Seq(T),
         Len(first) + Len(rest) = Len(list),
         \A i \in 1 .. Len(first) : first[i] = list[i],
         \A i \in 1 .. Len(rest) : rest[i] = list[Len(first) + i]
  PROVE  first \o rest = list
<1> DEFINE whole == first \o rest
<1>1. whole \in Seq(T) /\ Len(whole) = Len(list)
  OBVIOUS
<1>2. \A i \in 1 .. Len(first) : whole[i] = first[i]
  OBVIOUS
<1>3. \A i \in 1 .. Len(rest) : whole[Len(first) + i] = rest[i]
  OBVIOUS
<1>4. Len(first) \in Nat /\ Len(rest) \in Nat
  OBVIOUS
<1> HIDE DEF whole
<1>5. ASSUME NEW i \in 1 .. Len(list)
      PROVE  whole[i] = list[i]
  <2>1. CASE i <= Len(first)
    BY <1>2, <1>4, <2>1
  <2>2. CASE i > Len(first)
    <3> DEFINE j == i - Len(first)
    <3>1. j \in 1 .. Len(rest) /\ i = Len(first) + j
      BY <1>4, <2>2
    <3> HIDE DEF j
    <3>2. QED
      BY <1>3, <3>1
  <2>3. QED
    BY <1>4, <2>1, <2>2
<1>6. whole = list
  BY <1>1, <1>5
<1>7. QED
  BY <1>6 DEF whole
=============================================================================
