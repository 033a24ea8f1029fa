----------------------------- MODULE Data_proofs -----------------------------
(***************************************************************************)
(* What the conversions of spey's text rest on: induction over the natural *)
(* numbers, the least and the greatest number of a set, and FlattenSeq.    *)
(***************************************************************************)
EXTENDS Integers, SequencesExt, SequenceTheorems, WellFoundedInduction, TLAPS

(* Every set of natural numbers but the empty one has a least element.     *)
LEMMA Least ==
  ASSUME NEW T \in SUBSET Nat, T # {}
  PROVE  \E x \in T : \A y \in T : x <= y
<1> DEFINE R == OpToRel(<, Nat)
<1>1. PICK x \in T : \A y \in T : ~ (<<y, x>> \in R)
  <2>1. IsWellFoundedOn(R, Nat) BY NatLessThanWellFounded
  <2> HIDE DEF R
  <2> QED BY <2>1, WFMin
<1>2. \A y \in T : x <= y
  <2> TAKE y \in T
  <2>1. <<y, x>> \notin R BY <1>1
  <2>2. x \in Nat /\ y \in Nat OBVIOUS
  <2>3. y < x => <<y, x>> \in R BY <2>2 DEF OpToRel
  <2> HIDE DEF R
  <2> QED BY <2>1, <2>2, <2>3
<1> QED BY <1>2

(* Induction: a set with 0 and the successor of each of its numbers has    *)
(* all of them.                                                            *)
LEMMA Induction ==
  ASSUME NEW T, 0 \in T, \A n \in Nat : n \in T => n + 1 \in T
  PROVE  Nat \subseteq T
<1> SUFFICES ASSUME NEW n0 \in Nat, n0 \notin T PROVE FALSE OBVIOUS
<1> DEFINE C == {n \in Nat : n \notin T}
<1>1. PICK x \in C : \A y \in C : x <= y
  <2> HIDE DEF C
  <2>1. C # {} BY DEF C
  <2>2. C \in SUBSET Nat BY DEF C
  <2> QED BY <2>1, <2>2, Least
<1>2. x # 0 /\ x \in Nat OBVIOUS
<1>3. x - 1 \in Nat /\ x - 1 \notin C BY <1>1, <1>2
<1>4. x - 1 \in T BY <1>3
<1>5. (x - 1) + 1 \in T BY <1>3, <1>4
<1> QED BY <1>2, <1>5

(* Min yields the least number of a set.                                   *)
LEMMA MinIsLeast ==
  ASSUME NEW T \in SUBSET Nat, T # {}
  PROVE  /\ Min(T) \in T /\ Min(T) \in Nat
         /\ \A y \in T : Min(T) <= y
<1>1. \E x \in T : \A y \in T : x <= y BY Least
<1> QED BY <1>1 DEF Min

(* A number of the set that is below all of them is what Min yields.       *)
LEMMA MinIs ==
  ASSUME NEW T \in SUBSET Nat, NEW x \in T, \A y \in T : x <= y
  PROVE  Min(T) = x
<1>1. Min(T) \in T /\ Min(T) \in Nat /\ Min(T) <= x BY MinIsLeast
<1> QED BY <1>1

(* Max yields the greatest number of a bounded set.                        *)
LEMMA MaxIs ==
  ASSUME NEW T \in SUBSET Nat, NEW x \in T, \A y \in T : y <= x
  PROVE  Max(T) = x
<1>1. \E z \in T : \A y \in T : z >= y OBVIOUS
<1>2. Max(T) \in T /\ \A y \in T : Max(T) >= y BY <1>1 DEF Max
<1>3. Max(T) >= x /\ x >= Max(T) /\ Max(T) \in Nat BY <1>2
<1> QED BY <1>3

(* And it has one.                                                         *)
LEMMA MaxIsGreatest ==
  ASSUME NEW T \in SUBSET Nat, T # {}, NEW b \in Nat, \A y \in T : y <= b
  PROVE  /\ Max(T) \in T /\ Max(T) \in Nat
         /\ \A y \in T : y <= Max(T)
<1> DEFINE U == {n \in Nat : \A y \in T : y <= n}
<1>1. PICK x \in U : \A y \in U : x <= y
  <2>1. U # {} /\ U \in SUBSET Nat OBVIOUS
  <2> HIDE DEF U
  <2> QED BY <2>1, Least
<1>2. x \in T
  <2> SUFFICES ASSUME x \notin T PROVE FALSE OBVIOUS
  <2>1. \A y \in T : y <= x - 1 /\ y \in Nat BY <1>1
  <2>2. x \in Nat /\ x >= 1
    <3>1. PICK y \in T : TRUE OBVIOUS
    <3> QED BY <2>1, <3>1
  <2>3. x - 1 \in U BY <2>1, <2>2
  <2> QED BY <2>2, <2>3, <1>1
<1>3. \A y \in T : y <= x BY <1>1
<1> QED BY <1>2, <1>3, MaxIs

-----------------------------------------------------------------------------
(* Two sequences, one behind the other.                                    *)
LEMMA ConcatFacts ==
  ASSUME NEW E, NEW s \in Seq(E), NEW t \in Seq(E)
  PROVE  /\ s \o t \in Seq(E) /\ Len(s \o t) = Len(s) + Len(t)
         /\ Len(s) \in Nat /\ Len(t) \in Nat
         /\ \A i \in 1 .. Len(s) : (s \o t)[i] = s[i]
         /\ \A i \in 1 .. Len(t) : (s \o t)[Len(s) + i] = t[i]
<1>1. \A i \in 1 .. Len(s) : (s \o t)[i] = s[i] OBVIOUS
<1>2. \A i \in 1 .. Len(t) : (s \o t)[Len(s) + i] = t[i] OBVIOUS
<1>3. s \o t \in Seq(E) /\ Len(s \o t) = Len(s) + Len(t) OBVIOUS
<1> QED BY <1>1, <1>2, <1>3

(* A subsequence of one element.                                           *)
LEMMA SubSeqOfOne ==
  ASSUME NEW E, NEW s \in Seq(E), NEW i \in 1 .. Len(s)
  PROVE  SubSeq(s, i, i) = <<s[i]>>
<1>1. SubSeq(s, i, i) \in Seq(E) /\ Len(SubSeq(s, i, i)) = 1 OBVIOUS
<1>2. SubSeq(s, i, i)[1] = s[i] OBVIOUS
<1>3. <<s[i]>> \in Seq(E) /\ Len(<<s[i]>>) = 1 /\ <<s[i]>>[1] = s[i] OBVIOUS
<1>4. \A j \in 1 .. 1 : SubSeq(s, i, i)[j] = <<s[i]>>[j]
  <2>1. \A j \in 1 .. 1 : j = 1 OBVIOUS
  <2> QED BY <2>1, <1>2, <1>3, Zenon
<1> QED BY <1>1, <1>3, <1>4, SeqEqual, Zenon

-----------------------------------------------------------------------------
(* f is what FlattenSeq's recursive function is for the first n of S.      *)
Flattens(S, n, f) ==
  f = [i \in 1 .. n |-> IF i = 1 THEN S[i] ELSE f[i - 1] \o S[i]]

(* That function exists and yields its last value.                         *)
LEMMA FlattenDef ==
  ASSUME NEW S, NEW m \in Nat \ {0}, Len(S) = m
  PROVE  \E f : Flattens(S, m, f) /\ FlattenSeq(S) = f[m]
<1> DEFINE T == {n \in Nat : \E f : Flattens(S, n + 1, f)}
<1>1. 0 \in T
  <2> DEFINE f == [i \in 1 .. 1 |-> S[i]]
  <2>1. \A i \in 1 .. 1 : i = 1 OBVIOUS
  <2>2. f = [i \in 1 .. 1 |-> IF i = 1 THEN S[i] ELSE f[i - 1] \o S[i]]
    BY <2>1, Zenon
  <2>3. Flattens(S, 0 + 1, f)
    <3>1. 0 + 1 = 1 OBVIOUS
    <3> HIDE DEF f
    <3> QED BY <2>2, <3>1, Zenon DEF Flattens
  <2> HIDE DEF f
  <2> QED BY <2>3, Zenon
<1>2. ASSUME NEW n \in Nat, n \in T PROVE n + 1 \in T
  <2>1. PICK f : Flattens(S, n + 1, f) BY <1>2, Zenon
  <2> DEFINE g == [i \in 1 .. n + 2 |-> IF i = n + 2 THEN f[n + 1] \o S[n + 2] ELSE f[i]]
  <2>2. ASSUME NEW i \in 1 .. n + 2
        PROVE  g[i] = IF i = 1 THEN S[i] ELSE g[i - 1] \o S[i]
    <3>1. CASE i = n + 2
      <4>1. i # 1 /\ i - 1 = n + 1 /\ n + 1 \in 1 .. n + 2 /\ n + 1 # n + 2 BY <3>1
      <4>2. g[i] = f[n + 1] \o S[n + 2] BY <3>1, Zenon
      <4>3. g[n + 1] = f[n + 1] BY <4>1, Zenon
      <4> HIDE DEF g
      <4> QED BY <3>1, <4>1, <4>2, <4>3, Zenon
    <3>2. CASE i # n + 2
      <4>1. i \in 1 .. n + 1 BY <3>2
      <4>2. f[i] = IF i = 1 THEN S[i] ELSE f[i - 1] \o S[i] BY <4>1, <2>1, Zenon DEF Flattens
      <4>3. g[i] = f[i] BY <3>2, Zenon
      <4>4. i # 1 => i - 1 \in 1 .. n + 2 /\ i - 1 # n + 2 BY <4>1
      <4>5. i # 1 => g[i - 1] = f[i - 1] BY <4>4, Zenon
      <4> HIDE DEF g
      <4> QED BY <4>2, <4>3, <4>5, Zenon
    <3> QED BY <3>1, <3>2, Zenon
  <2>3. g = [i \in 1 .. n + 2 |-> IF i = 1 THEN S[i] ELSE g[i - 1] \o S[i]]
    <3>1. g = [i \in 1 .. n + 2 |-> g[i]] OBVIOUS
    <3> HIDE DEF g
    <3> QED BY <2>2, <3>1, Zenon
  <2>4. (n + 1) + 1 = n + 2 /\ n + 1 \in Nat OBVIOUS
  <2> HIDE DEF g
  <2>5. Flattens(S, (n + 1) + 1, g) BY <2>3, <2>4, Zenon DEF Flattens
  <2> QED BY <2>4, <2>5, Zenon
<1>3. Nat \subseteq T
  <2> HIDE DEF T
  <2> QED BY <1>1, <1>2, Induction
<1>4. \E f : Flattens(S, m, f)
  <2>1. m - 1 \in Nat /\ (m - 1) + 1 = m OBVIOUS
  <2> QED BY <2>1, <1>3, Zenon
<1> DEFINE h == CHOOSE f : f = [i \in 1 .. m |-> IF i = 1 THEN S[i] ELSE f[i - 1] \o S[i]]
<1>5. Flattens(S, m, h) BY <1>4, Zenon DEF Flattens
<1>6. m # 0 OBVIOUS
<1>7. FlattenSeq(S) = h[m] BY <1>6, Zenon DEF FlattenSeq
<1> HIDE DEF h
<1> QED BY <1>5, <1>7, Zenon

(* t is n blocks of width w, those of s, and the block b behind them.      *)
IsAppended(E, t, s, b, n, w) ==
  /\ t \in Seq(E) /\ Len(t) = w * (n + 1)
  /\ \A g \in 1 .. n : \A k \in 1 .. w : t[w * (g - 1) + k] = s[w * (g - 1) + k]
  /\ \A k \in 1 .. w : t[w * n + k] = b[k]

(* What a block behind a sequence of n blocks adds.                        *)
LEMMA BlockAppended ==
  ASSUME NEW E, NEW s \in Seq(E), NEW b \in Seq(E), NEW n \in Nat, NEW w \in {1, 4},
         Len(s) = w * n, Len(b) = w
  PROVE  IsAppended(E, s \o b, s, b, n, w)
<1>1. \A i \in 1 .. Len(s) : (s \o b)[i] = s[i] OBVIOUS
<1>2. \A i \in 1 .. Len(b) : (s \o b)[Len(s) + i] = b[i] OBVIOUS
<1>3. s \o b \in Seq(E) /\ Len(s \o b) = Len(s) + Len(b) OBVIOUS
<1>4. w * n + w = w * (n + 1) OBVIOUS
<1>5. ASSUME NEW g \in 1 .. n, NEW k \in 1 .. w PROVE w * (g - 1) + k \in 1 .. w * n
  <2>1. CASE w = 1 BY <2>1
  <2>2. CASE w = 4 BY <2>2
  <2> QED BY <2>1, <2>2
<1> QED BY <1>1, <1>2, <1>3, <1>4, <1>5, Zenon DEF IsAppended

(* Sequences of the same width, one or four, keep their places.            *)
LEMMA FlattenBlocks ==
  ASSUME NEW E, NEW S \in Seq(Seq(E)), NEW w \in {1, 4},
         \A i \in 1 .. Len(S) : Len(S[i]) = w
  PROVE  /\ FlattenSeq(S) \in Seq(E)
         /\ Len(FlattenSeq(S)) = w * Len(S)
         /\ \A g \in 1 .. Len(S) : \A k \in 1 .. w :
              FlattenSeq(S)[w * (g - 1) + k] = S[g][k]
<1>1. CASE S = <<>>
  <2>1. Len(S) = 0 BY <1>1
  <2>2. FlattenSeq(S) = <<>> BY <1>1, <2>1, Zenon DEF FlattenSeq
  <2>3. 1 .. Len(S) = {} /\ w * Len(S) = 0 BY <2>1
  <2>4. FlattenSeq(S) \in Seq(E) /\ Len(FlattenSeq(S)) = 0 BY <2>2
  <2> QED BY <2>3, <2>4, Zenon
<1>2. CASE S # <<>>
  <2> DEFINE m == Len(S)
  <2>1. m \in Nat \ {0} BY <1>2
  <2>2. PICK f : Flattens(S, m, f) /\ FlattenSeq(S) = f[m]
    <3> HIDE DEF m
    <3>1. Len(S) = m BY DEF m
    <3> QED BY <2>1, <3>1, FlattenDef
  <2>3. \A i \in 1 .. m : f[i] = IF i = 1 THEN S[i] ELSE f[i - 1] \o S[i]
    BY <2>2, Zenon DEF Flattens
  <2> DEFINE Good(n) == /\ f[n] \in Seq(E)
                        /\ Len(f[n]) = w * n
                        /\ \A g \in 1 .. n : \A k \in 1 .. w :
                             f[n][w * (g - 1) + k] = S[g][k]
             T == {n \in Nat : n < m => Good(n + 1)}
  <2>4. 0 \in T
    <3>1. f[1] = S[1] BY <2>1, <2>3
    <3>2. S[1] \in Seq(E) /\ Len(S[1]) = w BY <2>1
    <3>3. Good(1) BY <3>1, <3>2
    <3> HIDE DEF Good
    <3> QED BY <3>3
  <2>5. ASSUME NEW n \in Nat, n \in T PROVE n + 1 \in T
    <3> SUFFICES ASSUME n + 1 < m PROVE Good(n + 2)
      <4>1. (n + 1) + 1 = n + 2 OBVIOUS
      <4> HIDE DEF Good
      <4> QED BY <4>1
    <3>1. Good(n + 1)
      <4>1. n < m OBVIOUS
      <4> HIDE DEF Good
      <4> QED BY <2>5, <4>1
    <3>2. f[n + 2] = f[n + 1] \o S[n + 2]
      <4>1. n + 2 \in 1 .. m /\ n + 2 # 1 /\ (n + 2) - 1 = n + 1 BY <2>1
      <4> QED BY <2>3, <4>1, Zenon
    <3>3. S[n + 2] \in Seq(E) /\ Len(S[n + 2]) = w BY <2>1
    <3> DEFINE s == f[n + 1]
               b == S[n + 2]
    <3>4. s \in Seq(E) /\ Len(s) = w * (n + 1) BY <3>1, Zenon
    <3>5. \A g \in 1 .. n + 1 : \A k \in 1 .. w : s[w * (g - 1) + k] = S[g][k] BY <3>1, Zenon
    <3>6. f[n + 2] = s \o b /\ b \in Seq(E) /\ Len(b) = w BY <3>2, <3>3
    <3> HIDE DEF s, b
    <3> DEFINE q == n + 1
    <3>7. q \in Nat /\ q + 1 = n + 2 /\ Len(s) = w * q BY <3>4
    <3> HIDE DEF q
    <3>8. IsAppended(E, s \o b, s, b, q, w)
      <4>1. s \in Seq(E) /\ b \in Seq(E) /\ Len(b) = w BY <3>4, <3>6
      <4> QED BY <3>7, <4>1, BlockAppended, Zenon
    <3>9. /\ s \o b \in Seq(E) /\ Len(s \o b) = w * (n + 2)
          /\ \A g \in 1 .. n + 1 : \A k \in 1 .. w :
               (s \o b)[w * (g - 1) + k] = s[w * (g - 1) + k]
          /\ \A k \in 1 .. w : (s \o b)[w * (n + 1) + k] = b[k]
      BY <3>7, <3>8, Zenon DEF q, IsAppended
    <3>10. ASSUME NEW g \in 1 .. n + 2, NEW k \in 1 .. w
          PROVE  f[n + 2][w * (g - 1) + k] = S[g][k]
      <4>1. CASE g = n + 2
        <5>1. g - 1 = n + 1 BY <4>1
        <5> QED BY <3>6, <3>9, <4>1, <5>1 DEF b
      <4>2. CASE g # n + 2
        <5>1. g \in 1 .. n + 1 BY <4>2
        <5>2. (s \o b)[w * (g - 1) + k] = s[w * (g - 1) + k] BY <3>9, <5>1, Zenon
        <5>3. s[w * (g - 1) + k] = S[g][k] BY <3>5, <5>1, Zenon
        <5> QED BY <3>6, <5>2, <5>3, Zenon
      <4> QED BY <4>1, <4>2
    <3> QED BY <3>6, <3>9, <3>10, Zenon
  <2>6. Nat \subseteq T
    <3> HIDE DEF T
    <3> QED BY <2>4, <2>5, Induction
  <2>7. Good(m)
    <3> HIDE DEF Good
    <3>1. m - 1 \in T BY <2>1, <2>6
    <3>2. m - 1 < m => Good((m - 1) + 1) BY <3>1
    <3>3. (m - 1) + 1 = m BY <2>1
    <3>4. m - 1 < m BY <2>1
    <3> QED BY <3>2, <3>3, <3>4
  <2> QED BY <2>2, <2>7
<1> QED BY <1>1, <1>2
=============================================================================
