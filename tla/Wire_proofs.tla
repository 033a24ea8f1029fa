---------------------------- MODULE Wire_proofs ----------------------------
(***************************************************************************)
(* Theorems about Wire.                                                    *)
(***************************************************************************)
EXTENDS Wire, Data_proofs, SequenceTheorems

(* The characters of a line.                                               *)
Plainly == Char \ {"CR", "LF"}

(* A line without a LF is written as it is, with CR LF behind it.          *)
LEMMA WritelinePlain ==
  ASSUME NEW l \in Seq(Plainly)
  PROVE  Writeline(l) = l \o <<"CR", "LF">>
<1> DEFINE S == [i \in DOMAIN l |-> IF l[i] = "LF" THEN <<"CR", "LF">> ELSE <<l[i]>>]
           F == FlattenSeq(S)
<1>1. \A i \in 1 .. Len(l) : l[i] # "LF" /\ l[i] \in Char BY DEF Plainly
<1>2. S \in Seq(Seq(Char)) /\ Len(S) = Len(l)
  <2>1. S = [i \in 1 .. Len(l) |-> <<l[i]>>] BY <1>1
  <2>2. \A i \in 1 .. Len(l) : <<l[i]>> \in Seq(Char) BY <1>1
  <2> HIDE DEF S
  <2> QED BY <2>1, <2>2
<1>3. \A i \in 1 .. Len(l) : S[i] = <<l[i]>> BY <1>1
<1> HIDE DEF S
<1>4. \A i \in 1 .. Len(l) : Len(S[i]) = 1 /\ S[i][1] = l[i]
  <2>1. \A x : Len(<<x>>) = 1 /\ <<x>>[1] = x OBVIOUS
  <2> QED BY <1>3, <2>1, Zenon
<1>5. /\ F \in Seq(Char) /\ Len(F) = 1 * Len(S)
      /\ \A g \in 1 .. Len(S) : \A k \in 1 .. 1 : F[1 * (g - 1) + k] = S[g][k]
  BY <1>2, <1>4, FlattenBlocks
<1> HIDE DEF F
<1>6. F \in Seq(Char) /\ Len(F) = Len(l) BY <1>2, <1>5
<1>7. ASSUME NEW i \in 1 .. Len(l) PROVE F[i] = l[i]
  <2>1. F[1 * (i - 1) + 1] = S[i][1] BY <1>2, <1>5
  <2>2. 1 * (i - 1) + 1 = i OBVIOUS
  <2> QED BY <2>1, <2>2, <1>4
<1>8. l \in Seq(Char) BY DEF Plainly
<1>9. F = l BY <1>6, <1>7, <1>8, SeqEqual
<1> QED BY <1>9 DEF Writeline, F, S

(* What is written before the body.                                        *)
Header == <<"x", "CR", "LF", "x">> \o <<"CR", "LF">>

(* The header becomes two lines.                                           *)
LEMMA WritelineReceived == Writeline(Received) = Header
<1> DEFINE S == [i \in DOMAIN Received |->
                   IF Received[i] = "LF" THEN <<"CR", "LF">> ELSE <<Received[i]>>]
<1>1. S = << <<"x">>, <<"CR", "LF">>, <<"x">> >> BY DEF Received
<1> HIDE DEF S
<1>2. Len(S) = 3 BY <1>1
<1>3. PICK f : Flattens(S, 3, f) /\ FlattenSeq(S) = f[3]
  <2>1. 3 \in Nat \ {0} OBVIOUS
  <2> QED BY <1>2, <2>1, FlattenDef, Zenon
<1>4. f[1] = S[1] /\ f[2] = f[1] \o S[2] /\ f[3] = f[2] \o S[3]
  <2>1. \A i \in 1 .. 3 : f[i] = IF i = 1 THEN S[i] ELSE f[i - 1] \o S[i]
    BY <1>3, Zenon DEF Flattens
  <2>2. 1 \in 1 .. 3 /\ 2 \in 1 .. 3 /\ 3 \in 1 .. 3 OBVIOUS
  <2>3. 2 # 1 /\ 3 # 1 /\ 2 - 1 = 1 /\ 3 - 1 = 2 OBVIOUS
  <2>4. f[1] = S[1] BY <2>1, <2>2, Zenon
  <2>5. f[2] = f[1] \o S[2] BY <2>1, <2>2, <2>3, Zenon
  <2>6. f[3] = f[2] \o S[3] BY <2>1, <2>2, <2>3, Zenon
  <2> QED BY <2>4, <2>5, <2>6
<1>5. FlattenSeq(S) = <<"x", "CR", "LF", "x">> BY <1>1, <1>3, <1>4
<1> QED BY <1>5, Zenon DEF Writeline, S, Header

-----------------------------------------------------------------------------
(* A line written behind others adds one end, and is what is before it.    *)
LEMMA LineAppended ==
  ASSUME NEW w \in Seq(Char), NEW l \in Seq(Plainly), NEW v \in Seq(Char),
         Len(w) \in Ends(w), v = w \o (l \o <<"CR", "LF">>)
  PROVE  /\ Len(v) > Len(w)
         /\ Ends(v) = Ends(w) \cup {Len(v)}
         /\ StrictLine(v, Len(v)) = l
         /\ \A e \in Ends(w) : StrictLine(v, e) = StrictLine(w, e)
<1> DEFINE n == Len(w)
           m == Len(l)
<1>1. n \in Nat /\ m \in Nat /\ l \in Seq(Char) BY DEF Plainly
<1>2. Len(v) = n + m + 2 BY DEF Plainly, Char
<1>3. \A i \in 1 .. n : v[i] = w[i] BY <1>1
<1>4. \A i \in 1 .. m : v[n + i] = l[i] BY <1>1
<1>5. v[n + m + 1] = "CR" /\ v[n + m + 2] = "LF" BY <1>1
<1>6. \A i \in 1 .. m : l[i] # "LF" BY DEF Plainly
<1>7. \A e \in Ends(w) : e \in 2 .. n /\ w[e - 1] = "CR" /\ w[e] = "LF" BY DEF Ends
<1> HIDE DEF n, m
<1>8. Ends(v) = Ends(w) \cup {Len(v)}
  <2>1. ASSUME NEW e \in Ends(v), e # Len(v) PROVE e \in Ends(w)
    <3>1. e \in 2 .. n + m + 2 /\ v[e - 1] = "CR" /\ v[e] = "LF" BY <1>2 DEF Ends
    <3>2. CASE e <= n
      <4>1. e \in 1 .. n /\ e - 1 \in 1 .. n BY <1>1, <3>1, <3>2
      <4>2. w[e - 1] = "CR" /\ w[e] = "LF" BY <1>3, <3>1, <4>1, Zenon
      <4> QED BY <1>1, <3>1, <3>2, <4>2 DEF Ends, n
    <3>3. CASE e \in n + 1 .. n + m
      <4>1. e - n \in 1 .. m /\ n + (e - n) = e BY <1>1, <3>3
      <4>2. v[e] = l[e - n] BY <1>4, <4>1
      <4> QED BY <1>6, <3>1, <4>1, <4>2
    <3>4. CASE e = n + m + 1 BY <1>5, <3>1, <3>4
    <3> QED BY <1>1, <1>2, <2>1, <3>1, <3>2, <3>3, <3>4
  <2>2. Len(v) \in Ends(v) BY <1>1, <1>2, <1>5 DEF Ends
  <2>3. ASSUME NEW e \in Ends(w) PROVE e \in Ends(v)
    <3>1. e \in 1 .. n /\ e - 1 \in 1 .. n BY <1>1, <1>7
    <3>2. v[e - 1] = "CR" /\ v[e] = "LF" BY <1>3, <1>7, <3>1, Zenon
    <3> QED BY <1>1, <1>2, <1>7, <3>2 DEF Ends
  <2> QED BY <2>1, <2>2, <2>3
<1>9. StrictLine(v, Len(v)) = l
  <2> DEFINE T == {0} \cup {e \in Ends(v) : e < Len(v)}
  <2>1. T \in SUBSET Nat /\ n \in T /\ \A y \in T : y <= n
    BY <1>1, <1>2, <1>7, <1>8 DEF n
  <2>2. Max(T) = n
    <3> HIDE DEF T
    <3> QED BY <2>1, MaxIs
  <2>3. SubSeq(v, n + 1, Len(v) - 2) = l
    BY <1>1, <1>2, <1>4 DEF m
  <2> QED BY <2>2, <2>3 DEF StrictLine
<1>10. ASSUME NEW e \in Ends(w) PROVE StrictLine(v, e) = StrictLine(w, e)
  <2> DEFINE T == {0} \cup {d \in Ends(w) : d < e}
  <2>1. T = {0} \cup {d \in Ends(v) : d < e} BY <1>1, <1>2, <1>7, <1>8
  <2>2. T \in SUBSET Nat /\ T # {} /\ e \in Nat /\ \A y \in T : y <= e BY <1>7
  <2>3. Max(T) \in Nat
    <3> HIDE DEF T
    <3> QED BY <2>2, MaxIsGreatest
  <2> DEFINE a == Max(T) + 1
  <2>4. a \in Nat /\ a >= 1 BY <2>3
  <2> HIDE DEF T, a
  <2>5. SubSeq(v, a, e - 2) = SubSeq(w, a, e - 2)
    <3>1. e - 2 \in Int /\ e - 2 <= n /\ n \in Nat /\ n <= Len(v) BY <1>1, <1>2, <1>7
    <3>2. \A i \in a .. e - 2 : v[i] = w[i]
      <4>1. \A i \in a .. e - 2 : i \in 1 .. n BY ONLY <2>4, <3>1
      <4> QED BY <1>3, <4>1, Zenon
    <3>3. v \in Seq(Char) /\ w \in Seq(Char) /\ n = Len(w) BY <1>1 DEF n
    <3> QED BY ONLY <2>4, <3>1, <3>2, <3>3
  <2> QED BY <2>1, <2>5 DEF StrictLine, a, T
<1> QED BY <1>1, <1>2, <1>8, <1>9, <1>10 DEF n

-----------------------------------------------------------------------------
(* What the constants are.                                                 *)
LEMMA Kinds ==
  /\ "body" \in Kind /\ MaxLen \in [Kind -> Nat] /\ MaxLen["command"] >= 2
BY LengthAssumption DEF Kind

(* Types of the variables.                                                 *)
THEOREM TypeCorrect == Spec => []TypeOK
<1>1. Init => TypeOK
  <2> SUFFICES ASSUME Init PROVE TypeOK OBVIOUS
  <2>1. kind \in Kind /\ ended \in BOOLEAN /\ taken = 0 BY DEF Init
  <2>2. line \in Seq(Char \ {"CR", "LF"})
    <3>1. line = <<>> BY DEF Init
    <3> QED BY <3>1
  <2>3. written \in Seq(Char)
    <3>1. written = Header BY WritelineReceived DEF Init
    <3> QED BY <3>1 DEF Header, Char
  <2>4. input \in Seq(Sendable) /\ Len(input) <= MaxLen[kind] /\ taken \in 0 .. Len(input)
    <3>1. CASE kind = "command"
      <4>1. PICK v \in Verb : input = <<v, Blank>> BY <3>1 DEF Init
      <4>2. Sendable = Words \cup Verb \cup {Blank} BY <3>1 DEF Sendable
      <4>3. v \in Sendable /\ Blank \in Sendable BY <4>2
      <4>4. \A S : \A a, b \in S : Len(<<a, b>>) = 2 /\ <<a, b>> \in Seq(S) OBVIOUS
      <4>5. Len(input) = 2 /\ input \in Seq(Sendable) BY <4>1, <4>3, <4>4, Zenon
      <4> QED BY <2>1, <3>1, <4>5, Kinds
    <3>2. CASE kind # "command"
      <4>1. input = <<>> BY <3>2 DEF Init
      <4>2. MaxLen[kind] \in Nat BY <2>1, Kinds
      <4> QED BY <2>1, <4>1, <4>2
    <3> QED BY <3>1, <3>2
  <2> QED BY <2>1, <2>2, <2>3, <2>4 DEF TypeOK
<1>2. TypeOK /\ [Next]_vars => TypeOK'
  <2> SUFFICES ASSUME TypeOK, [Next]_vars PROVE TypeOK' OBVIOUS
  <2>1. /\ kind \in Kind /\ input \in Seq(Sendable) /\ taken \in 0 .. Len(input)
        /\ line \in Seq(Char \ {"CR", "LF"}) /\ written \in Seq(Char)
        /\ Len(input) <= MaxLen[kind] /\ MaxLen[kind] \in Nat
    BY Kinds, Zenon DEF TypeOK
  <2>2. CASE Send
    <3>1. kind' = kind /\ UNCHANGED <<taken, line, written, ended>> BY <2>2 DEF Send
    <3>2. Sendable' = Sendable /\ Alphabet' = Alphabet BY <3>1 DEF Sendable, Alphabet
    <3>3. PICK c \in Alphabet : input' = Append(input, c) BY <2>2 DEF Send
    <3>4. c \in Sendable
      <4>1. CASE kind = "command" BY <3>3, <4>1, Zenon DEF Sendable, Alphabet
      <4>2. CASE kind # "command" BY <3>3, <4>2, Zenon DEF Sendable
      <4> QED BY <4>1, <4>2
    <3>5. input' \in Seq(Sendable) /\ Len(input') = Len(input) + 1 BY <2>1, <3>3, <3>4
    <3>6. Len(input) < MaxLen[kind] BY <2>2 DEF Send
    <3>7. Len(input') <= MaxLen[kind] /\ taken \in 0 .. Len(input') BY <2>1, <3>5, <3>6
    <3> QED BY <3>1, <3>2, <3>5, <3>7, Zenon DEF TypeOK
  <2>3. ASSUME Take PROVE /\ UNCHANGED <<kind, input>> /\ taken' \in 1 .. Len(input)
                          /\ taken' \in 0 .. Len(input') /\ input[taken'] \in Char
                          /\ Sendable' = Sendable
    <3>1. UNCHANGED <<kind, input>> /\ kind = "body" BY <2>3 DEF Take
    <3>2. Sendable' = Sendable BY <3>1, Zenon DEF Sendable, Alphabet
    <3>3. Sendable = Char BY <3>1 DEF Sendable, Alphabet
    <3>4. taken' \in 1 .. Len(input) BY <2>1, <2>3 DEF Take
    <3> QED BY <2>1, <3>1, <3>2, <3>3, <3>4
  <2>4. CASE ReadByte
    <3>1. /\ Take /\ input[taken'] # "LF" /\ line' = Readline(line, input[taken'])
          /\ UNCHANGED <<written, ended>>
      BY <2>4 DEF ReadByte
    <3>2. line' \in Seq(Char \ {"CR", "LF"})
      BY <2>1, <2>3, <3>1 DEF Readline
    <3> QED BY <2>3, <3>1, <3>2, Zenon DEF TypeOK
  <2>5. CASE Copy
    <3>1. /\ Take /\ line' = <<>> /\ written' = written \o Writeline(line)
          /\ ended' = EndsBody(line)
      BY <2>5 DEF Copy
    <3>2. line' \in Seq(Char \ {"CR", "LF"}) BY <3>1
    <3>3. written' \in Seq(Char)
      <4>1. Writeline(line) = line \o <<"CR", "LF">>
        BY <2>1, WritelinePlain DEF Plainly
      <4>2. <<"CR", "LF">> \in Seq(Char) /\ line \in Seq(Char) BY <2>1 DEF Char
      <4> QED BY <2>1, <3>1, <4>1, <4>2
    <3>4. ended' \in BOOLEAN BY <3>1 DEF EndsBody
    <3> QED BY <2>3, <3>1, <3>2, <3>3, <3>4, Zenon DEF TypeOK
  <2>6. CASE UNCHANGED vars
    <3>1. UNCHANGED <<kind, input, taken, line, written, ended>> BY <2>6 DEF vars
    <3> QED BY <3>1, Zenon DEF TypeOK, Sendable, Alphabet
  <2> QED BY <2>2, <2>4, <2>5, <2>6 DEF Next
<1> QED BY <1>1, <1>2, PTL DEF Spec

-----------------------------------------------------------------------------
(* What Spec keeps besides the types: what has been written ends with a    *)
(* line, and each of its lines is as EndAgreed has it.                     *)
EndInv ==
  /\ TypeOK
  /\ Len(written) \in Ends(written)
  /\ EndAgreed

(* It holds of the header, and the end of a line, which is all that is     *)
(* written in a step, keeps it.                                            *)
LEMMA EndInvKept == Spec => []EndInv
<1>1. Init /\ TypeOK => EndInv
  <2> SUFFICES ASSUME Init, TypeOK PROVE EndInv OBVIOUS
  <2>1. written = Header /\ ended = FALSE BY WritelineReceived, Zenon DEF Init
  <2>2. /\ written \in Seq(Char) /\ Len(written) = 6
        /\ written[1] = "x" /\ written[2] = "CR" /\ written[3] = "LF"
        /\ written[4] = "x" /\ written[5] = "CR" /\ written[6] = "LF"
    BY <2>1 DEF Header, Char
  <2>3. Ends(written) = {3, 6}
    <3>1. Ends(written) = {i \in 2 .. 6 : written[i - 1] = "CR" /\ written[i] = "LF"}
      BY <2>2, Zenon DEF Ends
    <3>2. ASSUME NEW i \in 2 .. 6, written[i - 1] = "CR" PROVE i \in {3, 6}
      <4>1. i \in {2, 3, 4, 5, 6} OBVIOUS
      <4>2. i # 2 /\ i # 4 /\ i # 5 BY <2>2, <3>2
      <4> QED BY <4>1, <4>2
    <3>3. written[3 - 1] = "CR" /\ written[6 - 1] = "CR" BY <2>2
    <3> QED BY <2>2, <3>1, <3>2, <3>3
  <2>4. StrictLine(written, 3) = <<"x">> /\ StrictLine(written, 6) = <<"x">>
    <3>1. {0} \cup {e \in Ends(written) : e < 3} = {0} BY <2>3
    <3>2. {0} \cup {e \in Ends(written) : e < 6} = {0, 3} BY <2>3
    <3>3. Max({0}) = 0 /\ Max({0, 3}) = 3
      <4>1. {0} \in SUBSET Nat /\ {0, 3} \in SUBSET Nat OBVIOUS
      <4>2. Max({0}) = 0 BY <4>1, MaxIs
      <4>3. Max({0, 3}) = 3 BY <4>1, MaxIs
      <4> QED BY <4>2, <4>3
    <3>4. SubSeq(written, 0 + 1, 3 - 2) = <<"x">>
      <4>1. 0 + 1 = 1 /\ 3 - 2 = 1 /\ 1 \in 1 .. Len(written) BY <2>2
      <4> QED BY <2>2, <4>1, SubSeqOfOne, Zenon
    <3>5. SubSeq(written, 3 + 1, 6 - 2) = <<"x">>
      <4>1. 3 + 1 = 4 /\ 6 - 2 = 4 /\ 4 \in 1 .. Len(written) BY <2>2
      <4> QED BY <2>2, <4>1, SubSeqOfOne, Zenon
    <3>6. StrictLine(written, 3) = SubSeq(written, 0 + 1, 3 - 2)
      BY <3>1, <3>3, Zenon DEF StrictLine
    <3>7. StrictLine(written, 6) = SubSeq(written, 3 + 1, 6 - 2)
      BY <3>2, <3>3, Zenon DEF StrictLine
    <3> QED BY <3>4, <3>5, <3>6, <3>7, Zenon
  <2>5. /\ <<"x">> # <<".">>
        /\ ~Contains(<<"x">>, "CR") /\ ~Contains(<<"x">>, "LF")
    BY DEF Contains
  <2>6. EndAgreed BY <2>1, <2>3, <2>4, <2>5 DEF EndAgreed
  <2> QED BY <2>2, <2>3, <2>6 DEF EndInv
<1>2. EndInv /\ TypeOK' /\ [Next]_vars => EndInv'
  <2> SUFFICES ASSUME EndInv, TypeOK', [Next]_vars PROVE EndInv' OBVIOUS
  <2>1. CASE UNCHANGED <<written, ended>>
    <3>1. written' = written /\ ended' = ended BY <2>1
    <3>2. EndAgreed' <=> EndAgreed BY <3>1, Zenon DEF EndAgreed
    <3> QED BY <3>1, <3>2, Zenon DEF EndInv
  <2>2. CASE Copy
    <3>1. /\ line \in Seq(Plainly) /\ written \in Seq(Char)
          /\ Len(written) \in Ends(written) /\ EndAgreed
      BY Zenon DEF EndInv, TypeOK, Plainly
    <3>2. ended = FALSE
      <4>1. ended \in BOOLEAN BY Zenon DEF EndInv, TypeOK
      <4>2. ~ended BY <2>2, Zenon DEF Copy, Take
      <4> QED BY <4>1, <4>2
    <3>3. /\ written' = written \o (line \o <<"CR", "LF">>)
          /\ ended' = (line = <<".">>)
      BY <2>2, <3>1, WritelinePlain, Zenon DEF Copy, EndsBody
    <3> DEFINE v == written \o (line \o <<"CR", "LF">>)
    <3>4. v = written \o (line \o <<"CR", "LF">>) OBVIOUS
    <3> HIDE DEF v
    <3>5. v \in Seq(Char)
      <4>1. <<"CR", "LF">> \in Seq(Char) /\ line \in Seq(Char) BY <3>1 DEF Char, Plainly
      <4> QED BY <3>1, <3>4, <4>1
    <3>6. /\ Len(v) > Len(written)
          /\ Ends(v) = Ends(written) \cup {Len(v)}
          /\ StrictLine(v, Len(v)) = line
          /\ \A e \in Ends(written) : StrictLine(v, e) = StrictLine(written, e)
      BY <3>1, <3>4, <3>5, LineAppended, Zenon
    <3>7. ~Contains(line, "CR") /\ ~Contains(line, "LF")
      <4>1. \A i \in 1 .. Len(line) : line[i] \in Plainly BY <3>1
      <4> QED BY <4>1 DEF Contains, Plainly
    <3>8. ASSUME NEW e \in Ends(written)
          PROVE  /\ StrictLine(written, e) # <<".">> /\ e # Len(v)
                 /\ ~Contains(StrictLine(written, e), "CR")
                 /\ ~Contains(StrictLine(written, e), "LF")
      <4>1. e \in 2 .. Len(written) BY DEF Ends
      <4>2. e # Len(v) BY <3>1, <3>6, <4>1
      <4> QED BY <3>1, <3>2, <4>2, Zenon DEF EndAgreed
    <3>9. ASSUME NEW e \in Ends(v)
          PROVE  /\ StrictLine(v, e) = <<".">> <=> line = <<".">> /\ e = Len(v)
                 /\ ~Contains(StrictLine(v, e), "CR") /\ ~Contains(StrictLine(v, e), "LF")
      <4>1. CASE e = Len(v) BY <3>6, <3>7, <4>1, Zenon
      <4>2. CASE e # Len(v) BY <3>6, <3>8, <4>2, Zenon
      <4> QED BY <4>1, <4>2
    <3>10. EndAgreed' BY <3>3, <3>9, Zenon DEF EndAgreed, v
    <3>11. (Len(written) \in Ends(written))' BY <3>3, <3>6, Zenon DEF v
    <3> QED BY <3>10, <3>11, Zenon DEF EndInv
  <2>3. CASE Send \/ ReadByte \/ UNCHANGED vars
    BY <2>1, <2>3 DEF Send, ReadByte, vars
  <2> QED BY <2>2, <2>3 DEF Next
<1> QED BY <1>1, <1>2, TypeCorrect, PTL DEF Spec

(* Spey and a strict server agree on where the body ends, for bodies of any*)
(* length with CRs and LFs anywhere.                                       *)
THEOREM EndIsAgreed == Spec => []EndAgreed
<1>1. EndInv => EndAgreed BY Zenon DEF EndInv
<1> QED BY <1>1, EndInvKept, PTL

-----------------------------------------------------------------------------
(* A body whose CRs and LFs come in pairs, but that may break off behind a *)
(* CR, which has been read and dropped.                                    *)
ProperSoFar(bytes) ==
  /\ \A i \in DOMAIN bytes : bytes[i] = "CR" /\ i < Len(bytes) => bytes[i + 1] = "LF"
  /\ \A i \in DOMAIN bytes : bytes[i] = "LF" => i > 1 /\ bytes[i - 1] = "CR"

(* What is kept of the bytes so far: all but a CR that waits for its LF.   *)
EndsInCR(bytes) == bytes # <<>> /\ bytes[Len(bytes)] = "CR"
Kept(bytes) == IF EndsInCR(bytes) THEN SubSeq(bytes, 1, Len(bytes) - 1) ELSE bytes

(* What a byte that is no LF adds to what is kept.                         *)
LEMMA ByteKept ==
  ASSUME NEW s \in Seq(Char), NEW c \in Char, NEW t,
         c # "LF", t = Append(s, c), ProperSoFar(t)
  PROVE  ProperSoFar(s) /\ Kept(s) = s /\ Kept(t) = Readline(s, c)
<1>1. /\ Len(s) \in Nat /\ Len(t) = Len(s) + 1 /\ t \in Seq(Char) /\ t[Len(s) + 1] = c
      /\ \A i \in 1 .. Len(s) : t[i] = s[i]
  OBVIOUS
<1>2. DOMAIN s = 1 .. Len(s) /\ DOMAIN t = 1 .. Len(s) + 1 BY <1>1
<1>3. /\ \A i \in 1 .. Len(s) : t[i] = "CR" => t[i + 1] = "LF"
      /\ \A i \in 1 .. Len(s) : t[i] = "LF" => i > 1 /\ t[i - 1] = "CR"
  BY <1>1, <1>2 DEF ProperSoFar
<1>4. ASSUME NEW i \in 1 .. Len(s), s[i] = "CR" PROVE i < Len(s) /\ s[i + 1] = "LF"
  <2>1. t[i + 1] = "LF" BY <1>1, <1>3, <1>4
  <2>2. i # Len(s) BY <1>1, <2>1
  <2>3. i + 1 \in 1 .. Len(s) BY <1>1, <2>2
  <2> QED BY <1>1, <2>1, <2>3
<1>5. ASSUME NEW i \in 1 .. Len(s), s[i] = "LF" PROVE i > 1 /\ s[i - 1] = "CR"
  <2>1. i > 1 /\ t[i - 1] = "CR" BY <1>1, <1>3, <1>5
  <2>2. i - 1 \in 1 .. Len(s) BY <1>1, <2>1
  <2> QED BY <1>1, <2>1, <2>2
<1>6. ProperSoFar(s) BY <1>2, <1>4, <1>5 DEF ProperSoFar
<1>7. ~EndsInCR(s)
  <2>1. s # <<>> => Len(s) \in 1 .. Len(s) OBVIOUS
  <2>2. \A i \in 1 .. Len(s) : s[i] = "CR" => i < Len(s) BY <1>4
  <2> QED BY <1>1, <2>1, <2>2 DEF EndsInCR
<1>8. t # <<>> /\ Len(t) - 1 = Len(s) BY <1>1
<1>9. SubSeq(t, 1, Len(s)) = s BY <1>1
<1>10. EndsInCR(t) <=> c = "CR" BY <1>1, <1>8 DEF EndsInCR
<1> QED BY <1>6, <1>7, <1>8, <1>9, <1>10 DEF Kept, Readline

(* A byte, or the end of a line, goes behind two sequences as behind one.   *)
LEMMA ByteBehindBoth ==
  ASSUME NEW a \in Seq(Char), NEW b \in Seq(Char), NEW c \in Char
  PROVE  a \o Append(b, c) = Append(a \o b, c)
OBVIOUS

LEMMA EndBehindBoth ==
  ASSUME NEW a \in Seq(Char), NEW b \in Seq(Char)
  PROVE  a \o (b \o <<"CR", "LF">>) = (a \o b) \o <<"CR", "LF">>
<1> DEFINE z == <<"CR", "LF">>
<1>1. z \in Seq(Char) BY DEF Char
<1> HIDE DEF z
<1>2. (a \o b) \o z = a \o (b \o z) BY <1>1, ConcatAssociative
<1> QED BY <1>2, Zenon DEF z

(* And what the end of a line adds.                                        *)
LEMMA LineKept ==
  ASSUME NEW s \in Seq(Char), NEW t, t = Append(s, "LF"), ProperSoFar(t)
  PROVE  /\ ProperSoFar(s) /\ Kept(s) \in Seq(Char)
         /\ Kept(t) = Kept(s) \o <<"CR", "LF">>
<1>1. /\ Len(s) \in Nat /\ Len(t) = Len(s) + 1 /\ t[Len(s) + 1] = "LF"
      /\ \A i \in 1 .. Len(s) : t[i] = s[i]
  OBVIOUS
<1>2. DOMAIN s = 1 .. Len(s) /\ DOMAIN t = 1 .. Len(s) + 1 BY <1>1
<1>3. /\ \A i \in 1 .. Len(s) : t[i] = "CR" => t[i + 1] = "LF"
      /\ \A i \in 1 .. Len(s) + 1 : t[i] = "LF" => i > 1 /\ t[i - 1] = "CR"
  <2>1. \A i \in 1 .. Len(s) : i \in DOMAIN t /\ i < Len(t) BY <1>1, <1>2
  <2> QED BY <1>2, <2>1, Zenon DEF ProperSoFar
<1>4. Len(s) >= 1 /\ s[Len(s)] = "CR"
  <2>1. Len(s) + 1 > 1 /\ t[(Len(s) + 1) - 1] = "CR"
    <3>1. Len(s) + 1 \in 1 .. Len(s) + 1 BY <1>1
    <3> QED BY <1>1, <1>3, <3>1
  <2>2. Len(s) \in 1 .. Len(s) /\ (Len(s) + 1) - 1 = Len(s) BY <1>1, <2>1
  <2> QED BY <1>1, <2>1, <2>2
<1>5. ASSUME NEW i \in 1 .. Len(s), s[i] = "CR", i < Len(s) PROVE s[i + 1] = "LF"
  <2>1. t[i + 1] = "LF" BY <1>1, <1>3, <1>5
  <2>2. i + 1 \in 1 .. Len(s) BY <1>1, <1>5
  <2> QED BY <1>1, <2>1, <2>2
<1>6. ASSUME NEW i \in 1 .. Len(s), s[i] = "LF" PROVE i > 1 /\ s[i - 1] = "CR"
  <2>1. i \in 1 .. Len(s) + 1 BY <1>1
  <2>2. i > 1 /\ t[i - 1] = "CR" BY <1>1, <1>3, <1>6, <2>1
  <2>3. i - 1 \in 1 .. Len(s) BY <1>1, <2>2
  <2> QED BY <1>1, <2>2, <2>3
<1>7. ProperSoFar(s) BY <1>2, <1>5, <1>6 DEF ProperSoFar
<1> DEFINE r == SubSeq(s, 1, Len(s) - 1)
<1>8. Kept(s) = r
  <2>1. s # <<>> BY <1>1, <1>4
  <2> QED BY <1>4, <2>1, Zenon DEF Kept, EndsInCR
<1>9. /\ r \in Seq(Char) /\ Len(r) = Len(s) - 1 /\ \A i \in 1 .. Len(s) - 1 : r[i] = s[i]
  <2>1. \A i \in 1 .. Len(s) - 1 : s[i] \in Char BY <1>1
  <2>2. Len(s) - 1 \in Nat BY <1>1, <1>4
  <2> DEFINE k == Len(s) - 1
  <2>3. k \in Nat /\ k \in Int /\ 1 \in Int /\ k - 1 + 1 = k BY <2>2
  <2> HIDE DEF k
  <2>4. \A i \in 1 .. k : s[i] \in Char BY <2>1 DEF k
  <2>5. /\ SubSeq(s, 1, k) \in Seq(Char) /\ Len(SubSeq(s, 1, k)) = k
        /\ \A i \in 1 .. k : SubSeq(s, 1, k)[i] = s[1 + i - 1]
    BY <2>3, <2>4, SubSeqProperties
  <2>6. \A i \in 1 .. k : 1 + i - 1 = i BY <2>3
  <2> QED BY <2>5, <2>6, Zenon DEF k
<1>10. Kept(t) = t BY <1>1 DEF Kept, EndsInCR
<1> HIDE DEF r
<1>11. t = r \o <<"CR", "LF">>
  <2> DEFINE v == r \o <<"CR", "LF">>
  <2>1. <<"CR", "LF">> \in Seq(Char) /\ t \in Seq(Char) BY DEF Char
  <2>2. v \in Seq(Char) /\ Len(v) = Len(s) + 1 BY <1>1, <1>9, <2>1
  <2>3. \A i \in 1 .. Len(s) - 1 : v[i] = s[i] BY <1>1, <1>9, <2>1
  <2>4. v[Len(s)] = "CR" /\ v[Len(s) + 1] = "LF" BY <1>1, <1>4, <1>9, <2>1
  <2> HIDE DEF v
  <2>5. \A i \in 1 .. Len(s) + 1 : t[i] = v[i]
    <3> TAKE i \in 1 .. Len(s) + 1
    <3>1. CASE i \in 1 .. Len(s) - 1 BY <1>1, <2>3, <3>1
    <3>2. CASE i = Len(s) BY <1>1, <1>4, <2>4, <3>2
    <3>3. CASE i = Len(s) + 1 BY <1>1, <2>4, <3>3
    <3> QED BY <1>1, <3>1, <3>2, <3>3
  <2>6. Len(t) = Len(v) /\ \A i \in 1 .. Len(t) : t[i] = v[i] BY <1>1, <2>2, <2>5
  <2>7. t = v BY <2>1, <2>2, <2>6, SeqEqual, Zenon
  <2> QED BY <2>7 DEF v
<1> QED BY <1>7, <1>8, <1>9, <1>10, <1>11, Zenon

(* What has been written and the line are what is kept of the body so far. *)
BodyInv ==
  LET sent == SubSeq(input, 1, taken)
  IN  kind = "body" /\ ProperSoFar(sent) => written \o line = Header \o Kept(sent)

(* Every byte that comes keeps it.                                         *)
LEMMA BodyInvKept == Spec => []BodyInv
<1>1. Init /\ TypeOK => BodyInv
  <2> SUFFICES ASSUME Init, TypeOK PROVE BodyInv OBVIOUS
  <2>1. taken = 0 /\ line = <<>> /\ written = Header
    BY WritelineReceived, Zenon DEF Init
  <2>2. SubSeq(input, 1, taken) = <<>> BY <2>1, SubSeqEmpty
  <2>3. Kept(<<>>) = <<>> BY DEF Kept, EndsInCR
  <2>4. Header \o <<>> = Header BY DEF Header
  <2> QED BY <2>1, <2>2, <2>3, <2>4, Zenon DEF BodyInv
<1>2. BodyInv /\ TypeOK /\ TypeOK' /\ [Next]_vars => BodyInv'
  <2> SUFFICES ASSUME BodyInv, TypeOK, TypeOK', [Next]_vars PROVE BodyInv' OBVIOUS
  <2>1. /\ input \in Seq(Sendable) /\ taken \in 0 .. Len(input)
        /\ line \in Seq(Char \ {"CR", "LF"}) /\ written \in Seq(Char)
    BY Zenon DEF TypeOK
  <2> DEFINE sent == SubSeq(input, 1, taken)
  <2>2. CASE Send
    <3>1. UNCHANGED <<kind, taken, line, written>> /\ \E c : input' = Append(input, c)
      BY <2>2 DEF Send
    <3>2. sent' = sent
      <4>1. PICK c : input' = Append(input, c) BY <3>1
      <4>2. SubSeq(Append(input, c), 1, taken) = SubSeq(input, 1, taken) BY <2>1
      <4> QED BY <3>1, <4>1, <4>2
    <3> QED BY <3>1, <3>2, Zenon DEF BodyInv
  <2>3. ASSUME Take
        PROVE  /\ kind = "body" /\ kind' = kind /\ sent \in Seq(Char)
               /\ input[taken'] \in Char /\ sent' = Append(sent, input[taken'])
    <3>1. UNCHANGED <<kind, input>> /\ kind = "body" /\ taken' = taken + 1 /\ taken < Len(input)
      BY <2>3 DEF Take
    <3>2. Sendable = Char BY <3>1 DEF Sendable, Alphabet
    <3>3. input \in Seq(Char) /\ taken' \in 1 .. Len(input) BY <2>1, <3>1, <3>2
    <3>4. sent \in Seq(Char) BY <2>1, <3>3
    <3>5. input[taken'] \in Char BY <3>3
    <3>6. SubSeq(input, 1, taken + 1) = Append(SubSeq(input, 1, taken), input[taken + 1])
      BY <2>1, <3>1, <3>3
    <3> QED BY <3>1, <3>4, <3>5, <3>6, Zenon
  <2>4. CASE ReadByte
    <3>1. /\ Take /\ input[taken'] # "LF" /\ line' = Readline(line, input[taken'])
          /\ written' = written
      BY <2>4 DEF ReadByte
    <3> DEFINE c == input[taken']
    <3>2. SUFFICES ASSUME ProperSoFar(sent') PROVE written \o line' = Header \o Kept(sent')
      BY <2>3, <3>1, Zenon DEF BodyInv
    <3>3. /\ sent \in Seq(Char) /\ c \in Char /\ c # "LF"
          /\ sent' = Append(sent, c) /\ ProperSoFar(sent') /\ kind = "body"
      BY <2>3, <3>1, <3>2, Zenon
    <3>4. ProperSoFar(sent) /\ Kept(sent) = sent /\ Kept(sent') = Readline(sent, c)
      <4> HIDE DEF c, sent
      <4> QED BY <3>3, ByteKept, Zenon
    <3>5. written \o line = Header \o sent BY <3>3, <3>4, Zenon DEF BodyInv
    <3> HIDE DEF c, sent
    <3>6. written \o Readline(line, c) = Header \o Readline(sent, c)
      <4>1. CASE c = "CR" BY <3>5, <4>1, Zenon DEF Readline
      <4>2. CASE c # "CR"
        <5>1. line \in Seq(Char) /\ Header \in Seq(Char) BY <2>1 DEF Header, Char
        <5>2. written \o Append(line, c) = Append(written \o line, c)
          BY <2>1, <3>3, <5>1, ByteBehindBoth, Zenon
        <5>3. Header \o Append(sent, c) = Append(Header \o sent, c)
          BY <3>3, <5>1, ByteBehindBoth, Zenon
        <5> QED BY <3>5, <4>2, <5>2, <5>3, Zenon DEF Readline
      <4> QED BY <4>1, <4>2
    <3> QED BY <3>1, <3>4, <3>6, Zenon DEF c
  <2>5. CASE Copy
    <3>1. /\ Take /\ input[taken'] = "LF" /\ line' = <<>>
          /\ written' = written \o Writeline(line)
      BY <2>5 DEF Copy
    <3>2. SUFFICES ASSUME ProperSoFar(sent') PROVE written' \o line' = Header \o Kept(sent')
      BY <2>3, <3>1, Zenon DEF BodyInv
    <3>3. /\ sent \in Seq(Char) /\ sent' = Append(sent, "LF")
          /\ ProperSoFar(sent') /\ kind = "body"
      BY <2>3, <3>1, <3>2, Zenon
    <3>4. /\ ProperSoFar(sent) /\ Kept(sent) \in Seq(Char)
          /\ Kept(sent') = Kept(sent) \o <<"CR", "LF">>
      <4> HIDE DEF sent
      <4> QED BY <3>3, LineKept, Zenon
    <3>5. written \o line = Header \o Kept(sent) BY <3>3, <3>4, Zenon DEF BodyInv
    <3>6. Writeline(line) = line \o <<"CR", "LF">>
      BY <2>1, WritelinePlain, Zenon DEF Plainly
    <3>7. /\ line \in Seq(Char) /\ Header \in Seq(Char)
      BY <2>1 DEF Header, Char
    <3> HIDE DEF sent
    <3>8. written \o (line \o <<"CR", "LF">>) = (written \o line) \o <<"CR", "LF">>
      <4>1. written \in Seq(Char) BY <2>1, Zenon
      <4> QED BY <3>7, <4>1, EndBehindBoth, Zenon
    <3>9. Header \o (Kept(sent) \o <<"CR", "LF">>) = (Header \o Kept(sent)) \o <<"CR", "LF">>
      <4>1. Kept(sent) \in Seq(Char) BY <3>4, Zenon
      <4> QED BY <3>7, <4>1, EndBehindBoth, Zenon
    <3>10. written' = Header \o Kept(sent') BY <3>1, <3>4, <3>5, <3>6, <3>8, <3>9, Zenon
    <3>11. written' \o line' = written'
      <4>1. written' \in Seq(Char) BY Zenon DEF TypeOK
      <4> QED BY <3>1, <4>1, ConcatEmptySeq, Zenon
    <3> QED BY <3>10, <3>11, Zenon
  <2>6. CASE UNCHANGED vars BY <2>6, Zenon DEF vars, BodyInv
  <2> QED BY <2>2, <2>4, <2>5, <2>6 DEF Next
<1> QED BY <1>1, <1>2, TypeCorrect, PTL DEF Spec

(* The body arrives byte for byte behind the header.                       *)
THEOREM BodyIsCopied == Spec => []BodyArrives
<1>1. TypeOK /\ BodyInv => BodyArrives
  <2> SUFFICES ASSUME TypeOK, BodyInv PROVE BodyArrives OBVIOUS
  <2> DEFINE sent == SubSeq(input, 1, taken)
  <2> SUFFICES ASSUME kind = "body", Proper(sent)
               PROVE  written \o line = Writeline(Received) \o sent
    BY Zenon DEF BodyArrives
  <2>1. sent \in Seq(Char)
    <3>1. Sendable = Char BY DEF Sendable, Alphabet
    <3>2. input \in Seq(Sendable) /\ taken \in 0 .. Len(input) BY Zenon DEF TypeOK
    <3> QED BY <3>1, <3>2
  <2> HIDE DEF sent
  <2>2. ProperSoFar(sent) BY Zenon DEF Proper, ProperSoFar
  <2>3. Kept(sent) = sent
    <3>1. \A i \in 1 .. Len(sent) : sent[i] = "CR" => i < Len(sent) BY <2>1 DEF Proper
    <3>2. sent # <<>> => Len(sent) \in 1 .. Len(sent) BY <2>1
    <3>3. ~EndsInCR(sent) BY <2>1, <3>1, <3>2 DEF EndsInCR
    <3> QED BY <3>3, Zenon DEF Kept
  <2> QED BY <2>2, <2>3, WritelineReceived, Zenon DEF BodyInv, sent
<1> QED BY <1>1, TypeCorrect, BodyInvKept, PTL

-----------------------------------------------------------------------------
(* The line that ends an accepted reply is the first without a hyphen.     *)
LEMMA LastLineFirst ==
  ASSUME NEW lines \in Seq(Line), LastLine(lines) <= Len(lines), lines[1].sep = "-"
  PROVE  /\ LastLine(lines) \in 2 .. Len(lines)
         /\ LastLine(lines) = Min({i \in DOMAIN lines : lines[i].sep # "-"})
<1> DEFINE T == {i \in 2 .. Len(lines) : lines[i].sep # "-"} \cup {Len(lines) + 1}
           n == Min(T)
<1>1. T \in SUBSET Nat /\ T # {} OBVIOUS
<1>2. n \in T /\ n \in Nat /\ \A y \in T : n <= y
  <2> HIDE DEF T
  <2> QED BY <1>1, MinIsLeast
<1>3. n = LastLine(lines) BY DEF LastLine
<1> HIDE DEF n
<1>4. n \in 2 .. Len(lines) /\ lines[n].sep # "-" BY <1>2, <1>3
<1> DEFINE U == {i \in DOMAIN lines : lines[i].sep # "-"}
<1>5. U \in SUBSET Nat /\ n \in U BY <1>4
<1>6. \A y \in U : n <= y
  <2> TAKE y \in U
  <2>1. y \in 1 .. Len(lines) /\ lines[y].sep # "-" OBVIOUS
  <2>2. y # 1 OBVIOUS
  <2>3. y \in T BY <2>1, <2>2
  <2> QED BY <1>2, <2>3
<1>7. Min(U) = n
  <2> HIDE DEF U
  <2> QED BY <1>5, <1>6, MinIs
<1> QED BY <1>3, <1>4, <1>7

(* An accepted reply, and how it is written out.                           *)
LEMMA AcceptedReply ==
  ASSUME NEW lines \in Seq(Line), ReadResponse(lines).code > 0
  PROVE  LET r == ReadResponse(lines)
             shown == ShowResponse(r)
         IN  /\ r.taken = Min({i \in DOMAIN lines : lines[i].sep # "-"})
             /\ \A i \in DOMAIN shown :
                  /\ shown[i].code = lines[1].code
                  /\ shown[i].sep = IF i = Len(shown) THEN Blank ELSE "-"
             /\ Len(shown) = r.taken
             /\ \A i \in 2 .. r.taken : shown[i].text = lines[i].text
<1> DEFINE r == ReadResponse(lines)
           shown == ShowResponse(r)
           n == r.taken
<1>1. ~(0 > 0) /\ ~(-1 > 0) OBVIOUS
<1>2. /\ lines # <<>> /\ lines[1].code # 0
      /\ \/ /\ lines[1].sep = "-"
            /\ r = Continuation(lines)
         \/ /\ lines[1].sep = Blank
            /\ r = [code |-> lines[1].code, taken |-> 1, continuation |-> <<>>]
  <2>1. MalformedResponse.code = 0 /\ Waiting.code = -1
    BY DEF MalformedResponse, Waiting
  <2>2. r # MalformedResponse /\ r # Waiting
    <3> HIDE DEF r
    <3>1. r.code > 0 BY DEF r
    <3> QED BY <2>1, <3>1, <1>1
  <2>3. lines # <<>> BY <2>2, Zenon DEF ReadResponse
  <2>4. lines[1].code # 0 BY <2>2, <2>3, Zenon DEF ReadResponse
  <2>5. CASE lines[1].sep = "-" /\ lines[1].code = 250
    <3>1. Blank # "-" BY Zenon DEF Blank
    <3>2. lines[1].sep # Blank BY <2>5, <3>1
    <3> QED BY <2>3, <2>4, <2>5, <3>2 DEF ReadResponse
  <2>6. CASE ~(lines[1].sep = "-" /\ lines[1].code = 250)
    <3>1. lines[1].sep = Blank BY <2>2, <2>3, <2>4, <2>6, Zenon DEF ReadResponse
    <3> QED BY <2>3, <2>4, <2>6, <3>1, Zenon DEF ReadResponse
  <2> QED BY <2>3, <2>4, <2>5, <2>6, Zenon
<1>3. \A m : m \in Nat /\ n = m + 1 /\ r.code = lines[1].code
             /\ DOMAIN r.continuation = 1 .. m /\ Len(r.continuation) = m
             /\ (\A i \in 1 .. m : r.continuation[i] = lines[i + 1].text)
      =>     /\ \A i \in DOMAIN shown :
                  /\ shown[i].code = lines[1].code
                  /\ shown[i].sep = IF i = Len(shown) THEN Blank ELSE "-"
             /\ Len(shown) = n
             /\ \A i \in 2 .. n : shown[i].text = lines[i].text
  <2> SUFFICES ASSUME NEW m \in Nat, n = m + 1, r.code = lines[1].code,
                      Len(r.continuation) = m,
                      \A i \in 1 .. m : r.continuation[i] = lines[i + 1].text
               PROVE  /\ \A i \in DOMAIN shown :
                           /\ shown[i].code = lines[1].code
                           /\ shown[i].sep = IF i = Len(shown) THEN Blank ELSE "-"
                      /\ Len(shown) = n
                      /\ \A i \in 2 .. n : shown[i].text = lines[i].text
    OBVIOUS
  <2> HIDE DEF r
  <2>1. shown = [i \in 1 .. m + 1 |->
                   [code |-> r.code, sep |-> IF i <= m THEN "-" ELSE Blank,
                    text |-> IF i = 1 THEN "status" ELSE r.continuation[i - 1]]]
    BY Zenon DEF ShowResponse
  <2> HIDE DEF shown
  <2>2. DOMAIN shown = 1 .. m + 1 /\ Len(shown) = m + 1
    <3> DEFINE e(i) == [code |-> r.code, sep |-> IF i <= m THEN "-" ELSE Blank,
                        text |-> IF i = 1 THEN "status" ELSE r.continuation[i - 1]]
    <3>1. shown = [i \in 1 .. m + 1 |-> e(i)] BY <2>1
    <3> HIDE DEF e
    <3> QED BY <3>1
  <2>3. ASSUME NEW i \in 1 .. m + 1
        PROVE  /\ shown[i].code = lines[1].code
               /\ shown[i].sep = IF i <= m THEN "-" ELSE Blank
               /\ shown[i].text = IF i = 1 THEN "status" ELSE r.continuation[i - 1]
    BY <2>1
  <2>4. ASSUME NEW i \in 2 .. m + 1 PROVE shown[i].text = lines[i].text
    <3>1. i \in 1 .. m + 1 /\ i # 1 /\ i - 1 \in 1 .. m /\ (i - 1) + 1 = i OBVIOUS
    <3> QED BY <2>3, <3>1, Zenon
  <2>5. \A i \in 1 .. m + 1 : i <= m <=> i # m + 1 OBVIOUS
  <2>6. n = m + 1 OBVIOUS
  <2> HIDE DEF n
  <2>7. ASSUME NEW i \in 1 .. m + 1
        PROVE  /\ shown[i].code = lines[1].code
               /\ shown[i].sep = IF i = Len(shown) THEN Blank ELSE "-"
    BY <2>2, <2>3, <2>5, Zenon
  <2> QED BY <2>2, <2>4, <2>6, <2>7, Zenon
<1>4. CASE lines[1].sep = Blank /\ r = [code |-> lines[1].code, taken |-> 1, continuation |-> <<>>]
  <2> HIDE DEF r, shown
  <2>1. n = 0 + 1 /\ r.code = lines[1].code /\ DOMAIN r.continuation = 1 .. 0
        /\ Len(r.continuation) = 0
    BY <1>4
  <2>2. \A i \in 1 .. 0 : r.continuation[i] = lines[i + 1].text OBVIOUS
  <2>3. 0 \in Nat OBVIOUS
  <2>4. n = Min({i \in DOMAIN lines : lines[i].sep # "-"})
    <3> DEFINE U == {i \in DOMAIN lines : lines[i].sep # "-"}
    <3>1. 1 \in DOMAIN lines /\ Blank # "-"
      <4>1. Blank # "-" BY Zenon DEF Blank
      <4> QED BY <1>2, <4>1
    <3>2. U \in SUBSET Nat /\ 1 \in U /\ \A y \in U : 1 <= y BY <1>4, <3>1
    <3> HIDE DEF U
    <3>3. Min(U) = 1 BY <3>2, MinIs
    <3> QED BY <2>1, <3>3 DEF U
  <2> HIDE DEF n
  <2>5. /\ \A i \in DOMAIN shown :
                  /\ shown[i].code = lines[1].code
                  /\ shown[i].sep = IF i = Len(shown) THEN Blank ELSE "-"
        /\ Len(shown) = n
        /\ \A i \in 2 .. n : shown[i].text = lines[i].text
    BY <1>3, <2>1, <2>2, <2>3, Zenon
  <2> QED BY <2>4, <2>5, Zenon DEF n, shown, r
<1>5. CASE lines[1].sep = "-" /\ r = Continuation(lines)
  <2> DEFINE k == LastLine(lines)
  <2>1. /\ ~ (k > Len(lines))
        /\ r = [code |-> lines[1].code, taken |-> k,
                continuation |-> [i \in 1 .. k - 1 |-> lines[i + 1].text]]
    BY <1>1, <1>5 DEF Continuation, MalformedResponse, Waiting
  <2>2. k \in Nat
    <3> DEFINE T == {i \in 2 .. Len(lines) : lines[i].sep # "-"} \cup {Len(lines) + 1}
    <3>1. T \in SUBSET Nat /\ T # {} OBVIOUS
    <3>2. Min(T) \in Nat
      <4> HIDE DEF T
      <4> QED BY <3>1, MinIsLeast
    <3> QED BY <3>2 DEF LastLine
  <2> HIDE DEF k, r, shown
  <2>3. k <= Len(lines) BY <2>1, <2>2
  <2>4. k \in 2 .. Len(lines) /\ k = Min({i \in DOMAIN lines : lines[i].sep # "-"})
    BY <2>3, <1>5, LastLineFirst, Zenon DEF k
  <2>5. k - 1 \in Nat /\ n = (k - 1) + 1 BY <2>1, <2>4
  <2>6. r.code = lines[1].code /\ r.continuation = [i \in 1 .. k - 1 |-> lines[i + 1].text]
    BY <2>1
  <2>7. DOMAIN r.continuation = 1 .. k - 1 /\ Len(r.continuation) = k - 1 BY <2>5, <2>6
  <2>8. \A i \in 1 .. k - 1 : r.continuation[i] = lines[i + 1].text BY <2>6, Zenon
  <2>9. n = k BY <2>1
  <2> HIDE DEF n
  <2>10. /\ \A i \in DOMAIN shown :
                  /\ shown[i].code = lines[1].code
                  /\ shown[i].sep = IF i = Len(shown) THEN Blank ELSE "-"
         /\ Len(shown) = n
         /\ \A i \in 2 .. n : shown[i].text = lines[i].text
    BY <1>3, <2>5, <2>6, <2>7, <2>8, Zenon
  <2> QED BY <2>4, <2>9, <2>10, Zenon DEF n, shown, r
<1> QED BY <1>2, <1>4, <1>5, Zenon

(* A reply that is accepted is the whole reply, and is handed on whole.    *)
THEOREM RepliesStayInStep == Spec => []RepliesInStep
<1>1. TypeOK => RepliesInStep
  <2> SUFFICES ASSUME TypeOK, kind = "response", ReadResponse(input).code > 0
               PROVE  RepliesInStep
    BY Zenon DEF RepliesInStep
  <2>1. Sendable = Line BY DEF Sendable, Alphabet
  <2>2. input \in Seq(Line) BY <2>1, Zenon DEF TypeOK
  <2> QED BY <2>2, AcceptedReply, Zenon DEF RepliesInStep
<1> QED BY <1>1, TypeCorrect, PTL

-----------------------------------------------------------------------------
(* What stands in s behind its first n signs, and what a word is free of.  *)
At(s, n, p) == \A j \in 1 .. Len(p) : s[n + j] = p[j]
Free(p, x) == \A j \in 1 .. Len(p) : p[j] # x

(* A parameter behind a word and a blank, and an address in its brackets.  *)
Behind(s, a, p) ==
  Len(s) = 2 + Len(p) /\ s[1] = a /\ s[2] = Blank /\ At(s, 2, p)

Bracketed(s, a, c, p) ==
  /\ Len(s) = 6 + Len(p)
  /\ s[1] = a /\ s[2] = Blank /\ s[3] = c /\ s[4] = Blank /\ s[5] = "<"
  /\ At(s, 5, p)
  /\ s[6 + Len(p)] = ">"

(* Where a word ends, and where the next begins.                           *)
LEMMA WordEndIs ==
  ASSUME NEW S, NEW l \in Seq(S), NEW i \in Nat \ {0}, NEW d, NEW e \in i .. Len(l) + 1,
         e <= Len(l) => l[e] = d, \A j \in i .. e - 1 : l[j] # d
  PROVE  WordEnd(l, i, d) = e
<1> DEFINE T == {j \in i .. Len(l) : l[j] = d} \cup {Len(l) + 1}
<1>1. T \in SUBSET Nat /\ e \in T OBVIOUS
<1>2. \A y \in T : e <= y OBVIOUS
<1>3. Min(T) = e
  <2> HIDE DEF T
  <2> QED BY <1>1, <1>2, MinIs
<1> QED BY <1>3 DEF WordEnd

(* A word ends behind where it begins, at the sign or behind the line.     *)
LEMMA WordEndFacts ==
  ASSUME NEW S, NEW l \in Seq(S), NEW i \in Nat \ {0}, NEW d
  PROVE  /\ WordEnd(l, i, d) \in 1 .. Len(l) + 1
         /\ i <= Len(l) + 1 => WordEnd(l, i, d) >= i
         /\ WordEnd(l, i, d) <= Len(l) => l[WordEnd(l, i, d)] = d
         /\ \A j \in i .. WordEnd(l, i, d) - 1 : l[j] # d
<1> DEFINE T == {j \in i .. Len(l) : l[j] = d} \cup {Len(l) + 1}
           e == Min(T)
<1>1. T \in SUBSET Nat /\ T # {} OBVIOUS
<1>2. e \in T /\ e \in Nat /\ \A y \in T : e <= y
  <2> HIDE DEF T
  <2> QED BY <1>1, MinIsLeast
<1> HIDE DEF e
<1>3. e \in 1 .. Len(l) + 1 /\ (i <= Len(l) + 1 => e >= i) /\ (e <= Len(l) => l[e] = d)
  BY <1>2
<1>4. ASSUME NEW j \in i .. e - 1, l[j] = d PROVE FALSE
  <2>1. j \in T BY <1>3, <1>4
  <2> QED BY <1>2, <1>3, <2>1
<1> QED BY <1>3, <1>4 DEF WordEnd, e

(* The first sign that is no blank is the one that is skipped to.          *)
LEMMA SkipIs ==
  ASSUME NEW S, NEW l \in Seq(S), NEW i \in Nat \ {0}, NEW e \in i .. Len(l),
         l[e] # Blank, \A j \in i .. e - 1 : l[j] = Blank
  PROVE  Skip(l, i) = e
<1> DEFINE T == {j \in i .. Len(l) : l[j] # Blank} \cup {Len(l) + 1}
<1>1. T \in SUBSET Nat /\ e \in T OBVIOUS
<1>2. \A y \in T : e <= y OBVIOUS
<1>3. Min(T) = e
  <2> HIDE DEF T
  <2> QED BY <1>1, <1>2, MinIs
<1> QED BY <1>3, Zenon DEF Skip

(* What is skipped to is in the line and no blank, or behind the line.     *)
LEMMA SkipFacts ==
  ASSUME NEW S, NEW l \in Seq(S), NEW i \in Nat \ {0}
  PROVE  /\ Skip(l, i) \in 1 .. Len(l) + 1
         /\ Skip(l, i) <= Len(l) => l[Skip(l, i)] # Blank
<1> DEFINE T == {j \in i .. Len(l) : l[j] # Blank} \cup {Len(l) + 1}
           e == Min(T)
<1>1. T \in SUBSET Nat /\ T # {} OBVIOUS
<1>2. e \in T /\ e \in Nat
  <2> HIDE DEF T
  <2> QED BY <1>1, MinIsLeast
<1> HIDE DEF e
<1>3. e \in 1 .. Len(l) + 1 /\ (e <= Len(l) => l[e] # Blank) BY <1>2
<1> QED BY <1>3, Zenon DEF Skip, e

(* A word that begins with no blank has none.                              *)
LEMMA WordFacts ==
  ASSUME NEW S, NEW l \in Seq(S), NEW i \in 1 .. Len(l), l[i] # Blank
  PROVE  /\ Word(l, i) \in Seq(S) /\ Len(Word(l, i)) >= 1
         /\ Free(Word(l, i), Blank)
<1> DEFINE e == WordEnd(l, i, Blank)
<1>1. /\ e \in 1 .. Len(l) + 1 /\ e >= i /\ (e <= Len(l) => l[e] = Blank)
      /\ \A j \in i .. e - 1 : l[j] # Blank
  <2>1. i \in Nat \ {0} /\ i <= Len(l) + 1 OBVIOUS
  <2> QED BY <2>1, WordEndFacts
<1> HIDE DEF e
<1>2. e # i BY <1>1
<1>3. i \in Int /\ e - 1 \in Int /\ \A j \in i .. e - 1 : l[j] \in S BY <1>1
<1> DEFINE m == e - 1
           w == SubSeq(l, i, m)
<1>4. /\ w \in Seq(S) /\ Len(w) = m - i + 1 /\ \A j \in 1 .. m - i + 1 : w[j] = l[i + j - 1]
  <2>1. m \in Int /\ i <= m BY <1>1, <1>2
  <2>2. \A j \in i .. m : l[j] \in S BY <1>3
  <2> HIDE DEF m
  <2> QED BY <1>3, <2>1, <2>2, SubSeqProperties
<1>5. ASSUME NEW j \in 1 .. Len(w) PROVE w[j] # Blank
  <2>1. i + j - 1 \in i .. e - 1 /\ j \in 1 .. m - i + 1 BY <1>1, <1>4
  <2> QED BY <1>1, <1>4, <2>1
<1>6. Len(w) >= 1 BY <1>1, <1>2, <1>4
<1>7. Free(w, Blank) BY <1>5, Zenon DEF Free
<1> QED BY <1>4, <1>6, <1>7, Zenon DEF Word, e

(* What is written behind n signs is what stands there.                    *)
LEMMA SubSeqReread ==
  ASSUME NEW S, NEW s \in Seq(S), NEW p \in Seq(S), NEW n \in Nat,
         Len(s) >= n + Len(p), At(s, n, p)
  PROVE  SubSeq(s, n + 1, n + Len(p)) = p
<1> DEFINE i == n + 1
           m == n + Len(p)
           w == SubSeq(s, i, m)
<1>1. Len(p) \in Nat /\ i \in Int /\ m \in Int /\ m - i + 1 = Len(p)
      /\ (IF i <= m THEN m - i + 1 ELSE 0) = Len(p)
  OBVIOUS
<1>2. \A j \in i .. m : s[j] \in S OBVIOUS
<1>3. \A j \in 1 .. Len(p) : i + j - 1 = n + j OBVIOUS
<1> HIDE DEF i, m
<1>4. w \in Seq(S) /\ Len(w) = Len(p) /\ \A j \in 1 .. m - i + 1 : w[j] = s[i + j - 1]
  BY <1>1, <1>2, SubSeqProperties
<1>5. \A j \in 1 .. Len(w) : w[j] = p[j]
  <2> HIDE DEF w
  <2> TAKE j \in 1 .. Len(w)
  <2>1. j \in 1 .. m - i + 1 /\ j \in 1 .. Len(p) BY <1>1, <1>4
  <2>2. w[j] = s[i + j - 1] BY <1>4, <2>1
  <2>3. s[n + j] = p[j] BY <2>1, Zenon DEF At
  <2> QED BY <1>3, <2>1, <2>2, <2>3
<1>6. w = p
  <2> HIDE DEF w
  <2> QED BY <1>4, <1>5, SeqEqual
<1> QED BY <1>6 DEF w, i, m

(* A word that is written behind a blank is read again.                    *)
LEMMA WordReread ==
  ASSUME NEW S, NEW s \in Seq(S), NEW p \in Seq(S), NEW n \in Nat,
         Len(s) >= n + Len(p), Len(p) >= 1,
         At(s, n, p), Free(p, Blank),
         Len(s) > n + Len(p) => s[n + Len(p) + 1] = Blank
  PROVE  /\ WordEnd(s, n + 1, Blank) = n + Len(p) + 1
         /\ Word(s, n + 1) = p
         /\ s[n + 1] # Blank /\ n + 1 \in 1 .. Len(s)
<1> DEFINE e == n + Len(p) + 1
           i == n + 1
<1>1. i \in Nat \ {0} /\ e \in i .. Len(s) + 1 /\ (e <= Len(s) => s[e] = Blank) OBVIOUS
<1>2. ASSUME NEW j \in i .. e - 1 PROVE s[j] # Blank
  <2>1. j - n \in 1 .. Len(p) /\ n + (j - n) = j OBVIOUS
  <2>2. s[n + (j - n)] = p[j - n] /\ p[j - n] # Blank BY <2>1, Zenon DEF At, Free
  <2> QED BY <2>1, <2>2
<1>3. WordEnd(s, i, Blank) = e
  <2> HIDE DEF e, i
  <2> QED BY <1>1, <1>2, WordEndIs
<1>4. SubSeq(s, n + 1, n + Len(p)) = p BY SubSeqReread
<1>5. e - 1 = n + Len(p) OBVIOUS
<1>6. Word(s, i) = p BY <1>3, <1>4, <1>5, Zenon DEF Word
<1>7. s[n + 1] = p[1] /\ p[1] # Blank
  <2>1. 1 \in 1 .. Len(p) OBVIOUS
  <2> QED BY <2>1, Zenon DEF At, Free
<1> QED BY <1>3, <1>6, <1>7

-----------------------------------------------------------------------------
(* The first word selects what reads the rest.                             *)
LEMMA Dispatch ==
  ASSUME NEW l
  PROVE  /\ Word(l, 1) = <<"helo">> => ReadCommand(l) = Greeting(l)
         /\ Word(l, 1) = <<"mail">> => ReadCommand(l) = Address(l, "mail", "from:")
         /\ Word(l, 1) = <<"rcpt">> => ReadCommand(l) = Address(l, "rcpt", "to:")
         /\ Word(l, 1) = <<"auth">> => ReadCommand(l) = Auth(l)
         /\ Word(l, 1) = <<"quit">> => ReadCommand(l) = Plain(l)
         /\ Word(l, 1) \notin {<<"helo">>, <<"mail">>, <<"rcpt">>, <<"auth">>, <<"quit">>}
              => ReadCommand(l) = InvalidCommand
<1>1. \A x, y : <<x>> = <<y>> => x = y
  <2> SUFFICES ASSUME NEW x, NEW y, <<x>> = <<y>> PROVE x = y OBVIOUS
  <2>1. <<x>>[1] = x /\ <<y>>[1] = y OBVIOUS
  <2> QED BY <2>1
<1> DEFINE h == <<"helo">>
           m == <<"mail">>
           r == <<"rcpt">>
           a == <<"auth">>
           q == <<"quit">>
           w == Word(l, 1)
<1>2. /\ h # m /\ h # r /\ h # a /\ h # q /\ m # r /\ m # a /\ m # q
      /\ r # a /\ r # q /\ a # q
  BY <1>1
<1>3. ReadCommand(l) =
        CASE w = h -> Greeting(l)
          [] w = m -> Address(l, "mail", "from:")
          [] w = r -> Address(l, "rcpt", "to:")
          [] w = a -> Auth(l)
          [] w = q -> Plain(l)
          [] OTHER -> InvalidCommand
  BY Zenon DEF ReadCommand
<1> HIDE DEF h, m, r, a, q, w
<1>4. /\ w = h => ReadCommand(l) = Greeting(l)
      /\ w = m => ReadCommand(l) = Address(l, "mail", "from:")
      /\ w = r => ReadCommand(l) = Address(l, "rcpt", "to:")
      /\ w = a => ReadCommand(l) = Auth(l)
      /\ w = q => ReadCommand(l) = Plain(l)
      /\ w \notin {h, m, r, a, q} => ReadCommand(l) = InvalidCommand
  BY <1>2, <1>3
<1> QED BY <1>4, Zenon DEF h, m, r, a, q, w

(* The first word of a line that a command is written as.                  *)
LEMMA FirstWord ==
  ASSUME NEW S, NEW s \in Seq(S), NEW v, v # Blank, s # <<>>, s[1] = v,
         Len(s) > 1 => s[2] = Blank
  PROVE  Word(s, 1) = <<v>> /\ WordEnd(s, 1, Blank) = 2
<1> DEFINE p == <<v>>
<1>1. v \in S /\ Len(s) >= 1 OBVIOUS
<1>2. p \in Seq(S) /\ Len(p) = 1 /\ p[1] = v BY <1>1
<1> HIDE DEF p
<1>3. 0 \in Nat /\ 0 + 1 = 1 /\ 0 + 1 + 1 = 2 OBVIOUS
<1>4. At(s, 0, p) /\ Free(p, Blank)
  <2>1. \A j \in 1 .. 1 : j = 1 /\ 0 + j = 1 OBVIOUS
  <2> QED BY <1>2, <2>1, Zenon DEF At, Free
<1>5. Len(s) >= 0 + Len(p) /\ Len(p) >= 1 /\ (Len(s) > 0 + Len(p) => s[0 + Len(p) + 1] = Blank)
  BY <1>1, <1>2
<1>6. WordEnd(s, 0 + 1, Blank) = 0 + Len(p) + 1 /\ Word(s, 0 + 1) = p
  BY <1>2, <1>3, <1>4, <1>5, WordReread
<1> QED BY <1>2, <1>3, <1>6 DEF p

(* HELO, read again.                                                       *)
LEMMA GreetingReread ==
  ASSUME NEW S, NEW s \in Seq(S), NEW p \in Seq(S), Len(p) >= 1,
         Behind(s, "helo", p), Free(p, Blank)
  PROVE  ReadCommand(s) = [cmd |-> "helo", parameter |-> p]
<1> USE DEF Behind
<1>1. "helo" # Blank BY Zenon DEF Blank
<1>2. s # <<>> OBVIOUS
<1>3. Word(s, 1) = <<"helo">> /\ WordEnd(s, 1, Blank) = 2 BY <1>1, <1>2, FirstWord
<1>4. 2 \in Nat /\ Len(s) >= 2 + Len(p) /\ ~(Len(s) > 2 + Len(p)) OBVIOUS
<1>5. /\ WordEnd(s, 2 + 1, Blank) = 2 + Len(p) + 1 /\ Word(s, 2 + 1) = p
      /\ s[2 + 1] # Blank /\ 2 + 1 \in 1 .. Len(s)
  BY <1>4, WordReread
<1>6. 2 + 1 = 3 /\ 2 + Len(p) + 1 = Len(s) + 1 OBVIOUS
<1>7. /\ WordEnd(s, 3, Blank) = Len(s) + 1 /\ Word(s, 3) = p
      /\ s[3] # Blank /\ 3 \in 1 .. Len(s)
  BY <1>5, <1>6
<1>8. Skip(s, 2) = 3
  <2>1. 2 \in Nat \ {0} /\ 3 \in 2 .. Len(s) BY <1>7
  <2>2. \A j \in 2 .. 3 - 1 : s[j] = Blank OBVIOUS
  <2> QED BY <1>7, <2>1, <2>2, SkipIs
<1>9. Eol(s, Len(s) + 1) BY DEF Eol
<1>10. 3 <= Len(s) BY <1>7
<1>11. Greeting(s) = [cmd |-> "helo", parameter |-> p]
  BY <1>3, <1>7, <1>8, <1>9, <1>10 DEF Greeting
<1> QED BY <1>3, <1>11, Dispatch, Zenon

(* MAIL and RCPT, read again.                                              *)
LEMMA AddressReread ==
  ASSUME NEW S, NEW s \in Seq(S), NEW p \in Seq(S), NEW cmd, NEW key,
         cmd # Blank, key # Blank, Bracketed(s, cmd, key, p), Free(p, ">")
  PROVE  /\ Word(s, 1) = <<cmd>>
         /\ Address(s, cmd, key) = [cmd |-> cmd, parameter |-> p]
<1>1. "<" # Blank BY Zenon DEF Blank
<1> USE DEF Bracketed
<1>2. s # <<>> /\ Len(p) \in Nat OBVIOUS
<1>3. Word(s, 1) = <<cmd>> /\ WordEnd(s, 1, Blank) = 2 BY <1>2, FirstWord
<1>4. Skip(s, 2) = 3
  <2>1. 2 \in Nat \ {0} /\ 3 \in 2 .. Len(s) /\ \A j \in 2 .. 3 - 1 : s[j] = Blank BY <1>2
  <2>2. s[3] # Blank OBVIOUS
  <2> QED BY <2>1, <2>2, SkipIs
<1>5. Skip(s, 3 + 1) = 5
  <2>1. 4 \in Nat \ {0} /\ 5 \in 4 .. Len(s) /\ \A j \in 4 .. 5 - 1 : s[j] = Blank BY <1>2
  <2>2. s[5] # Blank BY <1>1
  <2>3. Skip(s, 4) = 5 BY <2>1, <2>2, SkipIs
  <2> QED BY <2>3
<1> DEFINE e == 6 + Len(p)
<1>6. WordEnd(s, 5 + 1, ">") = e
  <2>1. 5 + 1 \in Nat \ {0} /\ e \in 5 + 1 .. Len(s) + 1 /\ s[e] = ">" BY <1>2
  <2>2. ASSUME NEW j \in 5 + 1 .. e - 1 PROVE s[j] # ">"
    <3>1. j - 5 \in 1 .. Len(p) /\ 5 + (j - 5) = j BY <1>2
    <3>2. s[5 + (j - 5)] = p[j - 5] /\ p[j - 5] # ">" BY <3>1, Zenon DEF At, Free
    <3> QED BY <3>1, <3>2
  <2> HIDE DEF e
  <2> QED BY <2>1, <2>2, WordEndIs
<1>7. SubSeq(s, 5 + 1, e - 1) = p
  <2>1. 5 \in Nat /\ Len(s) >= 5 + Len(p) BY <1>2
  <2>2. SubSeq(s, 5 + 1, 5 + Len(p)) = p BY <2>1, SubSeqReread
  <2>3. e - 1 = 5 + Len(p) BY <1>2
  <2> HIDE DEF e
  <2> QED BY <2>2, <2>3
<1>8. Eol(s, e + 1) BY <1>2 DEF Eol
<1>9. Sees(s, 3, key) /\ Sees(s, 5, "<") BY <1>2 DEF Sees
<1>10. 5 <= Len(s) /\ e <= Len(s) BY <1>2
<1> HIDE DEF e
<1>11. Address(s, cmd, key) = [cmd |-> cmd, parameter |-> p]
  <2> DEFINE k == Skip(s, WordEnd(s, 1, Blank))
             a == Skip(s, k + 1)
             bracketed == Sees(s, a, "<")
             first == IF bracketed THEN a + 1 ELSE a
             sign == IF bracketed THEN ">" ELSE Blank
             end == WordEnd(s, first, sign)
             next == IF bracketed THEN end + 1 ELSE end
  <2>1. Address(s, cmd, key) =
          IF /\ Sees(s, k, key) /\ a <= Len(s)
             /\ bracketed => end <= Len(s)
             /\ cmd = "rcpt" => Eol(s, next)
          THEN [cmd |-> cmd, parameter |-> SubSeq(s, first, end - 1)]
          ELSE InvalidCommand
    BY Zenon DEF Address
  <2>2. k = 3 /\ a = 5 BY <1>3, <1>4, <1>5, Zenon
  <2> HIDE DEF k, a
  <2>3. bracketed BY <1>9, <2>2, Zenon
  <2> HIDE DEF bracketed
  <2>4. first = 5 + 1 /\ sign = ">" BY <2>2, <2>3, Zenon
  <2> HIDE DEF first, sign
  <2>5. end = e BY <1>6, <2>4, Zenon
  <2> HIDE DEF end
  <2>6. next = e + 1 BY <2>3, <2>5, Zenon
  <2> HIDE DEF next
  <2>7. Sees(s, k, key) /\ a <= Len(s) /\ end <= Len(s) /\ Eol(s, next)
    BY <1>8, <1>9, <1>10, <2>2, <2>5, <2>6, Zenon
  <2>8. SubSeq(s, first, end - 1) = p BY <1>7, <2>4, <2>5, Zenon
  <2> QED BY <2>1, <2>7, <2>8, Zenon
<1> QED BY <1>3, <1>11

(* AUTH with no initial response, read again.                              *)
LEMMA AuthReread ==
  ASSUME NEW S, NEW s \in Seq(S), NEW p \in Seq(S), Len(p) >= 1,
         Behind(s, "auth", p), Free(p, Blank)
  PROVE  ReadCommand(s) = [cmd |-> "auth", parameter |-> p]
<1> USE DEF Behind
<1>1. "auth" # Blank BY Zenon DEF Blank
<1>2. s # <<>> OBVIOUS
<1>3. Word(s, 1) = <<"auth">> /\ WordEnd(s, 1, Blank) = 2 BY <1>1, <1>2, FirstWord
<1>4. 2 \in Nat /\ Len(s) >= 2 + Len(p) /\ ~(Len(s) > 2 + Len(p)) OBVIOUS
<1>5. /\ WordEnd(s, 2 + 1, Blank) = 2 + Len(p) + 1 /\ Word(s, 2 + 1) = p
      /\ s[2 + 1] # Blank /\ 2 + 1 \in 1 .. Len(s)
  BY <1>4, WordReread
<1>6. 2 + 1 = 3 /\ 2 + Len(p) + 1 = Len(s) + 1 OBVIOUS
<1>7. /\ WordEnd(s, 3, Blank) = Len(s) + 1 /\ Word(s, 3) = p
      /\ s[3] # Blank /\ 3 \in 1 .. Len(s)
  BY <1>5, <1>6
<1>8. Skip(s, 2) = 3
  <2>1. 2 \in Nat \ {0} /\ 3 \in 2 .. Len(s) BY <1>7
  <2>2. \A j \in 2 .. 3 - 1 : s[j] = Blank OBVIOUS
  <2> QED BY <1>7, <2>1, <2>2, SkipIs
<1>9. ~(3 > Len(s)) /\ Len(s) + 1 > Len(s) BY <1>7
<1>10. Auth(s) = [cmd |-> "auth", parameter |-> p] BY <1>3, <1>7, <1>8, <1>9 DEF Auth
<1> QED BY <1>3, <1>10, Dispatch, Zenon

(* And with one.                                                           *)
LEMMA AuthInitialReread ==
  ASSUME NEW S, NEW s \in Seq(S), NEW p \in Seq(S), NEW q \in Seq(S),
         Len(p) >= 1, Len(q) >= 1,
         Len(s) = 3 + Len(p) + Len(q), s[1] = "auth", s[2] = Blank, s[3 + Len(p)] = Blank,
         At(s, 2, p), Free(p, Blank), At(s, 3 + Len(p), q), Free(q, Blank)
  PROVE  ReadCommand(s) = [cmd |-> "auth", parameter |-> p \o <<Blank>> \o q]
<1>1. "auth" # Blank BY Zenon DEF Blank
<1>2. s # <<>> OBVIOUS
<1>3. Word(s, 1) = <<"auth">> /\ WordEnd(s, 1, Blank) = 2 BY <1>1, <1>2, FirstWord
<1> DEFINE n == 3 + Len(p)
<1>4. /\ 2 \in Nat /\ Len(s) >= 2 + Len(p) /\ s[2 + Len(p) + 1] = Blank
      /\ n \in Nat /\ n >= 4 /\ Len(s) = n + Len(q) /\ 2 + 1 = 3 /\ 2 + Len(p) + 1 = n
      /\ n + Len(q) + 1 = Len(s) + 1
  OBVIOUS
<1>5. /\ WordEnd(s, 2 + 1, Blank) = 2 + Len(p) + 1 /\ Word(s, 2 + 1) = p
      /\ s[2 + 1] # Blank /\ 2 + 1 \in 1 .. Len(s)
  BY <1>4, WordReread
<1>6. /\ WordEnd(s, 3, Blank) = n /\ Word(s, 3) = p
      /\ s[3] # Blank /\ 3 \in 1 .. Len(s)
  BY <1>4, <1>5
<1>7. Skip(s, 2) = 3
  <2>1. 2 \in Nat \ {0} /\ 3 \in 2 .. Len(s) BY <1>6
  <2>2. \A j \in 2 .. 3 - 1 : s[j] = Blank OBVIOUS
  <2>3. s[3] # Blank BY <1>6, Zenon
  <2> QED BY <2>1, <2>2, <2>3, SkipIs
<1>8. s[n] = Blank /\ At(s, n, q) OBVIOUS
<1> HIDE DEF n
<1>9. /\ WordEnd(s, n + 1, Blank) = n + Len(q) + 1 /\ Word(s, n + 1) = q
      /\ s[n + 1] # Blank /\ n + 1 \in 1 .. Len(s)
  <2>1. n \in Nat /\ q \in Seq(S) /\ s \in Seq(S) /\ Len(q) >= 1 BY <1>4
  <2>2. Len(s) >= n + Len(q) /\ (Len(s) > n + Len(q) => s[n + Len(q) + 1] = Blank) BY <1>4
  <2>3. At(s, n, q) /\ Free(q, Blank) BY <1>8
  <2> QED BY ONLY <2>1, <2>2, <2>3, WordReread
<1>10. Skip(s, n) = n + 1
  <2>1. n \in Nat \ {0} /\ n + 1 \in n .. Len(s) BY <1>4, <1>9
  <2>2. \A j \in n .. (n + 1) - 1 : s[j] = Blank BY <1>4, <1>8
  <2> QED BY <1>9, <2>1, <2>2, SkipIs
<1>11. Eol(s, Len(s) + 1) BY DEF Eol
<1>12. ~(3 > Len(s)) /\ ~(n > Len(s)) /\ n + 1 <= Len(s) BY <1>4, <1>6, <1>9
<1>13. WordEnd(s, n + 1, Blank) = Len(s) + 1 BY <1>4, <1>9
<1>14. Auth(s) = [cmd |-> "auth", parameter |-> p \o <<Blank>> \o q]
  <2> DEFINE i == Skip(s, WordEnd(s, 1, Blank))
             end == WordEnd(s, i, Blank)
             j == Skip(s, end)
  <2>1. Auth(s) =
          IF i > Len(s) THEN InvalidCommand
          ELSE IF end > Len(s) THEN [cmd |-> "auth", parameter |-> Word(s, i)]
          ELSE IF j <= Len(s) /\ Eol(s, WordEnd(s, j, Blank))
          THEN [cmd |-> "auth", parameter |-> Word(s, i) \o <<Blank>> \o Word(s, j)]
          ELSE InvalidCommand
    BY Zenon DEF Auth
  <2>2. i = 3 BY <1>3, <1>7, Zenon
  <2> HIDE DEF i
  <2>3. end = n BY <1>6, <2>2, Zenon
  <2> HIDE DEF end
  <2>4. j = n + 1 BY <1>10, <2>3, Zenon
  <2> HIDE DEF j
  <2>5. Word(s, i) = p /\ Word(s, j) = q BY <1>6, <1>9, <2>2, <2>4, Zenon
  <2>6. Eol(s, WordEnd(s, j, Blank)) BY <1>11, <1>13, <2>4, Zenon
  <2>7. ~(i > Len(s)) /\ ~(end > Len(s)) /\ j <= Len(s) BY <1>12, <2>2, <2>3, <2>4, Zenon
  <2> QED BY <2>1, <2>5, <2>6, <2>7, Zenon
<1> QED BY <1>3, <1>14, Dispatch, Zenon

(* The commands without a parameter, read again.                           *)
LEMMA PlainReread == ReadCommand(<<"quit">>) = [cmd |-> "quit", parameter |-> <<>>]
<1> DEFINE s == <<"quit">>
<1>1. "quit" # Blank BY Zenon DEF Blank
<1>2. s \in Seq({"quit"}) /\ s # <<>> /\ s[1] = "quit" /\ Len(s) = 1 OBVIOUS
<1> HIDE DEF s
<1>3. Word(s, 1) = <<"quit">> BY <1>1, <1>2, FirstWord
<1>4. Eol(s, 2) BY <1>2 DEF Eol
<1>5. ReadCommand(s) = Plain(s) BY <1>3, Dispatch, Zenon
<1> QED BY <1>4, <1>5, Zenon DEF Plain, s

-----------------------------------------------------------------------------
(* What stands before and behind the parameter.                            *)
LEMMA ParameterWritten ==
  ASSUME NEW R, NEW a \in R, NEW p \in Seq(R), NEW s,
         Blank \in R, s = <<a, Blank>> \o p
  PROVE  s \in Seq(R) /\ Behind(s, a, p)
<1> DEFINE h == <<a, Blank>>
<1>1. h \in Seq(R) /\ Len(h) = 2 /\ h[1] = a /\ h[2] = Blank OBVIOUS
<1> HIDE DEF h
<1>2. s = h \o p BY DEF h
<1>3. /\ s \in Seq(R) /\ Len(s) = Len(h) + Len(p)
      /\ \A i \in 1 .. Len(h) : s[i] = h[i]
      /\ \A j \in 1 .. Len(p) : s[Len(h) + j] = p[j]
  BY <1>1, <1>2, ConcatFacts
<1>4. 1 \in 1 .. Len(h) /\ 2 \in 1 .. Len(h) BY <1>1
<1>5. At(s, 2, p)
  <2>1. ASSUME NEW j \in 1 .. Len(p) PROVE s[2 + j] = p[j] BY <1>1, <1>3
  <2> QED BY <2>1, Zenon DEF At
<1>6. s \in Seq(R) /\ Len(s) = 2 + Len(p) /\ s[1] = a /\ s[2] = Blank
  BY <1>1, <1>3, <1>4
<1> QED BY <1>5, <1>6, Zenon DEF Behind

(* The same of an address in brackets.                                     *)
LEMMA AddressWritten ==
  ASSUME NEW R, NEW a \in R, NEW c \in R, NEW p \in Seq(R), NEW s,
         Blank \in R, "<" \in R, ">" \in R,
         s = <<a, Blank, c, Blank, "<">> \o p \o <<">">>
  PROVE  s \in Seq(R) /\ Bracketed(s, a, c, p)
<1> DEFINE e == "<"
           f == ">"
<1> HIDE DEF e, f
<1>1. e \in R /\ f \in R BY DEF e, f
<1> DEFINE h == <<a, Blank, c, Blank, e>>
           t == <<f>>
<1>2. /\ h \in Seq(R) /\ Len(h) = 5
      /\ h[1] = a /\ h[2] = Blank /\ h[3] = c /\ h[4] = Blank /\ h[5] = e
  BY <1>1
<1>3. t \in Seq(R) /\ Len(t) = 1 /\ t[1] = f BY <1>1
<1> DEFINE g == h \o p
<1>4. s = g \o t BY Zenon DEF e, f
<1> HIDE DEF h, t
<1>5. p \in Seq(R) /\ h \in Seq(R) /\ t \in Seq(R) BY <1>2, <1>3
<1>6. /\ g \in Seq(R) /\ Len(g) = Len(h) + Len(p) /\ Len(p) \in Nat
      /\ \A i \in 1 .. Len(h) : g[i] = h[i]
      /\ \A j \in 1 .. Len(p) : g[Len(h) + j] = p[j]
  BY ONLY <1>5, ConcatFacts
<1> HIDE DEF g
<1>7. /\ s \in Seq(R) /\ Len(s) = Len(g) + Len(t)
      /\ \A i \in 1 .. Len(g) : s[i] = g[i]
      /\ \A i \in 1 .. Len(t) : s[Len(g) + i] = t[i]
  <2>1. g \in Seq(R) BY <1>6
  <2> QED BY ONLY <1>5, <1>4, <2>1, ConcatFacts
<1>8. ASSUME NEW i \in 1 .. 5 PROVE s[i] = h[i]
  <2>1. i \in 1 .. Len(h) /\ i \in 1 .. Len(g) BY <1>2, <1>6
  <2> QED BY <1>6, <1>7, <2>1
<1>9. s[1] = a /\ s[2] = Blank /\ s[3] = c /\ s[4] = Blank /\ s[5] = e BY <1>2, <1>8
<1>10. ASSUME NEW j \in 1 .. Len(p) PROVE s[5 + j] = p[j]
  <2>1. 5 + j \in 1 .. Len(g) BY <1>2, <1>6
  <2> QED BY <1>2, <1>6, <1>7, <2>1
<1>11. At(s, 5, p) BY <1>10, Zenon DEF At
<1>12. Len(s) = 6 + Len(p) BY <1>2, <1>3, <1>6, <1>7
<1>13. s[6 + Len(p)] = f
  <2>1. 1 \in 1 .. Len(t) /\ Len(g) + 1 = 6 + Len(p) BY <1>2, <1>3, <1>6
  <2> QED BY <1>3, <1>7, <2>1
<1> QED BY <1>7, <1>9, <1>11, <1>12, <1>13, Zenon DEF Bracketed, e, f

(* How the commands are written out.                                       *)
LEMMA Shown ==
  ASSUME NEW p
  PROVE  /\ ShowCommand([cmd |-> "helo", parameter |-> p]) = <<"helo", Blank>> \o p
         /\ ShowCommand([cmd |-> "auth", parameter |-> p]) = <<"auth", Blank>> \o p
         /\ ShowCommand([cmd |-> "mail", parameter |-> p])
              = <<"mail", Blank, "from:", Blank, "<">> \o p \o <<">">>
         /\ ShowCommand([cmd |-> "rcpt", parameter |-> p])
              = <<"rcpt", Blank, "to:", Blank, "<">> \o p \o <<">">>
         /\ ShowCommand([cmd |-> "quit", parameter |-> p]) = <<"quit">>
BY DEF ShowCommand

(* The signs of a command and those of its shape.                          *)
Signs(S) == S \cup {"helo", "mail", "rcpt", "auth", "quit", Blank, "from:", "to:", "<", ">"}

(* A command that is written out and read again is the same.               *)
LEMMA CommandReread ==
  ASSUME NEW S, NEW l \in Seq(S)
  PROVE  LET c == ReadCommand(l)
         IN  c = InvalidCommand \/ Contains(c.parameter, ">")
             \/ ReadCommand(ShowCommand(c)) = c
<1> DEFINE c == ReadCommand(l)
           R == Signs(S)
           w == WordEnd(l, 1, Blank)
           i == Skip(l, w)
<1>1. \A x \in Seq(S) : x \in Seq(R) BY DEF Signs
<1>2. {"helo", "mail", "rcpt", "auth", Blank, "from:", "to:", "<", ">"} \subseteq R BY DEF Signs
<1>3. w \in Nat \ {0}
  <2>1. 1 \in Nat \ {0} OBVIOUS
  <2>2. w \in 1 .. Len(l) + 1
    <3> HIDE DEF w
    <3> QED BY <2>1, WordEndFacts DEF w
  <2> QED BY <2>2
<1>4. i \in 1 .. Len(l) + 1 /\ (i <= Len(l) => l[i] # Blank)
  <2> HIDE DEF w
  <2> QED BY <1>3, SkipFacts
<1> HIDE DEF R
<1>5. ASSUME NEW k \in 1 .. Len(l), l[k] # Blank
      PROVE  /\ Word(l, k) \in Seq(R) /\ Len(Word(l, k)) >= 1
             /\ Free(Word(l, k), Blank)
  BY <1>1, <1>5, WordFacts
<1>6. CASE Word(l, 1) = <<"helo">>
  <2>1. c = Greeting(l) BY <1>6, Dispatch, Zenon
  <2> SUFFICES ASSUME c # InvalidCommand PROVE ReadCommand(ShowCommand(c)) = c OBVIOUS
  <2> DEFINE p == Word(l, i)
  <2>2. i <= Len(l) /\ c = [cmd |-> "helo", parameter |-> p] BY <2>1, Zenon DEF Greeting
  <2>3. i \in 1 .. Len(l) /\ l[i] # Blank BY <1>4, <2>2
  <2>4. p \in Seq(R) /\ Len(p) >= 1 /\ Free(p, Blank)
    BY <1>5, <2>3, Zenon
  <2> DEFINE s == <<"helo", Blank>> \o p
  <2> HIDE DEF p
  <2>5. ShowCommand(c) = s BY <2>2, Shown, Zenon
  <2>6. "helo" \in R /\ Blank \in R BY <1>2
  <2>7. s \in Seq(R) /\ Behind(s, "helo", p) BY <2>4, <2>6, ParameterWritten, Zenon
  <2> HIDE DEF s
  <2>8. ReadCommand(s) = [cmd |-> "helo", parameter |-> p]
    BY <2>4, <2>7, GreetingReread, Zenon
  <2> QED BY <2>2, <2>5, <2>8, Zenon
<1>7. ASSUME NEW cmd \in {"mail", "rcpt"}, NEW key \in {"from:", "to:"},
             c = Address(l, cmd, key), c # InvalidCommand, ~Contains(c.parameter, ">")
      PROVE  \E p \in Seq(R) :
               /\ c = [cmd |-> cmd, parameter |-> p]
               /\ LET s == <<cmd, Blank, key, Blank, "<">> \o p \o <<">">>
                  IN  Word(s, 1) = <<cmd>> /\ Address(s, cmd, key) = c
  <2> DEFINE k == Skip(l, WordEnd(l, 1, Blank))
             a == Skip(l, k + 1)
             bracketed == Sees(l, a, "<")
             first == IF bracketed THEN a + 1 ELSE a
             sign == IF bracketed THEN ">" ELSE Blank
             end == WordEnd(l, first, sign)
             p == SubSeq(l, first, end - 1)
  <2>1. c = [cmd |-> cmd, parameter |-> p]
    BY <1>7, Zenon DEF Address
  <2>2. k \in Nat BY <1>4
  <2>3. a \in Nat \ {0}
    <3> HIDE DEF k
    <3>1. k + 1 \in Nat \ {0} BY <2>2
    <3>2. a \in 1 .. Len(l) + 1 BY <3>1, SkipFacts
    <3> QED BY <3>2
  <2> HIDE DEF a
  <2>4. first \in Nat \ {0} BY <2>3
  <2> HIDE DEF first
  <2>5. end \in 1 .. Len(l) + 1
    <3> HIDE DEF sign
    <3> QED BY <2>4, WordEndFacts
  <2> HIDE DEF end
  <2>6. p \in Seq(R)
    <3>1. first \in Int /\ end - 1 \in Int /\ \A j \in first .. end - 1 : l[j] \in S BY <2>4, <2>5
    <3> DEFINE m == end - 1
    <3>2. m \in Int /\ \A j \in first .. m : l[j] \in S BY <3>1
    <3> HIDE DEF m
    <3>3. SubSeq(l, first, m) \in Seq(S) BY <3>1, <3>2, SubSeqProperties
    <3> QED BY <1>1, <3>3 DEF m
  <2> HIDE DEF p
  <2>7. Free(p, ">") BY <1>7, <2>1 DEF Contains, Free
  <2> DEFINE s == <<cmd, Blank, key, Blank, "<">> \o p \o <<">">>
  <2>8. cmd \in R /\ Blank \in R /\ key \in R /\ "<" \in R /\ ">" \in R BY <1>2
  <2>9. s \in Seq(R) /\ Bracketed(s, cmd, key, p)
    BY <2>6, <2>8, AddressWritten, Zenon
  <2>10. cmd # Blank /\ key # Blank
    <3>1. "mail" # Blank /\ "rcpt" # Blank /\ "from:" # Blank /\ "to:" # Blank
      BY Zenon DEF Blank
    <3> QED BY <3>1
  <2> HIDE DEF s
  <2>11. Word(s, 1) = <<cmd>> /\ Address(s, cmd, key) = [cmd |-> cmd, parameter |-> p]
    <3>1. s \in Seq(R) BY <2>9, Zenon
    <3>2. Bracketed(s, cmd, key, p) BY <2>9, Zenon
    <3>3. cmd # Blank BY <2>10, Zenon
    <3>4. key # Blank BY <2>10, Zenon
    <3> QED BY ONLY <2>6, <2>7, <3>1, <3>2, <3>3, <3>4, AddressReread
  <2> QED BY <2>1, <2>6, <2>11, Zenon DEF s
<1>8. CASE Word(l, 1) = <<"mail">>
  <2>1. c = Address(l, "mail", "from:") BY <1>8, Dispatch, Zenon
  <2> SUFFICES ASSUME c # InvalidCommand, ~Contains(c.parameter, ">")
               PROVE  ReadCommand(ShowCommand(c)) = c
    OBVIOUS
  <2> HIDE DEF c
  <2>2. PICK p \in Seq(R) :
          /\ c = [cmd |-> "mail", parameter |-> p]
          /\ LET s == <<"mail", Blank, "from:", Blank, "<">> \o p \o <<">">>
             IN  Word(s, 1) = <<"mail">> /\ Address(s, "mail", "from:") = c
    <3>1. "mail" \in {"mail", "rcpt"} /\ "from:" \in {"from:", "to:"} OBVIOUS
    <3> QED BY <1>7, <2>1, <3>1, Zenon
  <2> QED BY <2>2, Shown, Dispatch, Zenon
<1>9. CASE Word(l, 1) = <<"rcpt">>
  <2>1. c = Address(l, "rcpt", "to:") BY <1>9, Dispatch, Zenon
  <2> SUFFICES ASSUME c # InvalidCommand, ~Contains(c.parameter, ">")
               PROVE  ReadCommand(ShowCommand(c)) = c
    OBVIOUS
  <2> HIDE DEF c
  <2>2. PICK p \in Seq(R) :
          /\ c = [cmd |-> "rcpt", parameter |-> p]
          /\ LET s == <<"rcpt", Blank, "to:", Blank, "<">> \o p \o <<">">>
             IN  Word(s, 1) = <<"rcpt">> /\ Address(s, "rcpt", "to:") = c
    <3>1. "rcpt" \in {"mail", "rcpt"} /\ "to:" \in {"from:", "to:"} OBVIOUS
    <3> QED BY <1>7, <2>1, <3>1, Zenon
  <2> QED BY <2>2, Shown, Dispatch, Zenon
<1>10. CASE Word(l, 1) = <<"auth">>
  <2>1. c = Auth(l) BY <1>10, Dispatch, Zenon
  <2> SUFFICES ASSUME c # InvalidCommand PROVE ReadCommand(ShowCommand(c)) = c OBVIOUS
  <2> DEFINE end == WordEnd(l, i, Blank)
             k == Skip(l, end)
             p == Word(l, i)
             q == Word(l, k)
  <2>2. /\ ~(i > Len(l))
        /\ \/ c = [cmd |-> "auth", parameter |-> p]
           \/ k <= Len(l) /\ c = [cmd |-> "auth", parameter |-> p \o <<Blank>> \o q]
    BY <2>1, Zenon DEF Auth
  <2>3. i \in 1 .. Len(l) /\ l[i] # Blank
    <3> HIDE DEF i
    <3> QED BY <1>4, <2>2
  <2>4. p \in Seq(R) /\ Len(p) >= 1 /\ Free(p, Blank)
    BY <1>5, <2>3, Zenon
  <2>5. "auth" \in R /\ Blank \in R BY <1>2
  <2>6. CASE c = [cmd |-> "auth", parameter |-> p]
    <3> DEFINE s == <<"auth", Blank>> \o p
    <3> HIDE DEF p
    <3>1. ShowCommand(c) = s BY <2>6, Shown, Zenon
    <3>2. s \in Seq(R) /\ Behind(s, "auth", p) BY <2>4, <2>5, ParameterWritten, Zenon
    <3> HIDE DEF s
    <3>3. ReadCommand(s) = [cmd |-> "auth", parameter |-> p]
      BY <2>4, <3>2, AuthReread, Zenon
    <3> QED BY <2>6, <3>1, <3>3, Zenon
  <2>7. CASE k <= Len(l) /\ c = [cmd |-> "auth", parameter |-> p \o <<Blank>> \o q]
    <3>1. end \in Nat \ {0}
      <4>1. i \in Nat \ {0}
        <5> HIDE DEF i
        <5> QED BY <1>4
      <4>2. end \in 1 .. Len(l) + 1
        <5> HIDE DEF i
        <5> QED BY <4>1, WordEndFacts
      <4> HIDE DEF end
      <4> QED BY <4>2
    <3>2. k \in 1 .. Len(l) /\ l[k] # Blank
      <4> HIDE DEF end
      <4>1. k \in 1 .. Len(l) + 1 /\ (k <= Len(l) => l[k] # Blank) BY <3>1, SkipFacts
      <4> HIDE DEF k
      <4> QED BY <2>7, <4>1
    <3>3. q \in Seq(R) /\ Len(q) >= 1 /\ Free(q, Blank)
      BY <1>5, <3>2, Zenon
    <3> HIDE DEF p, q
    <3> DEFINE t == p \o <<Blank>> \o q
               s == <<"auth", Blank>> \o t
    <3>4. /\ t \in Seq(R) /\ Len(t) = Len(p) + 1 + Len(q)
          /\ \A j \in 1 .. Len(p) : t[j] = p[j]
          /\ t[Len(p) + 1] = Blank
          /\ \A j \in 1 .. Len(q) : t[Len(p) + 1 + j] = q[j]
      <4> DEFINE b == <<Blank>>
                 g == p \o b
      <4>1. b \in Seq(R) /\ Len(b) = 1 /\ b[1] = Blank BY <2>5
      <4> HIDE DEF b
      <4>2. /\ g \in Seq(R) /\ Len(g) = Len(p) + 1 /\ \A j \in 1 .. Len(p) : g[j] = p[j]
            /\ g[Len(p) + 1] = Blank
        <5>1. /\ Len(g) = Len(p) + Len(b) /\ g \in Seq(R)
              /\ \A j \in 1 .. Len(p) : g[j] = p[j]
              /\ \A j \in 1 .. Len(b) : g[Len(p) + j] = b[j]
          <6>1. p \in Seq(R) /\ b \in Seq(R) BY <2>4, <4>1
          <6> QED BY ONLY <6>1, ConcatFacts
        <5>2. 1 \in 1 .. Len(b) BY <4>1
        <5> QED BY <4>1, <5>1, <5>2, Zenon
      <4>3. Len(p) \in Nat /\ Len(q) \in Nat BY <2>4, <3>3
      <4> HIDE DEF g
      <4>4. /\ g \o q \in Seq(R) /\ Len(g \o q) = Len(g) + Len(q)
            /\ \A j \in 1 .. Len(g) : (g \o q)[j] = g[j]
            /\ \A j \in 1 .. Len(q) : (g \o q)[Len(g) + j] = q[j]
        <5>1. g \in Seq(R) /\ q \in Seq(R) BY <3>3, <4>2
        <5> QED BY ONLY <5>1, ConcatFacts
      <4>5. Len(p) + 1 \in 1 .. Len(g) /\ \A j \in 1 .. Len(p) : j \in 1 .. Len(g)
        BY <4>2, <4>3
      <4> QED BY <4>2, <4>4, <4>5, Zenon DEF g, b
    <3> HIDE DEF t
    <3>5. ShowCommand(c) = s BY <2>7, Shown, Zenon DEF t
    <3>6. s \in Seq(R) /\ Behind(s, "auth", t) BY <2>5, <3>4, ParameterWritten, Zenon
    <3>7. Len(s) = 2 + Len(t) /\ s[1] = "auth" /\ s[2] = Blank /\ At(s, 2, t)
      BY <3>6, Zenon DEF Behind
    <3> HIDE DEF s
    <3>8. Len(p) \in Nat /\ Len(q) \in Nat BY <2>4, <3>3
    <3>9. Len(s) = 3 + Len(p) + Len(q) BY <3>4, <3>7, <3>8
    <3>10. s[3 + Len(p)] = Blank
      <4>1. Len(p) + 1 \in 1 .. Len(t) /\ 2 + (Len(p) + 1) = 3 + Len(p) BY <3>4, <3>8
      <4>2. s[2 + (Len(p) + 1)] = t[Len(p) + 1] BY <3>7, <4>1, Zenon DEF At
      <4> QED BY <3>4, <4>1, <4>2
    <3>11. ASSUME NEW j \in 1 .. Len(p) PROVE s[2 + j] = p[j]
      <4>1. j \in 1 .. Len(t) BY <3>4, <3>8
      <4> QED BY <3>4, <3>7, <4>1, Zenon DEF At
    <3>12. ASSUME NEW j \in 1 .. Len(q) PROVE s[3 + Len(p) + j] = q[j]
      <4>1. Len(p) + 1 + j \in 1 .. Len(t) /\ 2 + (Len(p) + 1 + j) = 3 + Len(p) + j
        BY <3>4, <3>8
      <4>2. s[2 + (Len(p) + 1 + j)] = t[Len(p) + 1 + j] BY <3>7, <4>1, Zenon DEF At
      <4> QED BY <3>4, <4>1, <4>2, Zenon
    <3>13. At(s, 2, p) /\ At(s, 3 + Len(p), q) BY <3>11, <3>12, Zenon DEF At
    <3>14. ReadCommand(s) = [cmd |-> "auth", parameter |-> p \o <<Blank>> \o q]
      BY <2>4, <3>3, <3>6, <3>7, <3>9, <3>10, <3>13, AuthInitialReread
    <3> QED BY <2>7, <3>5, <3>14, Zenon
  <2> QED BY <2>2, <2>6, <2>7, Zenon
<1>11. CASE Word(l, 1) = <<"quit">>
  <2>1. c = Plain(l) BY <1>11, Dispatch, Zenon
  <2>2. c = InvalidCommand \/ c = [cmd |-> "quit", parameter |-> <<>>]
    BY <2>1, Zenon DEF Plain
  <2> QED BY <2>2, Shown, PlainReread, Zenon
<1>12. CASE Word(l, 1) \notin {<<"helo">>, <<"mail">>, <<"rcpt">>, <<"auth">>, <<"quit">>}
  BY <1>12, Dispatch, Zenon
<1> QED BY <1>6, <1>8, <1>9, <1>10, <1>11, <1>12, Zenon

(* A command that is handed on is the one that spey judged, for commands   *)
(* of any length.                                                          *)
THEOREM CommandsAreHandedOn == Spec => []CommandHandedOn
<1>1. TypeOK => CommandHandedOn
  <2> SUFFICES ASSUME TypeOK, kind = "command" PROVE CommandHandedOn
    BY Zenon DEF CommandHandedOn
  <2>1. input \in Seq(Sendable) BY Zenon DEF TypeOK
  <2> QED BY <2>1, CommandReread, Zenon DEF CommandHandedOn
<1> QED BY <1>1, TypeCorrect, PTL
=============================================================================
