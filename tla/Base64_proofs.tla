---------------------------- MODULE Base64_proofs ----------------------------
(***************************************************************************)
(* Theorems about Wire's base64: what is encoded and decoded has the bits  *)
(* of what it is made of, and credentials come out as they were put in.    *)
(***************************************************************************)
EXTENDS Wire_proofs, FiniteSetTheorems

(* Three octets as four numbers of six bits, and the other way round.      *)
Sixes(a, b, c) == <<a \div 4, (a % 4) * 16 + b \div 16, (b % 16) * 4 + c \div 64, c % 64>>
Eights(d, e, f, g) == <<d * 4 + e \div 16, (e % 16) * 16 + f \div 4, (f % 4) * 64 + g>>

(* The halves of an octet.                                                 *)
LEMMA Halves ==
  ASSUME NEW a \in Octet
  PROVE  /\ a = 4 * (a \div 4) + (a % 4) /\ a % 4 \in 0 .. 3 /\ a \div 4 \in 0 .. 63
         /\ a = 16 * (a \div 16) + (a % 16) /\ a % 16 \in 0 .. 15 /\ a \div 16 \in 0 .. 15
         /\ a = 64 * (a \div 64) + (a % 64) /\ a % 64 \in 0 .. 63 /\ a \div 64 \in 0 .. 3
<1> USE DEF Octet
<1>1. a = 4 * (a \div 4) + (a % 4) /\ a % 4 \in 0 .. 3 /\ a \div 4 \in 0 .. 63 OBVIOUS
<1>2. a = 16 * (a \div 16) + (a % 16) /\ a % 16 \in 0 .. 15 /\ a \div 16 \in 0 .. 15 OBVIOUS
<1>3. a = 64 * (a \div 64) + (a % 64) /\ a % 64 \in 0 .. 63 /\ a \div 64 \in 0 .. 3 OBVIOUS
<1> QED BY <1>1, <1>2, <1>3

(* The number that base64_encode() makes of three octets, in sixes.        *)
LEMMA SixesOf ==
  ASSUME NEW a \in Octet, NEW b \in Octet, NEW c \in Octet, NEW n, n = a * 65536 + b * 256 + c
  PROVE  /\ (n \div 262144) % 64 = a \div 4
         /\ (n \div 4096) % 64 = (a % 4) * 16 + b \div 16
         /\ (n \div 64) % 64 = (b % 16) * 4 + c \div 64
         /\ n % 64 = c % 64
<1> USE DEF Octet
<1>1. n \div 262144 = a \div 4 OBVIOUS
<1>2. (a \div 4) % 64 = a \div 4 OBVIOUS
<1>3. n \div 4096 = a * 16 + b \div 16 OBVIOUS
<1>4. (a * 16 + b \div 16) % 64 = (a % 4) * 16 + b \div 16
  <2>1. /\ a = 4 * (a \div 4) + (a % 4) /\ a % 4 \in 0 .. 3 /\ b \div 16 \in 0 .. 15
        /\ a \div 4 \in 0 .. 63
    <3>1. a \in Octet /\ b \in Octet OBVIOUS
    <3> QED BY ONLY <3>1, Halves
  <2> DEFINE x == a \div 4
             y == a % 4
             z == b \div 16
  <2>2. x \in Nat /\ y \in 0 .. 3 /\ z \in 0 .. 15 /\ a = 4 * x + y BY <2>1
  <2> HIDE DEF x, y, z
  <2>3. (a * 16 + z) % 64 = y * 16 + z BY <2>2
  <2> QED BY <2>3 DEF y, z
<1>5. (n \div 64) % 64 = (b % 16) * 4 + c \div 64
  <2>1. n \div 64 = a * 1024 + b * 4 + c \div 64 OBVIOUS
  <2>2. /\ b = 16 * (b \div 16) + (b % 16) /\ b % 16 \in 0 .. 15
        /\ b \div 16 \in 0 .. 15 /\ c \div 64 \in 0 .. 3
    <3>1. b \in Octet /\ c \in Octet OBVIOUS
    <3> QED BY ONLY <3>1, Halves
  <2> DEFINE x == b \div 16
             y == b % 16
             z == c \div 64
  <2>3. x \in Nat /\ y \in 0 .. 15 /\ z \in 0 .. 3 /\ b = 16 * x + y BY <2>2
  <2> HIDE DEF x, y, z
  <2>4. (a * 1024 + b * 4 + z) % 64 = y * 4 + z BY <2>3
  <2> QED BY <2>1, <2>4 DEF y, z
<1>6. n % 64 = c % 64 OBVIOUS
<1> QED BY <1>1, <1>2, <1>3, <1>4, <1>5, <1>6

(* The number that base64_decode() makes of four digits, in octets.        *)
LEMMA EightsOf ==
  ASSUME NEW d \in Digit, NEW e \in Digit, NEW f \in Digit, NEW g \in Digit,
         NEW n, n = d * 262144 + e * 4096 + f * 64 + g
  PROVE  /\ n \div 65536 = d * 4 + e \div 16
         /\ (n \div 256) % 256 = (e % 16) * 16 + f \div 4
         /\ n % 256 = (f % 4) * 64 + g
<1> USE DEF Digit
<1>1. n \div 65536 = d * 4 + e \div 16 OBVIOUS
<1>2. (n \div 256) % 256 = (e % 16) * 16 + f \div 4
  <2>1. n \div 256 = d * 1024 + e * 16 + f \div 4 OBVIOUS
  <2> DEFINE x == e \div 16
             y == e % 16
             z == f \div 4
  <2>2. x \in Nat /\ y \in 0 .. 15 /\ z \in 0 .. 15 /\ e = 16 * x + y OBVIOUS
  <2> HIDE DEF x, y, z
  <2>3. (d * 1024 + e * 16 + z) % 256 = y * 16 + z BY <2>2
  <2> QED BY <2>1, <2>3 DEF y, z
<1>3. n % 256 = (f % 4) * 64 + g
  <2> DEFINE x == f \div 4
             y == f % 4
  <2>1. x \in Nat /\ y \in 0 .. 3 /\ f = 4 * x + y OBVIOUS
  <2> HIDE DEF x, y
  <2>2. n % 256 = y * 64 + g BY <2>1
  <2> QED BY <2>2 DEF y
<1> QED BY <1>1, <1>2, <1>3

(* Three octets are got back from their sixes.                             *)
LEMMA EightsOfSixes ==
  ASSUME NEW a \in Octet, NEW b \in Octet, NEW c \in Octet
  PROVE  /\ (a \div 4) * 4 + ((a % 4) * 16 + b \div 16) \div 16 = a
         /\ (((a % 4) * 16 + b \div 16) % 16) * 16 + ((b % 16) * 4 + c \div 64) \div 4 = b
         /\ (((b % 16) * 4 + c \div 64) % 4) * 64 + (c % 64) = c
         /\ a \div 4 \in Digit /\ (a % 4) * 16 + b \div 16 \in Digit
         /\ (b % 16) * 4 + c \div 64 \in Digit /\ c % 64 \in Digit
<1> USE DEF Octet, Digit
<1> DEFINE x == a \div 4
           y == a % 4
           z == b \div 16
           u == b % 16
           v == c \div 64
           w == c % 64
<1>1. /\ x \in 0 .. 63 /\ y \in 0 .. 3 /\ z \in 0 .. 15 /\ u \in 0 .. 15 /\ v \in 0 .. 3
      /\ w \in 0 .. 63 /\ a = 4 * x + y /\ b = 16 * z + u /\ c = 64 * v + w
  BY Halves
<1> HIDE DEF x, y, z, u, v, w
<1>2. (y * 16 + z) \div 16 = y /\ (y * 16 + z) % 16 = z /\ (u * 4 + v) \div 4 = u
      /\ (u * 4 + v) % 4 = v
  BY <1>1
<1>3. /\ x * 4 + (y * 16 + z) \div 16 = a
      /\ ((y * 16 + z) % 16) * 16 + (u * 4 + v) \div 4 = b
      /\ ((u * 4 + v) % 4) * 64 + w = c
      /\ x \in Digit /\ y * 16 + z \in Digit /\ u * 4 + v \in Digit /\ w \in Digit
  BY <1>1, <1>2
<1> QED BY <1>3, Zenon DEF x, y, z, u, v, w

(* And the other way round.                                                *)
LEMMA SixesOfEights ==
  ASSUME NEW d \in Digit, NEW e \in Digit, NEW f \in Digit, NEW g \in Digit
  PROVE  /\ d * 4 + e \div 16 \in Octet /\ (e % 16) * 16 + f \div 4 \in Octet
         /\ (f % 4) * 64 + g \in Octet
         /\ (d * 4 + e \div 16) \div 4 = d
         /\ ((d * 4 + e \div 16) % 4) * 16 + ((e % 16) * 16 + f \div 4) \div 16 = e
         /\ (((e % 16) * 16 + f \div 4) % 16) * 4 + ((f % 4) * 64 + g) \div 64 = f
         /\ ((f % 4) * 64 + g) % 64 = g
<1> USE DEF Octet, Digit
<1> DEFINE x == e \div 16
           y == e % 16
           z == f \div 4
           w == f % 4
<1>1. /\ x \in 0 .. 3 /\ y \in 0 .. 15 /\ z \in 0 .. 15 /\ w \in 0 .. 3
      /\ e = 16 * x + y /\ f = 4 * z + w
  OBVIOUS
<1> HIDE DEF x, y, z, w
<1>2. /\ (d * 4 + x) \div 4 = d /\ (d * 4 + x) % 4 = x
      /\ (y * 16 + z) \div 16 = y /\ (y * 16 + z) % 16 = z
      /\ (w * 64 + g) \div 64 = w /\ (w * 64 + g) % 64 = g
  BY <1>1
<1>3. /\ d * 4 + x \in Octet /\ y * 16 + z \in Octet /\ w * 64 + g \in Octet
      /\ ((d * 4 + x) % 4) * 16 + (y * 16 + z) \div 16 = e
      /\ ((y * 16 + z) % 16) * 4 + (w * 64 + g) \div 64 = f
  BY <1>1, <1>2
<1> QED BY <1>2, <1>3 DEF x, y, z, w
(* The bits of three octets are those of the four numbers.                 *)
LEMMA Bits ==
  ASSUME NEW a \in Octet, NEW b \in Octet, NEW c \in Octet,
         NEW d, d = a \div 4, NEW e, e = (a % 4) * 16 + b \div 16,
         NEW f, f = (b % 16) * 4 + c \div 64, NEW g, g = c % 64
  PROVE  /\ (d \div 32) % 2 = (a \div 128) % 2 /\ (d \div 16) % 2 = (a \div 64) % 2
         /\ (d \div 8) % 2 = (a \div 32) % 2 /\ (d \div 4) % 2 = (a \div 16) % 2
         /\ (d \div 2) % 2 = (a \div 8) % 2 /\ (d \div 1) % 2 = (a \div 4) % 2
         /\ (e \div 32) % 2 = (a \div 2) % 2 /\ (e \div 16) % 2 = (a \div 1) % 2
         /\ (e \div 8) % 2 = (b \div 128) % 2 /\ (e \div 4) % 2 = (b \div 64) % 2
         /\ (e \div 2) % 2 = (b \div 32) % 2 /\ (e \div 1) % 2 = (b \div 16) % 2
         /\ (f \div 32) % 2 = (b \div 8) % 2 /\ (f \div 16) % 2 = (b \div 4) % 2
         /\ (f \div 8) % 2 = (b \div 2) % 2 /\ (f \div 4) % 2 = (b \div 1) % 2
         /\ (f \div 2) % 2 = (c \div 128) % 2 /\ (f \div 1) % 2 = (c \div 64) % 2
         /\ (g \div 32) % 2 = (c \div 32) % 2 /\ (g \div 16) % 2 = (c \div 16) % 2
         /\ (g \div 8) % 2 = (c \div 8) % 2 /\ (g \div 4) % 2 = (c \div 4) % 2
         /\ (g \div 2) % 2 = (c \div 2) % 2 /\ (g \div 1) % 2 = (c \div 1) % 2
<1> USE DEF Octet
<1>1. (d \div 32) % 2 = (a \div 128) % 2 /\ (d \div 16) % 2 = (a \div 64) % 2
  BY SMTT(30)
<1>2. (d \div 8) % 2 = (a \div 32) % 2 /\ (d \div 4) % 2 = (a \div 16) % 2
  BY SMTT(30)
<1>3. (d \div 2) % 2 = (a \div 8) % 2 /\ (d \div 1) % 2 = (a \div 4) % 2
  BY SMTT(30)
<1>4. (e \div 32) % 2 = (a \div 2) % 2 /\ (e \div 16) % 2 = (a \div 1) % 2
  BY SMTT(30)
<1>5. (e \div 8) % 2 = (b \div 128) % 2 /\ (e \div 4) % 2 = (b \div 64) % 2
  BY SMTT(30)
<1>6. (e \div 2) % 2 = (b \div 32) % 2 /\ (e \div 1) % 2 = (b \div 16) % 2
  BY SMTT(30)
<1>7. (f \div 32) % 2 = (b \div 8) % 2 /\ (f \div 16) % 2 = (b \div 4) % 2
  BY SMTT(30)
<1>8. (f \div 8) % 2 = (b \div 2) % 2 /\ (f \div 4) % 2 = (b \div 1) % 2
  BY SMTT(30)
<1>9. (f \div 2) % 2 = (c \div 128) % 2 /\ (f \div 1) % 2 = (c \div 64) % 2
  BY SMTT(30)
<1>10. (g \div 32) % 2 = (c \div 32) % 2 /\ (g \div 16) % 2 = (c \div 16) % 2
  BY SMTT(30)
<1>11. (g \div 8) % 2 = (c \div 8) % 2 /\ (g \div 4) % 2 = (c \div 4) % 2
  BY SMTT(30)
<1>12. (g \div 2) % 2 = (c \div 2) % 2 /\ (g \div 1) % 2 = (c \div 1) % 2
  BY SMTT(30)
<1> QED BY <1>1, <1>2, <1>3, <1>4, <1>5, <1>6, <1>7, <1>8, <1>9, <1>10, <1>11, <1>12, Zenon

(* The weights of the bits of a number of six.                             *)
LEMMA Weights6 ==
  ASSUME NEW i \in 0 .. 5
  PROVE  /\ i = 0 => 2 ^ (5 - i) = 32
         /\ i = 1 => 2 ^ (5 - i) = 16
         /\ i = 2 => 2 ^ (5 - i) = 8
         /\ i = 3 => 2 ^ (5 - i) = 4
         /\ i = 4 => 2 ^ (5 - i) = 2
         /\ i = 5 => 2 ^ (5 - i) = 1
<1>1. i = 0 => 2 ^ (5 - i) = 32 OBVIOUS
<1>2. i = 1 => 2 ^ (5 - i) = 16 OBVIOUS
<1>3. i = 2 => 2 ^ (5 - i) = 8 OBVIOUS
<1>4. i = 3 => 2 ^ (5 - i) = 4 OBVIOUS
<1>5. i = 4 => 2 ^ (5 - i) = 2 OBVIOUS
<1>6. i = 5 => 2 ^ (5 - i) = 1 OBVIOUS
<1> QED BY <1>1, <1>2, <1>3, <1>4, <1>5, <1>6, Zenon

(* And of eight.                                                           *)
LEMMA Weights8 ==
  ASSUME NEW i \in 0 .. 7
  PROVE  /\ i = 0 => 2 ^ (7 - i) = 128
         /\ i = 1 => 2 ^ (7 - i) = 64
         /\ i = 2 => 2 ^ (7 - i) = 32
         /\ i = 3 => 2 ^ (7 - i) = 16
         /\ i = 4 => 2 ^ (7 - i) = 8
         /\ i = 5 => 2 ^ (7 - i) = 4
         /\ i = 6 => 2 ^ (7 - i) = 2
         /\ i = 7 => 2 ^ (7 - i) = 1
<1>1. i = 0 => 2 ^ (7 - i) = 128 OBVIOUS
<1>2. i = 1 => 2 ^ (7 - i) = 64 OBVIOUS
<1>3. i = 2 => 2 ^ (7 - i) = 32 OBVIOUS
<1>4. i = 3 => 2 ^ (7 - i) = 16 OBVIOUS
<1>5. i = 4 => 2 ^ (7 - i) = 8 OBVIOUS
<1>6. i = 5 => 2 ^ (7 - i) = 4 OBVIOUS
<1>7. i = 6 => 2 ^ (7 - i) = 2 OBVIOUS
<1>8. i = 7 => 2 ^ (7 - i) = 1 OBVIOUS
<1> QED BY <1>1, <1>2, <1>3, <1>4, <1>5, <1>6, <1>7, <1>8, Zenon

(* The bit of a weight.                                                    *)
BitAt(x, weight) == (x \div weight) % 2

(* m is three octets in four numbers of six bits.                          *)
InSixes(a, b, c, m) ==
  /\ m[1] = a \div 4 /\ m[2] = (a % 4) * 16 + b \div 16
  /\ m[3] = (b % 16) * 4 + c \div 64 /\ m[4] = c % 64

(* Bit i of number s is bit j of octet t.                                  *)
SameBit(m, s, i, o, t, j) == BitAt(m[s + 1], 2 ^ (5 - i)) = BitAt(o[t + 1], 2 ^ (7 - j))

(* Bit r of three octets is bit r of the four numbers.                     *)
LEMMA GroupBits ==
  ASSUME NEW a \in Octet, NEW b \in Octet, NEW c \in Octet, NEW r \in 0 .. 23,
         NEW m, InSixes(a, b, c, m), NEW o, o = <<a, b, c>>,
         NEW s, s = r \div 6, NEW t, t = r \div 8, NEW i, i = r % 6, NEW j, j = r % 8
  PROVE  SameBit(m, s, i, o, t, j)
<1> DEFINE d == m[1]
           e == m[2]
           f == m[3]
           g == m[4]
           y == 2 ^ (5 - i)
           z == 2 ^ (7 - j)
           u == m[s + 1]
           v == o[t + 1]
<1>1. /\ d = a \div 4 /\ e = (a % 4) * 16 + b \div 16
      /\ f = (b % 16) * 4 + c \div 64 /\ g = c % 64
      /\ o[1] = a /\ o[2] = b /\ o[3] = c
  BY DEF InSixes
<1>2. /\ BitAt(d, 32) = BitAt(a, 128) /\ BitAt(d, 16) = BitAt(a, 64)
      /\ BitAt(d, 8) = BitAt(a, 32) /\ BitAt(d, 4) = BitAt(a, 16)
      /\ BitAt(d, 2) = BitAt(a, 8) /\ BitAt(d, 1) = BitAt(a, 4)
      /\ BitAt(e, 32) = BitAt(a, 2) /\ BitAt(e, 16) = BitAt(a, 1)
      /\ BitAt(e, 8) = BitAt(b, 128) /\ BitAt(e, 4) = BitAt(b, 64)
      /\ BitAt(e, 2) = BitAt(b, 32) /\ BitAt(e, 1) = BitAt(b, 16)
      /\ BitAt(f, 32) = BitAt(b, 8) /\ BitAt(f, 16) = BitAt(b, 4)
      /\ BitAt(f, 8) = BitAt(b, 2) /\ BitAt(f, 4) = BitAt(b, 1)
      /\ BitAt(f, 2) = BitAt(c, 128) /\ BitAt(f, 1) = BitAt(c, 64)
      /\ BitAt(g, 32) = BitAt(c, 32) /\ BitAt(g, 16) = BitAt(c, 16)
      /\ BitAt(g, 8) = BitAt(c, 8) /\ BitAt(g, 4) = BitAt(c, 4)
      /\ BitAt(g, 2) = BitAt(c, 2) /\ BitAt(g, 1) = BitAt(c, 1)
  BY <1>1, Bits DEF BitAt
<1>3. i \in 0 .. 5 /\ j \in 0 .. 7 OBVIOUS
<1>4. /\ i = 0 => y = 32
      /\ i = 1 => y = 16
      /\ i = 2 => y = 8
      /\ i = 3 => y = 4
      /\ i = 4 => y = 2
      /\ i = 5 => y = 1
  BY <1>3, Weights6, Zenon
<1>5. /\ j = 0 => z = 128
      /\ j = 1 => z = 64
      /\ j = 2 => z = 32
      /\ j = 3 => z = 16
      /\ j = 4 => z = 8
      /\ j = 5 => z = 4
      /\ j = 6 => z = 2
      /\ j = 7 => z = 1
  BY <1>3, Weights8, Zenon
<1> HIDE DEF y, z
<1> SUFFICES BitAt(u, y) = BitAt(v, z) BY Zenon DEF SameBit, y, z
<1>6. CASE r \in 0 .. 5
  <2>1. s + 1 = 1 /\ t + 1 = 1 /\ i = r /\ j = r BY <1>6
  <2>2. u = d /\ v = a BY <1>1, <2>1
  <2> HIDE DEF d, u, v
  <2> QED BY <1>2, <1>4, <1>5, <1>6, <2>1, <2>2
<1>7. CASE r \in 6 .. 7
  <2>1. s + 1 = 2 /\ t + 1 = 1 /\ i = r - 6 /\ j = r BY <1>7
  <2>2. u = e /\ v = a BY <1>1, <2>1
  <2> HIDE DEF e, u, v
  <2> QED BY <1>2, <1>4, <1>5, <1>7, <2>1, <2>2
<1>8. CASE r \in 8 .. 11
  <2>1. s + 1 = 2 /\ t + 1 = 2 /\ i = r - 6 /\ j = r - 8 BY <1>8
  <2>2. u = e /\ v = b BY <1>1, <2>1
  <2> HIDE DEF e, u, v
  <2> QED BY <1>2, <1>4, <1>5, <1>8, <2>1, <2>2
<1>9. CASE r \in 12 .. 15
  <2>1. s + 1 = 3 /\ t + 1 = 2 /\ i = r - 12 /\ j = r - 8 BY <1>9
  <2>2. u = f /\ v = b BY <1>1, <2>1
  <2> HIDE DEF f, u, v
  <2> QED BY <1>2, <1>4, <1>5, <1>9, <2>1, <2>2
<1>10. CASE r \in 16 .. 17
  <2>1. s + 1 = 3 /\ t + 1 = 3 /\ i = r - 12 /\ j = r - 16 BY <1>10
  <2>2. u = f /\ v = c BY <1>1, <2>1
  <2> HIDE DEF f, u, v
  <2> QED BY <1>2, <1>4, <1>5, <1>10, <2>1, <2>2
<1>11. CASE r \in 18 .. 23
  <2>1. s + 1 = 4 /\ t + 1 = 3 /\ i = r - 18 /\ j = r - 16 BY <1>11
  <2>2. u = g /\ v = c BY <1>1, <2>1
  <2> HIDE DEF g, u, v
  <2> QED BY <1>2, <1>4, <1>5, <1>11, <2>1, <2>2
<1> QED BY <1>6, <1>7, <1>8, <1>9, <1>10, <1>11

(* A sequence of four.                                                     *)
LEMMA Four ==
  ASSUME NEW S, NEW v \in S, NEW w \in S, NEW p \in S, NEW q \in S, NEW e,
         e = <<v, w, p, q>>
  PROVE  e \in Seq(S) /\ Len(e) = 4 /\ e[1] = v /\ e[2] = w /\ e[3] = p /\ e[4] = q
OBVIOUS

(* What base64_encode() makes of a group.                                  *)
LEMMA GroupFacts ==
  ASSUME NEW data \in Seq(Octet), NEW h \in Nat, 3 * h < Len(data),
         NEW a, a = data[3 * h + 1], NEW b, b = OctetAt(data, 3 * h + 2),
         NEW c, c = OctetAt(data, 3 * h + 3), NEW e, e = EncodeGroup(data, 3 * h + 1)
  PROVE  /\ a \in Octet /\ b \in Octet /\ c \in Octet
         /\ e \in Seq(Digit \cup {Pad}) /\ Len(e) = 4
         /\ e[1] = a \div 4 /\ e[2] = (a % 4) * 16 + b \div 16
         /\ e[3] = IF 3 * h + 2 > Len(data) THEN Pad ELSE (b % 16) * 4 + c \div 64
         /\ e[4] = IF 3 * h + 3 > Len(data) THEN Pad ELSE c % 64
         /\ 3 * h + 2 > Len(data) => b = 0
         /\ 3 * h + 3 > Len(data) => c = 0
<1> DEFINE i == 3 * h + 1
<1>1. /\ i \in 1 .. Len(data) /\ 0 \in Octet /\ i + 1 = 3 * h + 2 /\ i + 2 = 3 * h + 3
      /\ i \in Nat /\ Len(data) \in Nat
  BY DEF Octet
<1>2. \A j \in 1 .. Len(data) : data[j] \in Octet OBVIOUS
<1>3. /\ a = data[i] /\ b = OctetAt(data, i + 1) /\ c = OctetAt(data, i + 2)
      /\ e = EncodeGroup(data, i)
  BY <1>1
<1> HIDE DEF i
<1>4. a \in Octet BY <1>1, <1>2, <1>3
<1>5. b \in Octet /\ (i + 1 > Len(data) => b = 0)
  BY <1>1, <1>2, <1>3 DEF OctetAt
<1>6. c \in Octet /\ (i + 2 > Len(data) => c = 0)
  BY <1>1, <1>2, <1>3 DEF OctetAt
<1> DEFINE s == (b % 16) * 4 + c \div 64
           t == c % 64
           v == a \div 4
           w == (a % 4) * 16 + b \div 16
           p == IF i + 1 > Len(data) THEN Pad ELSE s
           q == IF i + 2 > Len(data) THEN Pad ELSE t
<1>7. ASSUME NEW n, n = a * 65536 + b * 256 + c
      PROVE  /\ (n \div 262144) % 64 = v /\ (n \div 4096) % 64 = w
             /\ (n \div 64) % 64 = s /\ n % 64 = t
  <2> QED BY ONLY <1>4, <1>5, <1>6, <1>7, SixesOf, SMT
<1>8. e = <<v, w, p, q>>
  <2>1. e = << ((a * 65536 + b * 256 + c) \div 262144) % 64,
               ((a * 65536 + b * 256 + c) \div 4096) % 64,
               IF i + 1 > Len(data) THEN Pad
               ELSE ((a * 65536 + b * 256 + c) \div 64) % 64,
               IF i + 2 > Len(data) THEN Pad
               ELSE (a * 65536 + b * 256 + c) % 64 >>
    BY <1>3, SMT DEF EncodeGroup
  <2> HIDE DEF s, t, v, w
  <2> QED BY <1>7, <2>1, SMT
<1>9. v \in Digit /\ w \in Digit /\ s \in Digit /\ t \in Digit
  BY ONLY <1>4, <1>5, <1>6, EightsOfSixes
<1> HIDE DEF s, t, v, w
<1>10. v \in Digit \cup {Pad} /\ w \in Digit \cup {Pad} /\ p \in Digit \cup {Pad}
       /\ q \in Digit \cup {Pad}
  BY <1>9
<1>11. /\ e \in Seq(Digit \cup {Pad}) /\ Len(e) = 4
       /\ e[1] = v /\ e[2] = w /\ e[3] = p /\ e[4] = q
  <2> HIDE DEF p, q
  <2> DEFINE S == Digit \cup {Pad}
  <2>1. v \in S /\ w \in S /\ p \in S /\ q \in S BY <1>10
  <2> HIDE DEF S
  <2>2. e \in Seq(S) /\ Len(e) = 4 /\ e[1] = v /\ e[2] = w /\ e[3] = p /\ e[4] = q
    <3>1. e = <<v, w, p, q>> BY <1>8
    <3>2. v \in S BY <2>1
    <3>3. w \in S BY <2>1
    <3>4. p \in S BY <2>1
    <3>5. q \in S BY <2>1
    <3> QED BY ONLY <3>1, <3>2, <3>3, <3>4, <3>5, Four, SMT
  <2> QED BY <2>2 DEF S
<1> QED BY <1>1, <1>4, <1>5, <1>6, <1>11, Zenon DEF s, t, v, w

(* base64_encode(), group by group.                                        *)
LEMMA EncodeFacts ==
  ASSUME NEW data \in Seq(Octet), NEW text, text = Encode(data)
  PROVE  /\ text \in Seq(Digit \cup {Pad})
         /\ Len(text) = 4 * ((Len(data) + 2) \div 3)
         /\ \A h \in Nat : 3 * h < Len(data) =>
              \A k \in 1 .. 4 : text[4 * h + k] = EncodeGroup(data, 3 * h + 1)[k]
<1> DEFINE S == Digit \cup {Pad}
           m == (Len(data) + 2) \div 3
           G == [g \in 1 .. m |-> EncodeGroup(data, 3 * g - 2)]
<1>1. m \in Nat /\ \A h \in Nat : 3 * h < Len(data) <=> h + 1 \in 1 .. m
  <2>1. Len(data) \in Nat OBVIOUS
  <2> DEFINE n == Len(data)
  <2> HIDE DEF n
  <2>2. n \in Nat BY <2>1 DEF n
  <2>3. (n + 2) \div 3 \in Nat /\ \A h \in Nat : 3 * h < n <=> h + 1 \in 1 .. (n + 2) \div 3
    BY ONLY <2>2
  <2> QED BY <2>3, Zenon DEF n
<1> HIDE DEF m
<1>2. ASSUME NEW h \in Nat, 3 * h < Len(data)
      PROVE  EncodeGroup(data, 3 * h + 1) \in Seq(S) /\ Len(EncodeGroup(data, 3 * h + 1)) = 4
  BY ONLY <1>2, data \in Seq(Octet), h \in Nat, GroupFacts, SMT
<1>3. ASSUME NEW g \in 1 .. m
      PROVE  G[g] = EncodeGroup(data, 3 * (g - 1) + 1) /\ G[g] \in Seq(S) /\ Len(G[g]) = 4
  <2>1. g - 1 \in Nat /\ (g - 1) + 1 \in 1 .. m /\ 3 * g - 2 = 3 * (g - 1) + 1
    BY <1>1
  <2>2. 3 * (g - 1) < Len(data) BY <1>1, <2>1, Zenon
  <2>3. G[g] = EncodeGroup(data, 3 * (g - 1) + 1) BY <2>1
  <2> HIDE DEF G
  <2> DEFINE x == EncodeGroup(data, 3 * (g - 1) + 1)
  <2>4. x \in Seq(S) /\ Len(x) = 4 BY <1>2, <2>1, <2>2, Zenon
  <2> HIDE DEF x
  <2>5. G[g] \in Seq(S) /\ Len(G[g]) = 4 BY <2>3, <2>4, Zenon DEF x
  <2> QED BY <2>3, <2>5, Zenon
<1> HIDE DEF S
<1>4. G \in Seq(Seq(S)) /\ Len(G) = m
  <2>1. G \in [1 .. m -> Seq(S)] BY <1>3
  <2> HIDE DEF G
  <2> QED BY <1>1, <2>1
<1>5. text = FlattenSeq(G) BY Zenon DEF Encode, m
<1> HIDE DEF G
<1>6. /\ text \in Seq(S) /\ Len(text) = 4 * m
      /\ \A g \in 1 .. m : \A k \in 1 .. 4 : text[4 * (g - 1) + k] = G[g][k]
  <2>1. 4 \in {1, 4} /\ \A i \in 1 .. Len(G) : Len(G[i]) = 4 BY <1>3, <1>4
  <2>2. G \in Seq(Seq(S)) BY <1>4
  <2>3. /\ FlattenSeq(G) \in Seq(S)
         /\ Len(FlattenSeq(G)) = 4 * Len(G)
         /\ \A g \in 1 .. Len(G) : \A k \in 1 .. 4 :
              FlattenSeq(G)[4 * (g - 1) + k] = G[g][k]
    BY ONLY <2>1, <2>2, FlattenBlocks, SMT
  <2> QED BY <1>4, <1>5, <2>3
<1>7. ASSUME NEW h \in Nat, 3 * h < Len(data), NEW k \in 1 .. 4
      PROVE  text[4 * h + k] = EncodeGroup(data, 3 * h + 1)[k]
  <2>1. h + 1 \in 1 .. m /\ (h + 1) - 1 = h BY <1>1, <1>7
  <2>2. G[h + 1] = EncodeGroup(data, 3 * h + 1) BY <1>3, <2>1, Zenon
  <2>3. text[4 * ((h + 1) - 1) + k] = G[h + 1][k] BY <1>6, <2>1, Zenon
  <2> QED BY <2>1, <2>2, <2>3
<1> QED BY <1>6, <1>7, Zenon DEF S, m

(* Bit i of a sequence is in group i \div 24 of it, which is four numbers  *)
(* of six bits or three of eight.                                          *)
LEMMA Places ==
  ASSUME NEW i \in Nat, NEW h, h = i \div 24, NEW r, r = i % 24
  PROVE  /\ h \in Nat /\ r \in 0 .. 23 /\ i = 24 * h + r
         /\ i \div 6 = 4 * h + r \div 6 /\ i % 6 = r % 6 /\ r \div 6 \in 0 .. 3
         /\ i \div 8 = 3 * h + r \div 8 /\ i % 8 = r % 8 /\ r \div 8 \in 0 .. 2
<1>1. h \in Nat /\ r \in 0 .. 23 /\ i = 24 * h + r OBVIOUS
<1>2. r \div 6 \in 0 .. 3 /\ r \div 8 \in 0 .. 2 /\ r % 6 \in 0 .. 5 /\ r % 8 \in 0 .. 7
      /\ r = 6 * (r \div 6) + (r % 6) /\ r = 8 * (r \div 8) + (r % 8)
  BY ONLY <1>1
<1>3. i \div 6 = 4 * h + r \div 6 /\ i % 6 = r % 6 BY ONLY <1>1, <1>2
<1>4. i \div 8 = 3 * h + r \div 8 /\ i % 8 = r % 8 BY ONLY <1>1, <1>2
<1> QED BY <1>1, <1>2, <1>3, <1>4

(* The number of digits that encode L octets.                              *)
Sextets(L) == (8 * L + 5) \div 6

(* What it is to the numbers of characters and of octets.                  *)
LEMMA Counts ==
  ASSUME NEW L \in Nat, NEW n, n = Sextets(L)
  PROVE  /\ n \in Nat
         /\ n <= 4 * ((L + 2) \div 3)
         /\ 4 * ((L + 2) \div 3) = n + ((4 - (n % 4)) % 4)
         /\ n % 4 # 1
         /\ (6 * n) \div 8 = L
         /\ 4 * ((L + 2) \div 3) + 1 <= (L * 4) \div 3 + 4
         /\ \A h \in Nat : 4 * h < n <=> 3 * h < L
         /\ \A h \in Nat : 3 * h < L =>
              /\ 4 * h + 2 <= n
              /\ 4 * h + 3 <= n <=> 3 * h + 2 <= L
              /\ 4 * h + 4 <= n <=> 3 * h + 3 <= L
<1> DEFINE q == L \div 3
           r == L % 3
<1> USE DEF Sextets
<1>1. q \in Nat /\ r \in 0 .. 2 /\ L = 3 * q + r OBVIOUS
<1> HIDE DEF q, r
<1>2. CASE r = 0
  <2>1. n = 4 * q /\ (L + 2) \div 3 = q /\ (L * 4) \div 3 = 4 * q /\ L = 3 * q BY <1>1, <1>2
  <2>2. n % 4 = 0 BY <1>1, <2>1
  <2>3. (6 * n) \div 8 = 3 * q BY <1>1, <2>1
  <2> QED BY <1>1, <2>1, <2>2, <2>3
<1>3. CASE r = 1
  <2>1. n = 4 * q + 2 /\ (L + 2) \div 3 = q + 1 /\ (L * 4) \div 3 = 4 * q + 1 /\ L = 3 * q + 1
    BY <1>1, <1>3
  <2>2. n % 4 = 2 BY <1>1, <2>1
  <2>3. (6 * n) \div 8 = 3 * q + 1 BY <1>1, <2>1
  <2> QED BY <1>1, <2>1, <2>2, <2>3
<1>4. CASE r = 2
  <2>1. n = 4 * q + 3 /\ (L + 2) \div 3 = q + 1 /\ (L * 4) \div 3 = 4 * q + 2 /\ L = 3 * q + 2
    BY <1>1, <1>4
  <2>2. n % 4 = 3 BY <1>1, <2>1
  <2>3. (6 * n) \div 8 = 3 * q + 2 BY <1>1, <2>1
  <2> QED BY <1>1, <2>1, <2>2, <2>3
<1> QED BY <1>1, <1>2, <1>3, <1>4

(* Group h of the data.                                                    *)
IsGroup(data, h, a, b, c) ==
  /\ h \in Nat /\ 3 * h < Len(data)
  /\ a = data[3 * h + 1] /\ b = OctetAt(data, 3 * h + 2) /\ c = OctetAt(data, 3 * h + 3)

(* The four characters of group h of an encoding with n digits.            *)
GroupEncoded(text, n, h, m) ==
  \A k \in 1 .. 4 : /\ m[k] \in Digit
                    /\ 4 * h + k <= n => text[4 * h + k] = m[k]
                    /\ 4 * h + k > n => m[k] = 0 /\ text[4 * h + k] = Pad

(* A digit of the encoding is a number of six bits of its group, and behind*)
(* the last one there is padding.                                          *)
LEMMA EncodedDigits ==
  ASSUME NEW data \in Seq(Octet), NEW text, text = Encode(data),
         NEW n, n = Sextets(Len(data)), NEW h, NEW a, NEW b, NEW c,
         IsGroup(data, h, a, b, c), NEW m, m = Sixes(a, b, c)
  PROVE  /\ a \in Octet /\ b \in Octet /\ c \in Octet
         /\ InSixes(a, b, c, m) /\ GroupEncoded(text, n, h, m)
<1>1. /\ h \in Nat /\ 3 * h < Len(data)
      /\ a = data[3 * h + 1] /\ b = OctetAt(data, 3 * h + 2) /\ c = OctetAt(data, 3 * h + 3)
  BY Zenon DEF IsGroup
<1> DEFINE e == EncodeGroup(data, 3 * h + 1)
           L == Len(data)
<1>2. /\ a \in Octet /\ b \in Octet /\ c \in Octet
      /\ e[1] = a \div 4 /\ e[2] = (a % 4) * 16 + b \div 16
      /\ e[3] = IF 3 * h + 2 > L THEN Pad ELSE (b % 16) * 4 + c \div 64
      /\ e[4] = IF 3 * h + 3 > L THEN Pad ELSE c % 64
      /\ 3 * h + 2 > L => b = 0
      /\ 3 * h + 3 > L => c = 0
  <2> HIDE DEF e
  <2>1. e = EncodeGroup(data, 3 * h + 1) BY DEF e
  <2> QED BY <1>1, <2>1, GroupFacts, SMT
<1>3. \A k \in 1 .. 4 : text[4 * h + k] = e[k] BY <1>1, EncodeFacts, Zenon
<1>4. /\ n \in Nat /\ L \in Nat /\ 4 * h + 2 <= n
      /\ 4 * h + 3 <= n <=> 3 * h + 2 <= L
      /\ 4 * h + 4 <= n <=> 3 * h + 3 <= L
  <2>1. L \in Nat /\ n = Sextets(L) /\ 3 * h < L /\ h \in Nat BY <1>1
  <2> HIDE DEF L
  <2>2. n \in Nat BY <2>1, Counts, Zenon
  <2>3. /\ 4 * h + 2 <= n
        /\ 4 * h + 3 <= n <=> 3 * h + 2 <= L
        /\ 4 * h + 4 <= n <=> 3 * h + 3 <= L
    BY <2>1, Counts, Zenon
  <2> QED BY <2>1, <2>2, <2>3
<1>5. m[1] = a \div 4 /\ m[2] = (a % 4) * 16 + b \div 16
      /\ m[3] = (b % 16) * 4 + c \div 64 /\ m[4] = c % 64
  BY DEF Sixes
<1>6. \A k \in 1 .. 4 : m[k] \in Digit
  <2>1. \A k \in 1 .. 4 : k = 1 \/ k = 2 \/ k = 3 \/ k = 4 OBVIOUS
  <2>2. m[1] \in Digit /\ m[2] \in Digit /\ m[3] \in Digit /\ m[4] \in Digit
    <3>1. /\ a \div 4 \in Digit /\ (a % 4) * 16 + b \div 16 \in Digit
          /\ (b % 16) * 4 + c \div 64 \in Digit /\ c % 64 \in Digit
      BY ONLY <1>2, EightsOfSixes, SMT
    <3> QED BY <1>5, <3>1, Zenon
  <2> QED BY <2>1, <2>2, Zenon
<1>7. b = 0 => (b % 16) * 4 = 0
  OBVIOUS
<1>8. c = 0 => c \div 64 = 0 /\ c % 64 = 0 OBVIOUS
<1> HIDE DEF e, L
<1>9. /\ 3 * h + 2 > L => m[3] = 0 /\ m[4] = 0 /\ e[3] = Pad /\ e[4] = Pad
      /\ 3 * h + 2 <= L => e[3] = m[3]
      /\ 3 * h + 3 > L => m[4] = 0 /\ e[4] = Pad
      /\ 3 * h + 3 <= L => e[4] = m[4]
      /\ e[1] = m[1] /\ e[2] = m[2]
  <2>1. 3 * h + 2 > L => 3 * h + 3 > L BY <1>1, <1>4
  <2>2. (3 * h + 2 <= L <=> ~(3 * h + 2 > L)) /\ (3 * h + 3 <= L <=> ~(3 * h + 3 > L)) BY <1>1, <1>4
  <2>3. 3 * h + 2 > L => m[3] = 0 BY <1>2, <1>5, <1>7, <1>8, <2>1
  <2>4. 3 * h + 3 > L => m[4] = 0 BY <1>2, <1>5, <1>8, Zenon
  <2> QED BY <1>2, <1>5, <2>1, <2>2, <2>3, <2>4, Zenon
<1>10. ASSUME NEW k \in 1 .. 4
      PROVE  /\ 4 * h + k <= n => text[4 * h + k] = m[k]
             /\ 4 * h + k > n => m[k] = 0 /\ text[4 * h + k] = Pad
  <2>1. text[4 * h + k] = e[k] BY <1>3
  <2>2. k = 1 \/ k = 2 \/ k = 3 \/ k = 4 OBVIOUS
  <2>3. (4 * h + k <= n => e[k] = m[k]) /\ (4 * h + k > n => m[k] = 0 /\ e[k] = Pad)
    <3> HIDE DEF L
    <3>1. CASE k = 1 BY <1>1, <1>4, <1>9, <3>1
    <3>2. CASE k = 2 BY <1>1, <1>4, <1>9, <3>2
    <3>3. CASE k = 3 BY <1>1, <1>4, <1>9, <3>3
    <3>4. CASE k = 4 BY <1>1, <1>4, <1>9, <3>4
    <3> QED BY <2>2, <3>1, <3>2, <3>3, <3>4
  <2> QED BY <2>1, <2>3, Zenon
<1> QED BY <1>2, <1>5, <1>6, <1>10, Zenon DEF InSixes, GroupEncoded

(* The bits of nothing.                                                    *)
LEMMA NoBits == \A j \in 0 .. 7 : BitAt(0, 2 ^ (7 - j)) = 0
<1> TAKE j \in 0 .. 7
<1> DEFINE w == 2 ^ (7 - j)
<1>1. /\ j = 0 => w = 128
      /\ j = 1 => w = 64
      /\ j = 2 => w = 32
      /\ j = 3 => w = 16
      /\ j = 4 => w = 8
      /\ j = 5 => w = 4
      /\ j = 6 => w = 2
      /\ j = 7 => w = 1
  BY Weights8, Zenon
<1> HIDE DEF w
<1>2. w \in Nat \ {0}
  <2>1. j = 0 \/ j = 1 \/ j = 2 \/ j = 3 \/ j = 4 \/ j = 5 \/ j = 6 \/ j = 7 OBVIOUS
  <2> QED BY <1>1, <2>1
<1>3. BitAt(0, w) = 0 BY <1>2 DEF BitAt
<1> QED BY <1>3 DEF w

(* The digits of the encoding have the bits of the octets, and padding     *)
(* follows them.                                                           *)
LEMMA EncodedBits ==
  ASSUME NEW data \in Seq(Octet)
  PROVE  LET text == Encode(data)
             n == (8 * Len(data) + 5) \div 6
         IN  /\ Regrouped(SubSeq(text, 1, n), 6, n, data, 8)
             /\ Len(text) = n + ((4 - (n % 4)) % 4)
             /\ \A j \in n + 1 .. Len(text) : text[j] = Pad
             /\ Len(text) + 1 <= Allocated(Len(data))
             /\ \A j \in 1 .. n : text[j] \in Digit
<1> DEFINE text == Encode(data)
           L == Len(data)
           n == Sextets(L)
           new == SubSeq(text, 1, n)
           S == Digit \cup {Pad}
<1>1. /\ text \in Seq(S)
      /\ Len(text) = 4 * ((L + 2) \div 3)
  BY EncodeFacts
<1>2. L \in Nat OBVIOUS
<1>3. /\ n \in Nat
      /\ n <= 4 * ((L + 2) \div 3)
      /\ 4 * ((L + 2) \div 3) = n + ((4 - (n % 4)) % 4)
      /\ n % 4 # 1
      /\ 4 * ((L + 2) \div 3) + 1 <= (L * 4) \div 3 + 4
      /\ \A h \in Nat : 4 * h < n <=> 3 * h < L
      /\ \A h \in Nat : 3 * h < L => 4 * h + 2 <= n
  <2> HIDE DEF L
  <2> QED BY <1>2, Counts, Zenon
<1>4. ASSUME NEW h \in Nat, 3 * h < L
      PROVE  \A k \in 1 .. 4 : /\ 4 * h + k <= n => text[4 * h + k] \in Digit
                               /\ 4 * h + k > n => text[4 * h + k] = Pad
  <2> DEFINE a == data[3 * h + 1]
             b == OctetAt(data, 3 * h + 2)
             c == OctetAt(data, 3 * h + 3)
             m == Sixes(a, b, c)
  <2>1. \A k \in 1 .. 4 : /\ m[k] \in Digit
                          /\ 4 * h + k <= n => text[4 * h + k] = m[k]
                          /\ 4 * h + k > n => m[k] = 0 /\ text[4 * h + k] = Pad
    <3> HIDE DEF a, b, c, m, n, text
    <3>1. m = Sixes(a, b, c) /\ text = Encode(data) /\ n = Sextets(Len(data))
      BY Zenon DEF m, n, text
    <3>2. IsGroup(data, h, a, b, c) BY <1>4, Zenon DEF IsGroup, a, b, c
    <3>3. GroupEncoded(text, n, h, m) BY <3>1, <3>2, EncodedDigits, Zenon
    <3> QED BY <3>3, Zenon DEF GroupEncoded
  <2> HIDE DEF m, n, text
  <2> QED BY <2>1, Zenon
<1> HIDE DEF text, n
<1>5. ASSUME NEW j \in 1 .. Len(text)
      PROVE  (j <= n => text[j] \in Digit) /\ (j > n => text[j] = Pad)
  <2> DEFINE h == (j - 1) \div 4
             k == ((j - 1) % 4) + 1
  <2>1. h \in Nat /\ k \in 1 .. 4 /\ j = 4 * h + k BY <1>1
  <2>2. 3 * h < L
    <3> DEFINE M == (L + 2) \div 3
    <3>1. M \in Nat /\ 3 * M <= L + 2 BY <1>2
    <3>2. j <= 4 * M BY <1>1
    <3> HIDE DEF M, h, k
    <3>3. h < M BY <2>1, <3>1, <3>2
    <3> QED BY <1>2, <2>1, <3>1, <3>3
  <2> HIDE DEF h, k
  <2> QED BY <1>4, <2>1, <2>2, Zenon
<1>6. /\ new \in Seq(S) /\ Len(new) = n
      /\ \A j \in 1 .. n : new[j] = text[j]
  <2>1. n \in Nat /\ n <= Len(text) BY <1>1, <1>3
  <2> HIDE DEF S
  <2> QED BY <1>1, <2>1
<1> HIDE DEF new
<1>7. DOMAIN new = 1 .. n /\ \A j \in 1 .. n : new[j] \in 0 .. 2 ^ 6 - 1
  <2>1. \A j \in 1 .. n : j \in 1 .. Len(text) /\ j <= n BY <1>1, <1>3
  <2>2. \A j \in 1 .. n : new[j] \in Digit BY <1>5, <1>6, <2>1
  <2>3. 2 ^ 6 - 1 = 63 OBVIOUS
  <2>4. DOMAIN new = 1 .. n BY <1>6
  <2> QED BY <2>2, <2>3, <2>4, Zenon DEF Digit
<1>8. ASSUME NEW i \in 0 .. 6 * n - 1 PROVE Bit(new, 6, i) = Bit(data, 8, i)
  <2> DEFINE h == i \div 24
             r == i % 24
             s == r \div 6
             t == r \div 8
             y == i % 6
             z == i % 8
  <2>1. /\ h \in Nat /\ r \in 0 .. 23 /\ i = 24 * h + r
        /\ i \div 6 = 4 * h + s /\ y = r % 6 /\ s \in 0 .. 3
        /\ i \div 8 = 3 * h + t /\ z = r % 8 /\ t \in 0 .. 2
    <3>1. i \in Nat BY <1>3
    <3> QED BY <3>1, Places, Zenon
  <2>2. 4 * h < n /\ i \div 6 < n
    <3> HIDE DEF h, r, s, t, y, z
    <3> QED BY <1>3, <2>1
  <2>3. 3 * h < L BY <1>3, <2>1, <2>2, Zenon
  <2> DEFINE a == data[3 * h + 1]
             b == OctetAt(data, 3 * h + 2)
             c == OctetAt(data, 3 * h + 3)
             m == Sixes(a, b, c)
             o == <<a, b, c>>
  <2>4. /\ a \in Octet /\ b \in Octet /\ c \in Octet
        /\ InSixes(a, b, c, m) /\ GroupEncoded(text, n, h, m)
    <3> HIDE DEF a, b, c, m, h
    <3>1. m = Sixes(a, b, c) /\ text = Encode(data) /\ n = Sextets(Len(data))
      BY Zenon DEF m, n, text
    <3>2. IsGroup(data, h, a, b, c) BY <2>1, <2>3, Zenon DEF IsGroup, a, b, c
    <3> QED BY <3>1, <3>2, EncodedDigits, Zenon
  <2>5. o[1] = a /\ o[2] = b /\ o[3] = c OBVIOUS
  <2>6. o[t + 1] = OctetAt(data, 3 * h + t + 1)
    <3>1. a = OctetAt(data, 3 * h + 1)
      <4> HIDE DEF h
      <4>1. 3 * h + 1 <= L BY <1>2, <2>1, <2>3
      <4> QED BY <4>1, Zenon DEF OctetAt
    <3> HIDE DEF h, t, a, b, c, o
    <3>2. b = OctetAt(data, 3 * h + 2) /\ c = OctetAt(data, 3 * h + 3) BY DEF b, c
    <3>3. CASE t = 0
      <4>1. t + 1 = 1 /\ 3 * h + t + 1 = 3 * h + 1 BY <2>1, <3>3
      <4> QED BY <2>5, <3>1, <4>1
    <3>4. CASE t = 1
      <4>1. t + 1 = 2 /\ 3 * h + t + 1 = 3 * h + 2 BY <2>1, <3>4
      <4> QED BY <2>5, <3>2, <4>1
    <3>5. CASE t = 2
      <4>1. t + 1 = 3 /\ 3 * h + t + 1 = 3 * h + 3 BY <2>1, <3>5
      <4> QED BY <2>5, <3>2, <4>1
    <3> QED BY <2>1, <3>3, <3>4, <3>5
  <2>7. BitAt(m[s + 1], 2 ^ (5 - y)) = BitAt(o[t + 1], 2 ^ (7 - z))
    <3>1. o = <<a, b, c>> /\ s = r \div 6 /\ t = r \div 8 OBVIOUS
    <3> HIDE DEF a, b, c, m, o, r, s, t, y, z
    <3>2. r \in 0 .. 23 /\ y = r % 6 /\ z = r % 8 BY <2>1
    <3>3. SameBit(m, s, y, o, t, z) BY <2>4, <3>1, <3>2, GroupBits, Zenon
    <3> QED BY <3>3, Zenon DEF SameBit
  <2> HIDE DEF a, b, c, m, o, h, r, s, t, y, z
  <2>8. new[i \div 6 + 1] = m[s + 1]
    <3>1. i \div 6 + 1 \in 1 .. n /\ i \div 6 + 1 = 4 * h + (s + 1) /\ s + 1 \in 1 .. 4
          /\ 4 * h + (s + 1) <= n
      BY <1>3, <2>1, <2>2
    <3>2. new[i \div 6 + 1] = text[i \div 6 + 1] BY <1>6, <3>1, Zenon
    <3>3. text[4 * h + (s + 1)] = m[s + 1] BY <2>4, <3>1, Zenon DEF GroupEncoded
    <3> QED BY <3>1, <3>2, <3>3
  <2>9. Bit(new, 6, i) = BitAt(m[s + 1], 2 ^ (5 - y))
    <3>1. Bit(new, 6, i) = (new[i \div 6 + 1] \div 2 ^ (6 - 1 - (i % 6))) % 2
      BY <1>6, <2>2, Zenon DEF Bit
    <3>2. 6 - 1 - (i % 6) = 5 - y BY DEF y
    <3> QED BY <2>8, <3>1, <3>2, Zenon DEF BitAt
  <2>10. Bit(data, 8, i) = BitAt(o[t + 1], 2 ^ (7 - z))
    <3>1. 8 - 1 - (i % 8) = 7 - z BY DEF z
    <3>2. i \div 8 \in Nat /\ i \div 8 + 1 = 3 * h + t + 1 BY <2>1
    <3>3. CASE i \div 8 < Len(data)
      <4>1. Bit(data, 8, i) = (data[i \div 8 + 1] \div 2 ^ (8 - 1 - (i % 8))) % 2
        BY <3>3, Zenon DEF Bit
      <4>2. 3 * h + t + 1 <= Len(data) BY <1>2, <3>2, <3>3
      <4>3. o[t + 1] = data[3 * h + t + 1] BY <2>6, <4>2, Zenon DEF OctetAt
      <4> QED BY <3>1, <3>2, <4>1, <4>3, Zenon DEF BitAt
    <3>4. CASE ~(i \div 8 < Len(data))
      <4>1. Bit(data, 8, i) = 0 BY <3>4, Zenon DEF Bit
      <4>2. ~(3 * h + t + 1 <= Len(data)) BY <1>2, <3>2, <3>4
      <4>3. o[t + 1] = 0 BY <2>6, <4>2, Zenon DEF OctetAt
      <4>4. z \in 0 .. 7 BY <2>1
      <4> QED BY <4>1, <4>3, <4>4, NoBits, Zenon
    <3> QED BY <3>3, <3>4
  <2> QED BY <2>7, <2>9, <2>10, Zenon
<1>9. Regrouped(new, 6, n, data, 8) BY <1>7, <1>8, Zenon DEF Regrouped
<1>10. \A j \in n + 1 .. Len(text) : text[j] = Pad
  <2>1. \A j \in n + 1 .. Len(text) : j \in 1 .. Len(text) /\ j > n BY <1>3
  <2> QED BY <1>5, <2>1, Zenon
<1>11. \A j \in 1 .. n : text[j] \in Digit
  <2>1. \A j \in 1 .. n : j \in 1 .. Len(text) /\ j <= n BY <1>1, <1>3
  <2> QED BY <1>5, <2>1, Zenon
<1>12. Len(text) = n + ((4 - (n % 4)) % 4) BY <1>1, <1>3, Zenon
<1>13. Len(text) + 1 <= Allocated(L) BY <1>1, <1>3, Zenon DEF Allocated
<1> QED BY <1>9, <1>10, <1>11, <1>12, <1>13, Zenon DEF text, n, new, Sextets

(* What base64_encode() yields is the encoding, for octets of any number.  *)
THEOREM EncodingIsDefined == Spec => []EncodedAsDefined
<1>1. TypeOK => EncodedAsDefined
  <2> SUFFICES ASSUME TypeOK, kind = "octets" PROVE EncodedAsDefined
    BY Zenon DEF EncodedAsDefined
  <2>1. Sendable = Samples BY DEF Sendable, Alphabet
  <2>2. input \in Seq(Samples) BY <2>1, Zenon DEF TypeOK
  <2>3. input \in Seq(Octet) BY <2>2, SampleAssumption
  <2> QED BY <2>3, EncodedBits, Zenon DEF EncodedAsDefined
<1> QED BY <1>1, TypeCorrect, PTL

-----------------------------------------------------------------------------
(* What base64_decode() makes of the quartet at p, f being its function.   *)
QuartetDecoded(s, f, p) ==
  IF s[p] \notin Digit THEN <<>>
  ELSE IF ~Quartet(s, p) THEN Invalid
  ELSE IF s[p + 3] = Pad THEN Octets(SubSeq(s, p, p + 3))
  ELSE IF f[p + 4] = Invalid THEN Invalid
  ELSE Octets(SubSeq(s, p, p + 3)) \o f[p + 4]

(* A string: the characters, and the zero behind them.                     *)
IsString(s) ==
  \E text \in Seq(Digit \cup {Pad, Foreign}) : s = Append(text, Nul)

(* A quartet that has another behind it has it within the string.          *)
LEMMA NextQuartet ==
  ASSUME NEW s, IsString(s), NEW p \in 1 .. Len(s),
         s[p] \in Digit, Quartet(s, p), s[p + 3] # Pad
  PROVE  p + 4 \in 1 .. Len(s)
<1>1. PICK text \in Seq(Digit \cup {Pad, Foreign}) : s = Append(text, Nul)
  BY DEF IsString
<1>2. Len(s) = Len(text) + 1 /\ s[Len(s)] = Nul /\ Len(s) \in Nat BY <1>1
<1>3. Nul \notin Digit /\ Nul # Pad /\ Pad \notin Digit BY DEF Nul, Digit, Pad
<1>4. s[p] \in Digit /\ s[p + 1] \in Digit /\ s[p + 2] \in Digit /\ s[p + 3] \in Digit
  BY DEF Quartet
<1>5. p # Len(s) /\ p + 1 # Len(s) /\ p + 2 # Len(s) /\ p + 3 # Len(s)
  BY <1>2, <1>3, <1>4, Zenon
<1> QED BY <1>2, <1>5

(* The function of base64_decode() exists, for a string of any length.     *)
LEMMA DecodeFromDef ==
  ASSUME NEW s, IsString(s)
  PROVE  LET f == DecodeFrom(s)
         IN  \A p \in 1 .. Len(s) : f[p] = QuartetDecoded(s, f, p)
<1> DEFINE n == Len(s)
           Fits(f, d) == /\ f = [p \in n - d .. n |-> f[p]]
                         /\ \A p \in 1 .. n : p >= n - d => f[p] = QuartetDecoded(s, f, p)
           T == {d \in Nat : d < n => \E f : Fits(f, d)}
<1>1. n \in Nat \ {0}
  <2>1. PICK text \in Seq(Digit \cup {Pad, Foreign}) : s = Append(text, Nul)
    BY DEF IsString
  <2> QED BY <2>1
<1>2. ASSUME NEW f, NEW g, NEW p \in 1 .. n,
             p + 4 \in 1 .. n => f[p + 4] = g[p + 4]
      PROVE  QuartetDecoded(s, f, p) = QuartetDecoded(s, g, p)
  <2>1. CASE s[p] \in Digit /\ Quartet(s, p) /\ s[p + 3] # Pad
    <3>1. p + 4 \in 1 .. n BY <2>1, NextQuartet, Zenon
    <3>2. f[p + 4] = g[p + 4] BY <1>2, <3>1, Zenon
    <3> QED BY <3>2, Zenon DEF QuartetDecoded
  <2>2. CASE ~(s[p] \in Digit /\ Quartet(s, p) /\ s[p + 3] # Pad)
    BY <2>2, Zenon DEF QuartetDecoded
  <2> QED BY <2>1, <2>2, Zenon
<1> HIDE DEF n
<1>3. 0 \in T
  <2> DEFINE f == [p \in n - 0 .. n |-> QuartetDecoded(s, <<>>, p)]
  <2>1. ASSUME NEW p \in 1 .. n, p >= n - 0 PROVE f[p] = QuartetDecoded(s, f, p)
    <3>1. p \in n - 0 .. n /\ p + 4 \notin 1 .. n BY <1>1, <2>1
    <3>2. f[p] = QuartetDecoded(s, <<>>, p) BY <3>1, Zenon
    <3> HIDE DEF f
    <3> QED BY <1>2, <3>1, <3>2, Zenon
  <2>2. f = [p \in n - 0 .. n |-> f[p]] BY Zenon
  <2> HIDE DEF f
  <2>3. Fits(f, 0) BY <2>1, <2>2, Zenon
  <2> HIDE DEF Fits
  <2> QED BY <2>3
<1>4. ASSUME NEW d \in Nat, d \in T PROVE d + 1 \in T
  <2> SUFFICES ASSUME d + 1 < n PROVE \E g : Fits(g, d + 1)
    <3> HIDE DEF Fits
    <3> QED OBVIOUS
  <2>1. PICK f : Fits(f, d)
    <3> HIDE DEF Fits
    <3>1. d < n BY <1>1
    <3> QED BY <1>4, <3>1
  <2> DEFINE q == n - (d + 1)
             g == [p \in q .. n |-> IF p = q THEN QuartetDecoded(s, f, q) ELSE f[p]]
  <2>2. ASSUME NEW p \in 1 .. n, p >= q PROVE g[p] = QuartetDecoded(s, g, p)
    <3>1. p \in q .. n /\ (p # q => p >= n - d) /\ q \in 1 .. n BY <1>1, <2>2
    <3>2. p + 4 \in 1 .. n => p + 4 \in q .. n /\ p + 4 # q BY <1>1, <3>1
    <3>3. p + 4 \in 1 .. n => f[p + 4] = g[p + 4] BY <3>2, Zenon
    <3>4. QuartetDecoded(s, f, p) = QuartetDecoded(s, g, p)
      <4> HIDE DEF g
      <4> QED BY <1>2, <3>3, Zenon
    <3>5. p # q => f[p] = QuartetDecoded(s, f, p) BY <2>1, <3>1, Zenon
    <3>6. g[p] = QuartetDecoded(s, f, p) BY <3>1, <3>5, Zenon
    <3> QED BY <3>4, <3>6, Zenon
  <2>3. g = [p \in q .. n |-> g[p]] BY Zenon
  <2> HIDE DEF g
  <2>4. Fits(g, d + 1) BY <2>2, <2>3, Zenon
  <2> HIDE DEF Fits
  <2> QED BY <2>4, Zenon
<1>5. Nat \subseteq T
  <2> HIDE DEF T
  <2> QED BY <1>3, <1>4, Induction
<1>6. \E f : f = [p \in 1 .. n |-> QuartetDecoded(s, f, p)]
  <2>1. n - 1 \in Nat /\ n - 1 < n /\ n - (n - 1) = 1 BY <1>1
  <2>2. PICK f : Fits(f, n - 1)
    <3> HIDE DEF Fits
    <3>1. n - 1 \in T BY <1>5, <2>1
    <3> QED BY <2>1, <3>1
  <2>3. f = [p \in 1 .. n |-> f[p]] BY <2>1, <2>2, Zenon
  <2>4. \A p \in 1 .. n : f[p] = QuartetDecoded(s, f, p)
    <3>1. \A p \in 1 .. n : p >= n - (n - 1) BY <2>1
    <3> QED BY <2>2, <3>1, Zenon
  <2>5. f = [p \in 1 .. n |-> QuartetDecoded(s, f, p)] BY <2>3, <2>4, Zenon
  <2> QED BY <2>5, Zenon
<1> DEFINE F == CHOOSE f : f = [p \in 1 .. n |-> QuartetDecoded(s, f, p)]
<1>7. F = [p \in 1 .. n |-> QuartetDecoded(s, F, p)] BY <1>6, Zenon
<1>8. F = DecodeFrom(s) BY Zenon DEF DecodeFrom, QuartetDecoded, n
<1> HIDE DEF F
<1>9. \A p \in 1 .. n : F[p] = QuartetDecoded(s, F, p) BY <1>7, Zenon
<1> QED BY <1>8, <1>9, Zenon DEF n

(* The string s of a text begins with k digits and no more.                *)
DigitsEnd(text, s, k) ==
  /\ k \in 0 .. Len(text) /\ Len(s) = Len(text) + 1 /\ Len(text) \in Nat
  /\ \A i \in 1 .. Len(text) : s[i] = text[i]
  /\ \A i \in 1 .. k : s[i] \in Digit
  /\ s[k + 1] \notin Digit
  /\ \A i \in 1 .. Len(s) : s[i] = Pad => i \in 1 .. Len(text)

(* The digits before the first character that is none.                     *)
LEMMA DigitsFacts ==
  ASSUME NEW text \in Seq(Digit \cup {Pad, Foreign}), NEW s, s = Append(text, Nul),
         NEW k, k = Digits(text)
  PROVE  DigitsEnd(text, s, k)
<1> DEFINE T == {i \in DOMAIN text : text[i] \notin Digit} \cup {Len(text) + 1}
<1>1. T \in SUBSET Nat /\ T # {} OBVIOUS
<1>2. Min(T) \in T /\ Min(T) \in Nat /\ \A y \in T : Min(T) <= y
  <2> HIDE DEF T
  <2> QED BY <1>1, MinIsLeast
<1>3. k = Min(T) - 1 BY Zenon DEF Digits
<1> DEFINE m == Min(T)
<1> HIDE DEF m
<1>4. k = m - 1 /\ m \in T /\ m \in Nat /\ \A y \in T : m <= y BY <1>2, <1>3 DEF m
<1>5. m \in 1 .. Len(text) + 1 /\ (m <= Len(text) => text[m] \notin Digit) BY <1>4
<1>6. /\ Len(s) = Len(text) + 1 /\ Len(text) \in Nat /\ s[Len(text) + 1] = Nul
      /\ \A i \in 1 .. Len(text) : s[i] = text[i]
  OBVIOUS
<1>7. ASSUME NEW i \in 1 .. k PROVE text[i] \in Digit
  <2>1. i \in 1 .. Len(text) /\ i < m BY <1>4, <1>5
  <2>2. i \notin T BY <1>4, <2>1
  <2> QED BY <2>1, <2>2
<1>8. Nul \notin Digit /\ Nul # Pad BY DEF Nul, Digit, Pad
<1>9. s[m] \notin Digit BY <1>5, <1>6, <1>8
<1>10. k + 1 = m /\ k \in 0 .. Len(text) /\ \A i \in 1 .. k : i \in 1 .. Len(text) BY <1>4, <1>5
<1>11. ASSUME NEW i \in 1 .. Len(s), s[i] = Pad PROVE i \in 1 .. Len(text)
  BY <1>6, <1>8, <1>11
<1> QED BY <1>6, <1>7, <1>9, <1>10, <1>11, Zenon DEF DigitsEnd

(* The three octets of the quartet at p, if none is padded away.           *)
Three(s, p) == Eights(s[p], s[p + 1], s[p + 2] % 64, s[p + 3] % 64)

(* Those that are left of it.                                              *)
Left(s, p) == IF s[p + 2] = Pad THEN 1 ELSE IF s[p + 3] = Pad THEN 2 ELSE 3

(* What base64_decode() yields of a quartet.                               *)
LEMMA QuartetFacts ==
  ASSUME NEW text \in Seq(Digit \cup {Pad, Foreign}), NEW s, s = Append(text, Nul),
         NEW p \in 1 .. Len(text), s[p] \in Digit, Quartet(s, p)
  PROVE  LET u == Octets(SubSeq(s, p, p + 3))
         IN  /\ u \in Seq(Octet) /\ Len(u) = Left(s, p)
             /\ \A j \in 1 .. 3 : j <= Left(s, p) => u[j] = Three(s, p)[j]
<1> DEFINE q == SubSeq(s, p, p + 3)
           d == s[p]
           e == s[p + 1]
           f == s[p + 2]
           g == s[p + 3]
<1>1. /\ Len(s) = Len(text) + 1 /\ Len(text) \in Nat /\ s[Len(s)] = Nul
      /\ \A i \in 1 .. Len(s) : s[i] \in Digit \cup {Pad, Foreign, Nul}
  OBVIOUS
<1>2. Nul \notin Digit \cup {Pad} BY DEF Nul, Digit, Pad
<1>3. e \in Digit /\ f \in Digit \cup {Pad} /\ g \in Digit \cup {Pad} /\ (f = Pad => g = Pad)
  BY Zenon DEF Quartet
<1>4. p + 3 \in 1 .. Len(s)
  <2>1. p # Len(s) /\ p + 1 # Len(s) /\ p + 2 # Len(s) BY <1>1, <1>2, <1>3
  <2> QED BY <1>1, <2>1
<1>5. q[1] = d /\ q[2] = e /\ q[3] = f /\ q[4] = g
  <2>1. s \in Seq(Digit \cup {Pad, Foreign, Nul})
    OBVIOUS
  <2> DEFINE S == Digit \cup {Pad, Foreign, Nul}
             m == p + 3
  <2> HIDE DEF S
  <2>2. p \in Int /\ m \in Int /\ m - p + 1 = 4 /\ \A i \in p .. m : s[i] \in S
    BY <1>1, <1>4, <2>1 DEF S
  <2> HIDE DEF m
  <2>3. \A i \in 1 .. m - p + 1 : SubSeq(s, p, m)[i] = s[p + i - 1]
    BY ONLY <2>2, SubSeqProperties
  <2>4. SubSeq(s, p, m) = q BY DEF m
  <2> HIDE DEF q
  <2>5. /\ 1 \in 1 .. m - p + 1 /\ 2 \in 1 .. m - p + 1
        /\ 3 \in 1 .. m - p + 1 /\ 4 \in 1 .. m - p + 1
        /\ p + 1 - 1 = p /\ p + 2 - 1 = p + 1 /\ p + 3 - 1 = p + 2 /\ p + 4 - 1 = p + 3
    BY <2>2
  <2>6. /\ q[1] = s[p + 1 - 1] /\ q[2] = s[p + 2 - 1]
        /\ q[3] = s[p + 3 - 1] /\ q[4] = s[p + 4 - 1]
    BY <2>3, <2>4, <2>5, Zenon
  <2> QED BY <2>5, <2>6, Zenon
<1> HIDE DEF q, d, e, f, g
<1> DEFINE y == f % 64
           z == g % 64
           n == d * 262144 + e * 4096 + y * 64 + z
           t == << n \div 65536, (n \div 256) % 256, n % 256 >>
           done == IF f = Pad THEN 2 ELSE IF g = Pad THEN 1 ELSE 0
<1>6. Octets(q) = SubSeq(t, 1, 3 - done) BY <1>5, SMT DEF Octets
<1>7. d \in Digit /\ y \in Digit /\ z \in Digit
  <2>1. d \in Digit BY DEF d
  <2> QED BY <1>3, <2>1 DEF Digit, Pad
<1> DEFINE v == Eights(d, e, y, z)
<1>8. t = v
  <2>1. ASSUME NEW x, x = n
        PROVE  /\ x \div 65536 = d * 4 + e \div 16
               /\ (x \div 256) % 256 = (e % 16) * 16 + y \div 4
               /\ x % 256 = (y % 4) * 64 + z
    <3> HIDE DEF y, z
    <3> QED BY ONLY <1>3, <1>7, <2>1, EightsOf, SMT
  <2> HIDE DEF y, z
  <2> QED BY <2>1, SMT DEF Eights
<1>9. v[1] \in Octet /\ v[2] \in Octet /\ v[3] \in Octet /\ Len(v) = 3
  <2> HIDE DEF y, z
  <2> QED BY <1>3, <1>7, SixesOfEights, SMT DEF Eights
<1>10. 3 - done = Left(s, p) /\ 3 - done \in 1 .. 3
  <2>1. Left(s, p) = IF f = Pad THEN 1 ELSE IF g = Pad THEN 2 ELSE 3
    BY Zenon DEF Left, f, g
  <2> QED BY <2>1
<1>11. v = Three(s, p) BY Zenon DEF Three, d, e, f, g
<1> HIDE DEF t, v, done
<1> DEFINE m == 3 - done
           u == SubSeq(v, 1, m)
<1>12. u \in Seq(Octet) /\ Len(u) = m /\ \A j \in 1 .. 3 : j <= m => u[j] = v[j]
  <2>1. \A i \in 1 .. m : v[i] \in Octet
    <3>1. \A i \in 1 .. m : i = 1 \/ i = 2 \/ i = 3 BY <1>10
    <3> QED BY <1>9, <3>1
  <2>2. m \in 1 .. 3 BY <1>10
  <2> HIDE DEF m
  <2>3. u \in Seq(Octet) /\ Len(u) = m /\ \A i \in 1 .. m : u[i] = v[1 + i - 1]
    BY <2>1, <2>2, SubSeqProperties
  <2>4. \A i \in 1 .. m : 1 + i - 1 = i BY <2>2
  <2> HIDE DEF u
  <2> QED BY <2>2, <2>3, <2>4
<1>13. Octets(q) = u BY <1>6, <1>8
<1> QED BY <1>10, <1>11, <1>12, <1>13, Zenon DEF q

(* u is what base64_decode() has to yield of k digits from quartet g on.   *)
DecodedBehind(s, k, g, u) ==
  /\ u \in Seq(Octet) /\ Len(u) = (6 * (k - 4 * g)) \div 8
  /\ \A h \in Nat : \A j \in 1 .. 3 :
       h >= g /\ 3 * (h - g) + j <= Len(u) => u[3 * (h - g) + j] = Three(s, 4 * h + 1)[j]

(* What of a single quartet.                                               *)
LEMMA SingleQuartet ==
  ASSUME NEW s, NEW k \in Nat, NEW g \in Nat, NEW u \in Seq(Octet),
         Len(u) = (6 * (k - 4 * g)) \div 8, Len(u) <= 3,
         \A j \in 1 .. 3 : j <= Len(u) => u[j] = Three(s, 4 * g + 1)[j]
  PROVE  DecodedBehind(s, k, g, u)
<1>1. ASSUME NEW h \in Nat, NEW j \in 1 .. 3, h >= g, 3 * (h - g) + j <= Len(u)
      PROVE  u[3 * (h - g) + j] = Three(s, 4 * h + 1)[j]
  <2> DEFINE m == Len(u)
  <2>1. m \in Nat /\ m <= 3 /\ 3 * (h - g) + j <= m /\ h >= g
        /\ h \in Nat /\ g \in Nat /\ j \in 1 .. 3
    BY <1>1
  <2> HIDE DEF m
  <2>2. h = g BY ONLY <2>1
  <2>3. 3 * (g - g) + j = j BY <1>1
  <2>4. j <= Len(u) BY <1>1, <2>2, <2>3
  <2>5. u[j] = Three(s, 4 * g + 1)[j] BY <2>4, Zenon
  <2> QED BY <2>2, <2>3, <2>5
<1> QED BY <1>1, Zenon DEF DecodedBehind

(* The end of a text, from the last quartet with fewer than four digits on.*)
LEMMA LastQuartet ==
  ASSUME NEW text \in Seq(Digit \cup {Pad, Foreign}), NEW s, s = Append(text, Nul),
         NEW k, k = Digits(text), NEW g, g = k \div 4, NEW f,
         \A p \in 1 .. Len(s) : f[p] = QuartetDecoded(s, f, p)
  PROVE  /\ Padded(text) => DecodedBehind(s, k, g, f[4 * g + 1])
         /\ ~Padded(text) => f[4 * g + 1] = Invalid
<1> DEFINE p == 4 * g + 1
           r == k % 4
           due == (4 - r) % 4
           u == Octets(SubSeq(s, p, p + 3))
<1>1. /\ k \in 0 .. Len(text) /\ Len(s) = Len(text) + 1 /\ Len(text) \in Nat
      /\ \A i \in 1 .. Len(text) : s[i] = text[i]
      /\ \A i \in 1 .. k : s[i] \in Digit
      /\ s[k + 1] \notin Digit
      /\ \A i \in 1 .. Len(s) : s[i] = Pad => i \in 1 .. Len(text)
  <2>1. DigitsEnd(text, s, k) BY DigitsFacts, Zenon
  <2> QED BY <2>1, Zenon DEF DigitsEnd
<1>2. k \in Nat /\ g \in Nat /\ r \in 0 .. 3 /\ k = 4 * g + r
  <2>1. k \in Nat /\ g = k \div 4 BY <1>1
  <2> QED BY ONLY <2>1
<1> HIDE DEF r
<1>3. Padded(text) <=> /\ r # 1 /\ Len(text) >= k + due
                       /\ \A i \in k + 1 .. k + due : text[i] = Pad
  <2> DEFINE K == Digits(text)
             R == K % 4
             D == (4 - R) % 4
  <2>1. Padded(text) <=> /\ R # 1 /\ Len(text) >= K + D
                         /\ \A i \in K + 1 .. K + D : text[i] = Pad
    BY Zenon DEF Padded
  <2>2. k = K OBVIOUS
  <2>3. r = R /\ due = D BY Zenon DEF r
  <2> HIDE DEF K, R, D, r, due
  <2> QED BY <2>1, <2>2, <2>3, Zenon
<1>4. p \in 1 .. Len(s) /\ (r > 0 => p \in 1 .. Len(text))
  <2>1. Len(s) = Len(text) + 1 /\ Len(text) \in Nat /\ k <= Len(text) BY <1>1
  <2> QED BY ONLY <1>2, <2>1
<1>5. f[p] = QuartetDecoded(s, f, p) BY <1>4, Zenon
<1>6. Pad \notin Digit BY DEF Pad, Digit
<1>7. ASSUME s[p] \in Digit, Quartet(s, p), r > 0
      PROVE  /\ u \in Seq(Octet) /\ Len(u) = Left(s, p) /\ Len(u) <= 3
             /\ \A j \in 1 .. 3 : j <= Len(u) => u[j] = Three(s, p)[j]
  <2>1. p \in 1 .. Len(text) BY <1>4, <1>7
  <2>2. /\ u \in Seq(Octet) /\ Len(u) = Left(s, p)
        /\ \A j \in 1 .. 3 : j <= Left(s, p) => u[j] = Three(s, p)[j]
    <3> HIDE DEF p
    <3> QED BY <1>7, <2>1, QuartetFacts, Zenon
  <2>3. Left(s, p) \in 1 .. 3 BY DEF Left
  <2> HIDE DEF u, p
  <2> QED BY <2>2, <2>3
<1>8. CASE r = 0
  <2>1. due = 0 /\ p = k + 1 /\ k + due = k BY ONLY <1>2, <1>8
  <2>2. Padded(text)
    <3>1. k + 1 .. k + due = {}
      <4> HIDE DEF due
      <4>1. k \in Nat /\ k + due = k BY <1>2, <2>1, Zenon
      <4>2. k + 1 .. k = {} BY ONLY <4>1
      <4> QED BY <4>1, <4>2, Zenon
    <3>2. r # 1 /\ Len(text) >= k + due BY <1>1, <1>8, <2>1
    <3> HIDE DEF due, r
    <3> QED BY <1>3, <3>1, <3>2, Zenon
  <2>3. f[p] = <<>> BY <1>1, <1>5, <2>1 DEF QuartetDecoded
  <2> DEFINE v == f[p]
  <2>4. v \in Seq(Octet) /\ Len(v) = 0 BY <2>3
  <2>5. (6 * (k - 4 * g)) \div 8 = 0 BY ONLY <1>2, <1>8
  <2> HIDE DEF v
  <2>6. DecodedBehind(s, k, g, v)
    <3>1. Len(v) = (6 * (k - 4 * g)) \div 8 /\ Len(v) <= 3 BY <2>4, <2>5
    <3>2. \A j \in 1 .. 3 : j <= Len(v) => v[j] = Three(s, 4 * g + 1)[j] BY <2>4
    <3> QED BY <1>2, <2>4, <3>1, <3>2, SingleQuartet, Zenon
  <2> QED BY <2>2, <2>6, Zenon DEF v, p
<1>9. CASE r = 1
  <2>1. p + 1 = k + 1 /\ p \in 1 .. k BY ONLY <1>2, <1>9
  <2>2. s[p] \in Digit /\ s[p + 1] \notin Digit BY <1>1, <2>1
  <2>3. ~Quartet(s, p) BY <2>2, Zenon DEF Quartet
  <2>4. f[p] = Invalid BY <1>5, <2>2, <2>3, Zenon DEF QuartetDecoded
  <2>5. ~Padded(text) BY <1>3, <1>9, Zenon
  <2> QED BY <2>4, <2>5, Zenon
<1>10. CASE r = 2
  <2>1. /\ due = 2 /\ p + 2 = k + 1 /\ p + 3 = k + 2 /\ p \in 1 .. k /\ p + 1 \in 1 .. k
        /\ r > 0 /\ r # 1
    BY ONLY <1>2, <1>10
  <2>2. s[p] \in Digit /\ s[p + 1] \in Digit /\ s[p + 2] \notin Digit BY <1>1, <2>1
  <2>3. Quartet(s, p) <=> s[p + 2] = Pad /\ s[p + 3] = Pad BY <2>2, <1>6, Zenon DEF Quartet
  <2>4. Padded(text) <=> s[p + 2] = Pad /\ s[p + 3] = Pad
    <3>1. ASSUME s[p + 2] = Pad, s[p + 3] = Pad PROVE Padded(text)
      <4>1. k + 1 \in 1 .. Len(s) BY <1>1
      <4>2. s[k + 1] = Pad BY <2>1, <3>1
      <4>3. k + 1 \in 1 .. Len(text) BY <1>1, <4>1, <4>2, Zenon
      <4>4. k + 2 \in 1 .. Len(s) BY <1>1, <4>3
      <4>5. s[k + 2] = Pad BY <2>1, <3>1
      <4>6. k + 2 \in 1 .. Len(text) BY <1>1, <4>4, <4>5, Zenon
      <4>7. text[k + 1] = Pad /\ text[k + 2] = Pad BY <1>1, <4>2, <4>3, <4>5, <4>6, Zenon
      <4>8. \A i \in k + 1 .. k + 2 : i = k + 1 \/ i = k + 2 BY ONLY <1>2
      <4>9. \A i \in k + 1 .. k + due : text[i] = Pad BY <2>1, <4>7, <4>8
      <4>10. Len(text) >= k + due BY <1>1, <2>1, <4>6
      <4> QED BY <1>3, <2>1, <4>9, <4>10, Zenon
    <3>2. ASSUME Padded(text) PROVE s[p + 2] = Pad /\ s[p + 3] = Pad
      <4>1. Len(text) >= k + 2 /\ \A i \in k + 1 .. k + 2 : text[i] = Pad
        BY <1>3, <2>1, <3>2
      <4>2. k + 1 \in k + 1 .. k + 2 /\ k + 2 \in k + 1 .. k + 2 BY ONLY <1>2
      <4>3. k + 1 \in 1 .. Len(text) /\ k + 2 \in 1 .. Len(text) BY <1>1, <4>1
      <4>4. s[k + 1] = Pad /\ s[k + 2] = Pad BY <1>1, <4>1, <4>2, <4>3, Zenon
      <4> QED BY <2>1, <4>4
    <3> QED BY <3>1, <3>2, Zenon
  <2>5. CASE Padded(text)
    <3>1. f[p] = u BY <1>5, <2>2, <2>3, <2>4, <2>5, Zenon DEF QuartetDecoded
    <3>2. /\ u \in Seq(Octet) /\ Len(u) = Left(s, p) /\ Len(u) <= 3
          /\ \A j \in 1 .. 3 : j <= Len(u) => u[j] = Three(s, p)[j]
      BY <1>7, <2>1, <2>2, <2>3, <2>4, <2>5, Zenon
    <3>3. Left(s, p) = 1 BY <2>4, <2>5 DEF Left
    <3>4. (6 * (k - 4 * g)) \div 8 = 1 BY ONLY <1>2, <1>10
    <3> HIDE DEF u
    <3>5. \A j \in 1 .. 3 : j <= Len(u) => u[j] = Three(s, 4 * g + 1)[j] BY <3>2, Zenon DEF p
    <3> HIDE DEF p
    <3>6. Len(u) = (6 * (k - 4 * g)) \div 8 BY <3>2, <3>3, <3>4
    <3>7. DecodedBehind(s, k, g, u) BY <1>2, <3>2, <3>5, <3>6, SingleQuartet, Zenon
    <3> QED BY <2>5, <3>1, <3>7, Zenon DEF p
  <2>6. CASE ~Padded(text)
    <3>1. f[p] = Invalid BY <1>5, <2>2, <2>3, <2>4, <2>6, Zenon DEF QuartetDecoded
    <3> QED BY <2>6, <3>1, Zenon
  <2> QED BY <2>5, <2>6, Zenon
<1>11. CASE r = 3
  <2>1. /\ due = 1 /\ p + 3 = k + 1 /\ p \in 1 .. k /\ p + 1 \in 1 .. k /\ p + 2 \in 1 .. k
        /\ r > 0 /\ r # 1
    BY ONLY <1>2, <1>11
  <2>2. s[p] \in Digit /\ s[p + 1] \in Digit /\ s[p + 2] \in Digit /\ s[p + 3] \notin Digit
    BY <1>1, <2>1
  <2>3. s[p + 2] # Pad BY <1>6, <2>2
  <2>4. Quartet(s, p) <=> s[p + 3] = Pad BY <2>2, <2>3, Zenon DEF Quartet
  <2>5. Padded(text) <=> s[p + 3] = Pad
    <3>1. ASSUME s[p + 3] = Pad PROVE Padded(text)
      <4>1. k + 1 \in 1 .. Len(s) BY <1>1
      <4>2. s[k + 1] = Pad BY <2>1, <3>1
      <4>3. k + 1 \in 1 .. Len(text) BY <1>1, <4>1, <4>2, Zenon
      <4>4. text[k + 1] = Pad BY <1>1, <4>2, <4>3, Zenon
      <4>5. \A i \in k + 1 .. k + 1 : i = k + 1 BY <1>2
      <4>6. \A i \in k + 1 .. k + due : text[i] = Pad BY <2>1, <4>4, <4>5
      <4>7. Len(text) >= k + due BY <1>1, <2>1, <4>3
      <4> QED BY <1>3, <2>1, <4>6, <4>7, Zenon
    <3>2. ASSUME Padded(text) PROVE s[p + 3] = Pad
      <4>1. Len(text) >= k + 1 /\ \A i \in k + 1 .. k + 1 : text[i] = Pad
        BY <1>3, <2>1, <3>2
      <4>2. k + 1 \in k + 1 .. k + 1 /\ k + 1 \in 1 .. Len(text) BY <1>1, <4>1
      <4>3. s[k + 1] = Pad BY <1>1, <4>1, <4>2, Zenon
      <4> QED BY <2>1, <4>3
    <3> QED BY <3>1, <3>2, Zenon
  <2>6. CASE Padded(text)
    <3>1. f[p] = u BY <1>5, <2>2, <2>4, <2>5, <2>6, Zenon DEF QuartetDecoded
    <3>2. /\ u \in Seq(Octet) /\ Len(u) = Left(s, p) /\ Len(u) <= 3
          /\ \A j \in 1 .. 3 : j <= Len(u) => u[j] = Three(s, p)[j]
      BY <1>7, <2>1, <2>2, <2>4, <2>5, <2>6, Zenon
    <3>3. Left(s, p) = 2 BY <2>3, <2>5, <2>6 DEF Left
    <3>4. (6 * (k - 4 * g)) \div 8 = 2 BY ONLY <1>2, <1>11
    <3> HIDE DEF u
    <3>5. \A j \in 1 .. 3 : j <= Len(u) => u[j] = Three(s, 4 * g + 1)[j] BY <3>2, Zenon DEF p
    <3> HIDE DEF p
    <3>6. Len(u) = (6 * (k - 4 * g)) \div 8 BY <3>2, <3>3, <3>4
    <3>7. DecodedBehind(s, k, g, u) BY <1>2, <3>2, <3>5, <3>6, SingleQuartet, Zenon
    <3> QED BY <2>6, <3>1, <3>7, Zenon DEF p
  <2>7. CASE ~Padded(text)
    <3>1. f[p] = Invalid BY <1>5, <2>2, <2>4, <2>5, <2>7, Zenon DEF QuartetDecoded
    <3> QED BY <2>7, <3>1, Zenon
  <2> QED BY <2>6, <2>7, Zenon
<1> QED BY <1>2, <1>8, <1>9, <1>10, <1>11

(* Octets are never mistaken for the result -1.                            *)
LEMMA NotInvalid == \A u \in Seq(Octet) : u # Invalid
<1> SUFFICES ASSUME NEW u \in Seq(Octet), u = Invalid PROVE FALSE OBVIOUS
<1>1. Len(Invalid) = 1 /\ Invalid[1] = -1 BY DEF Invalid
<1>2. \A i \in 1 .. Len(u) : u[i] \in Octet OBVIOUS
<1>3. 1 \in 1 .. Len(Invalid) BY <1>1
<1>4. Invalid[1] \in Octet BY <1>2, <1>3, Zenon
<1> QED BY <1>1, <1>4 DEF Octet

(* A quartet of four digits before the rest.                               *)
LEMMA AnotherQuartet ==
  ASSUME NEW s, NEW k \in Nat, NEW g \in Nat, 4 * g + 4 <= k,
         NEW t \in Seq(Octet), Len(t) = 3,
         \A j \in 1 .. 3 : t[j] = Three(s, 4 * g + 1)[j],
         NEW u, DecodedBehind(s, k, g + 1, u), NEW v, v = t \o u
  PROVE  DecodedBehind(s, k, g, v)
<1>1. /\ u \in Seq(Octet) /\ Len(u) = (6 * (k - 4 * (g + 1))) \div 8
      /\ \A h \in Nat : \A j \in 1 .. 3 :
           h >= g + 1 /\ 3 * (h - (g + 1)) + j <= Len(u)
             => u[3 * (h - (g + 1)) + j] = Three(s, 4 * h + 1)[j]
  BY Zenon DEF DecodedBehind
<1>2. /\ v \in Seq(Octet) /\ Len(v) = Len(t) + Len(u) /\ Len(u) \in Nat
      /\ \A i \in 1 .. Len(t) : v[i] = t[i]
      /\ \A i \in 1 .. Len(u) : v[Len(t) + i] = u[i]
  <2>1. t \in Seq(Octet) /\ u \in Seq(Octet) BY <1>1
  <2>2. /\ t \o u \in Seq(Octet) /\ Len(t \o u) = Len(t) + Len(u)
        /\ Len(t) \in Nat /\ Len(u) \in Nat
        /\ \A i \in 1 .. Len(t) : (t \o u)[i] = t[i]
        /\ \A i \in 1 .. Len(u) : (t \o u)[Len(t) + i] = u[i]
    BY ONLY <2>1, ConcatFacts
  <2> QED BY <2>2, Zenon
<1>3. Len(v) = (6 * (k - 4 * g)) \div 8
  <2> DEFINE m == k - 4 * (g + 1)
  <2>1. m \in Nat /\ k - 4 * g = m + 4 OBVIOUS
  <2>2. Len(u) = (6 * m) \div 8 /\ Len(v) = 3 + Len(u) BY <1>1, <1>2
  <2> HIDE DEF m
  <2>3. (6 * (m + 4)) \div 8 = 3 + ((6 * m) \div 8) BY ONLY <2>1
  <2> QED BY <2>1, <2>2, <2>3
<1>4. ASSUME NEW h \in Nat, NEW j \in 1 .. 3, h >= g, 3 * (h - g) + j <= Len(v)
      PROVE  v[3 * (h - g) + j] = Three(s, 4 * h + 1)[j]
  <2>1. CASE h = g
    <3>1. 3 * (h - g) + j = j /\ j \in 1 .. Len(t) BY <2>1
    <3>2. v[j] = t[j] BY <1>2, <3>1, Zenon
    <3>3. t[j] = Three(s, 4 * g + 1)[j] OBVIOUS
    <3> QED BY <2>1, <3>1, <3>2, <3>3
  <2>2. CASE h # g
    <3> DEFINE i == 3 * (h - (g + 1)) + j
    <3>1. h >= g + 1 /\ i \in 1 .. Len(u) /\ i <= Len(u) /\ 3 * (h - g) + j = Len(t) + i
      <4>1. Len(v) = 3 + Len(u) BY <1>2
      <4>2. h >= g + 1 BY <1>4, <2>2
      <4>3. i \in Nat \ {0} /\ 3 * (h - g) + j = 3 + i BY <4>2
      <4> HIDE DEF i
      <4> QED BY <1>2, <1>4, <4>1, <4>2, <4>3
    <3>2. u[i] = Three(s, 4 * h + 1)[j] BY <1>1, <3>1, Zenon
    <3> HIDE DEF i
    <3>3. v[Len(t) + i] = u[i] BY <1>2, <3>1, Zenon
    <3> QED BY <3>1, <3>2, <3>3
  <2> QED BY <2>1, <2>2
<1> QED BY <1>2, <1>3, <1>4, Zenon DEF DecodedBehind

(* A text, whole.                                                          *)
LEMMA DecodedText ==
  ASSUME NEW text \in Seq(Digit \cup {Pad, Foreign}), NEW s, s = Append(text, Nul),
         NEW k, k = Digits(text)
  PROVE  /\ Padded(text) => DecodedBehind(s, k, 0, Decode(text))
         /\ ~Padded(text) => Decode(text) = Invalid
<1> DEFINE f == DecodeFrom(s)
           K == k \div 4
           Good(g) == /\ Padded(text) => DecodedBehind(s, k, g, f[4 * g + 1])
                      /\ ~Padded(text) => f[4 * g + 1] = Invalid
           T == {d \in Nat : d <= K => Good(K - d)}
<1>1. /\ k \in 0 .. Len(text) /\ Len(s) = Len(text) + 1 /\ Len(text) \in Nat
      /\ \A i \in 1 .. k : s[i] \in Digit
  <2>1. DigitsEnd(text, s, k) BY DigitsFacts, Zenon
  <2> QED BY <2>1, Zenon DEF DigitsEnd
<1>2. \A p \in 1 .. Len(s) : f[p] = QuartetDecoded(s, f, p)
  <2>1. IsString(s) BY Zenon DEF IsString
  <2> QED BY <2>1, DecodeFromDef, Zenon
<1>3. f[1] = Decode(text) BY Zenon DEF Decode
<1> HIDE DEF f
<1>4. k \in Nat /\ K \in Nat /\ 4 * K <= k
  <2>1. k \in Nat BY <1>1
  <2> QED BY ONLY <2>1
<1>5. Good(K)
  <2> HIDE DEF K
  <2>1. K = k \div 4 BY DEF K
  <2> QED BY <1>2, <2>1, LastQuartet, Zenon
<1> HIDE DEF K
<1>6. ASSUME NEW g \in Nat, g < K, Good(g + 1) PROVE Good(g)
  <2> DEFINE p == 4 * g + 1
             t == Octets(SubSeq(s, p, p + 3))
             u == f[4 * (g + 1) + 1]
  <2>1. /\ 4 * g + 4 <= k /\ p \in 1 .. k /\ p + 1 \in 1 .. k /\ p + 2 \in 1 .. k
        /\ p + 3 \in 1 .. k /\ p + 4 = 4 * (g + 1) + 1
    BY ONLY <1>4, <1>6, g \in Nat
  <2>2. s[p] \in Digit /\ s[p + 1] \in Digit /\ s[p + 2] \in Digit /\ s[p + 3] \in Digit
    BY <1>1, <2>1, Zenon
  <2>3. Pad \notin Digit BY DEF Pad, Digit
  <2>4. s[p + 2] # Pad /\ s[p + 3] # Pad BY <2>2, <2>3, Zenon
  <2>5. Quartet(s, p) BY <2>2, <2>4, Zenon DEF Quartet
  <2>6. p \in 1 .. Len(text) /\ p \in 1 .. Len(s)
    <3>1. p \in 1 .. k /\ k <= Len(text) /\ Len(s) = Len(text) + 1 /\ Len(text) \in Nat
          /\ k \in Nat
      BY <1>1, <1>4, <2>1
    <3> HIDE DEF p
    <3> QED BY ONLY <3>1
  <2>7. f[p] = IF u = Invalid THEN Invalid ELSE t \o u
    <3>1. f[p] = QuartetDecoded(s, f, p) BY <1>2, <2>6, Zenon
    <3>2. f[p] = IF f[p + 4] = Invalid THEN Invalid ELSE t \o f[p + 4]
      BY <2>2, <2>4, <2>5, <3>1, Zenon DEF QuartetDecoded
    <3>3. f[p + 4] = u BY <2>1
    <3> HIDE DEF p, t, u
    <3> QED BY <3>2, <3>3, Zenon
  <2>8. /\ t \in Seq(Octet) /\ Len(t) = 3
        /\ \A j \in 1 .. 3 : t[j] = Three(s, p)[j]
    <3>1. /\ t \in Seq(Octet) /\ Len(t) = Left(s, p)
          /\ \A j \in 1 .. 3 : j <= Left(s, p) => t[j] = Three(s, p)[j]
      <4> HIDE DEF p
      <4> QED BY <2>2, <2>5, <2>6, QuartetFacts, Zenon
    <3>2. Left(s, p) = 3 BY <2>4, Zenon DEF Left
    <3> HIDE DEF t, p
    <3> QED BY <3>1, <3>2
  <2>9. CASE Padded(text)
    <3>1. DecodedBehind(s, k, g + 1, u) BY <1>6, <2>9, Zenon
    <3>2. u # Invalid
      <4>1. u \in Seq(Octet) BY <3>1, Zenon DEF DecodedBehind
      <4> QED BY <4>1, NotInvalid, Zenon
    <3>3. f[p] = t \o u BY <2>7, <3>2, Zenon
    <3> HIDE DEF t, u
    <3>4. /\ k \in Nat /\ g \in Nat /\ 4 * g + 4 <= k /\ t \in Seq(Octet) /\ Len(t) = 3
          /\ \A j \in 1 .. 3 : t[j] = Three(s, 4 * g + 1)[j]
      BY <1>4, <2>1, <2>8, Zenon DEF p
    <3>5. DecodedBehind(s, k, g, t \o u) BY ONLY <3>1, <3>4, AnotherQuartet, Zenon
    <3>6. DecodedBehind(s, k, g, f[p]) BY <3>3, <3>5, Zenon
    <3> QED BY <2>9, <3>6, Zenon
  <2>10. CASE ~Padded(text)
    <3>1. u = Invalid BY <1>6, <2>10, Zenon
    <3> QED BY <2>7, <2>10, <3>1, Zenon
  <2> QED BY <2>9, <2>10, Zenon
<1>7. 0 \in T
  <2> HIDE DEF Good
  <2>1. K - 0 = K BY <1>4
  <2> QED BY <1>5, <2>1
<1>8. ASSUME NEW d \in Nat, d \in T PROVE d + 1 \in T
  <2> HIDE DEF Good
  <2> SUFFICES ASSUME d + 1 <= K PROVE Good(K - (d + 1)) OBVIOUS
  <2> DEFINE g == K - (d + 1)
  <2>1. g \in Nat /\ g < K /\ g + 1 = K - d /\ d <= K BY <1>4
  <2>2. Good(K - d) BY <1>8, <2>1
  <2> HIDE DEF g
  <2>3. Good(g + 1) BY <2>1, <2>2
  <2> QED BY <1>6, <2>1, <2>3, Zenon DEF g
<1>9. Nat \subseteq T
  <2> HIDE DEF T
  <2> QED BY <1>7, <1>8, Induction
<1>10. Good(0)
  <2> HIDE DEF Good
  <2>1. K \in T BY <1>4, <1>9
  <2>2. K - K = 0 /\ K <= K BY <1>4
  <2> QED BY <2>1, <2>2
<1>11. 4 * 0 + 1 = 1 OBVIOUS
<1> QED BY <1>3, <1>10, <1>11

(* The four numbers that a quartet with two digits or more stands for: the *)
(* digits, and zeroes for the padding.                                     *)
Quad(s, h) == [x \in 1 .. 4 |-> s[4 * h + x] % 64]

(* A padded text has all four of them.                                     *)
LEMMA QuadFacts ==
  ASSUME NEW text \in Seq(Digit \cup {Pad, Foreign}), NEW s, s = Append(text, Nul),
         NEW k, k = Digits(text), Padded(text), NEW h \in Nat, 4 * h + 2 <= k
  PROVE  \A x \in 1 .. 4 : /\ Quad(s, h)[x] \in Digit
                           /\ 4 * h + x <= k => Quad(s, h)[x] = s[4 * h + x]
<1> DEFINE r == k % 4
           due == (4 - r) % 4
<1>1. /\ k \in 0 .. Len(text) /\ Len(text) \in Nat
      /\ \A i \in 1 .. Len(text) : s[i] = text[i]
      /\ \A i \in 1 .. k : s[i] \in Digit
  <2>1. DigitsEnd(text, s, k) BY DigitsFacts, Zenon
  <2> QED BY <2>1, Zenon DEF DigitsEnd
<1>2. /\ r # 1 /\ Len(text) >= k + due
      /\ \A i \in k + 1 .. k + due : text[i] = Pad
  <2> DEFINE K == Digits(text)
             R == K % 4
             D == (4 - R) % 4
  <2>1. /\ R # 1 /\ Len(text) >= K + D
        /\ \A i \in K + 1 .. K + D : text[i] = Pad
    BY Zenon DEF Padded
  <2>2. k = K OBVIOUS
  <2>3. r = R /\ due = D BY Zenon
  <2> HIDE DEF K, R, D, r, due
  <2> QED BY <2>1, <2>2, <2>3, Zenon
<1>3. k \in Nat /\ k % 4 = r /\ due \in 0 .. 3 BY <1>1
<1>4. ASSUME NEW x \in 1 .. 4, 4 * h + x > k
      PROVE  4 * h + x \in k + 1 .. k + due
  <2>1. h \in Nat /\ 4 * h + 2 <= k /\ x \in 1 .. 4 /\ 4 * h + x > k /\ due = (4 - r) % 4
    BY <1>4
  <2> HIDE DEF due, r
  <2>2. k = 4 * h + 2 \/ k = 4 * h + 3 BY ONLY <1>3, <2>1
  <2>3. (k = 4 * h + 2 => r = 2) /\ (k = 4 * h + 3 => r = 3)
    <3>1. k % 4 = r /\ h \in Nat /\ k \in Nat BY <1>3
    <3> QED BY ONLY <3>1
  <2>4. (k = 4 * h + 2 => due = 2) /\ (k = 4 * h + 3 => due = 1) BY ONLY <2>1, <2>3
  <2>5. CASE k = 4 * h + 2
    <3>1. due = 2 BY <2>4, <2>5
    <3> QED BY ONLY <1>3, <2>1, <2>5, <3>1
  <2>6. CASE k = 4 * h + 3
    <3>1. due = 1 BY <2>4, <2>6
    <3> QED BY ONLY <1>3, <2>1, <2>6, <3>1
  <2> QED BY <2>2, <2>5, <2>6
<1>5. \A y \in Digit : y % 64 = y BY DEF Digit
<1>6. Pad % 64 = 0 /\ 0 \in Digit BY DEF Pad, Digit
<1> HIDE DEF due, r
<1>7. ASSUME NEW x \in 1 .. 4
      PROVE  /\ Quad(s, h)[x] \in Digit
             /\ 4 * h + x <= k => Quad(s, h)[x] = s[4 * h + x]
  <2>1. Quad(s, h)[x] = s[4 * h + x] % 64 BY Zenon DEF Quad
  <2>2. CASE 4 * h + x <= k
    <3>1. 4 * h + x \in 1 .. k
      <4>1. h \in Nat /\ x \in 1 .. 4 OBVIOUS
      <4> QED BY ONLY <1>3, <2>2, <4>1
    <3>2. s[4 * h + x] \in Digit BY <1>1, <3>1, Zenon
    <3>3. s[4 * h + x] % 64 = s[4 * h + x] BY <1>5, <3>2, Zenon
    <3> QED BY <2>1, <3>2, <3>3, Zenon
  <2>3. CASE ~(4 * h + x <= k)
    <3>1. 4 * h + x > k BY <1>3, <2>3
    <3>2. 4 * h + x \in k + 1 .. k + due BY <1>4, <3>1
    <3>3. text[4 * h + x] = Pad BY <1>2, <3>2, Zenon
    <3>4. 4 * h + x \in 1 .. Len(text)
      <4> DEFINE i == 4 * h + x
      <4>1. i \in k + 1 .. k + due BY <3>2
      <4> HIDE DEF i
      <4>2. i \in 1 .. Len(text) BY <1>1, <1>2, <1>3, <4>1
      <4> QED BY <4>2 DEF i
    <3>5. s[4 * h + x] = Pad BY <1>1, <3>3, <3>4, Zenon
    <3> QED BY <1>6, <2>1, <2>3, <3>5, Zenon
  <2> QED BY <2>2, <2>3
<1> QED BY <1>7

(* Its octets have the bits of the digits.                                 *)
LEMMA ThreeInSixes ==
  ASSUME NEW text \in Seq(Digit \cup {Pad, Foreign}), NEW s, s = Append(text, Nul),
         NEW k, k = Digits(text), Padded(text), NEW h \in Nat, 4 * h + 2 <= k
  PROVE  LET o == Three(s, 4 * h + 1)
         IN  /\ o[1] \in Octet /\ o[2] \in Octet /\ o[3] \in Octet
             /\ o = <<o[1], o[2], o[3]>> /\ InSixes(o[1], o[2], o[3], Quad(s, h))
<1> DEFINE m == Quad(s, h)
           d == m[1]
           e == m[2]
           f == m[3]
           g == m[4]
<1>1. \A x \in 1 .. 4 : m[x] \in Digit /\ (4 * h + x <= k => m[x] = s[4 * h + x])
  BY QuadFacts, Zenon
<1>2. d \in Digit /\ e \in Digit /\ f \in Digit /\ g \in Digit
  <2> HIDE DEF m
  <2> QED BY <1>1
<1>3. d = s[4 * h + 1] /\ e = s[4 * h + 2] /\ f = s[4 * h + 3] % 64 /\ g = s[4 * h + 4] % 64
  <2>1. f = s[4 * h + 3] % 64 /\ g = s[4 * h + 4] % 64
    <3>1. \A x \in 1 .. 4 : m[x] = s[4 * h + x] % 64 BY Zenon DEF Quad
    <3>2. 3 \in 1 .. 4 /\ 4 \in 1 .. 4 OBVIOUS
    <3> HIDE DEF m
    <3> QED BY <3>1, <3>2, Zenon
  <2>2. d = s[4 * h + 1] /\ e = s[4 * h + 2]
    <3>1. k \in Nat
      <4>1. DigitsEnd(text, s, k) BY DigitsFacts, Zenon
      <4> QED BY <4>1 DEF DigitsEnd
    <3>2. 4 * h + 1 <= k /\ 4 * h + 2 <= k BY <3>1
    <3>3. 1 \in 1 .. 4 /\ 2 \in 1 .. 4 OBVIOUS
    <3> HIDE DEF m
    <3> QED BY <1>1, <3>2, <3>3, Zenon
  <2> HIDE DEF m
  <2> QED BY <2>1, <2>2
<1> HIDE DEF m, d, e, f, g
<1> DEFINE o == Three(s, 4 * h + 1)
<1>4. o = Eights(d, e, f, g)
  <2>1. 4 * h + 1 + 1 = 4 * h + 2 /\ 4 * h + 1 + 2 = 4 * h + 3 /\ 4 * h + 1 + 3 = 4 * h + 4
    OBVIOUS
  <2>2. o = Eights(s[4 * h + 1], s[4 * h + 1 + 1], s[4 * h + 1 + 2] % 64, s[4 * h + 1 + 3] % 64)
    BY Zenon DEF Three
  <2> HIDE DEF o
  <2> QED BY <1>3, <2>1, <2>2
<1> HIDE DEF o
<1>5. o[1] = d * 4 + e \div 16 /\ o[2] = (e % 16) * 16 + f \div 4 /\ o[3] = (f % 4) * 64 + g
      /\ o = <<o[1], o[2], o[3]>>
  BY <1>4 DEF Eights
<1>6. /\ d * 4 + e \div 16 \in Octet /\ (e % 16) * 16 + f \div 4 \in Octet
      /\ (f % 4) * 64 + g \in Octet
      /\ (d * 4 + e \div 16) \div 4 = d
      /\ ((d * 4 + e \div 16) % 4) * 16 + ((e % 16) * 16 + f \div 4) \div 16 = e
      /\ (((e % 16) * 16 + f \div 4) % 16) * 4 + ((f % 4) * 64 + g) \div 64 = f
      /\ ((f % 4) * 64 + g) % 64 = g
  BY ONLY <1>2, SixesOfEights
<1>7. /\ o[1] \in Octet /\ o[2] \in Octet /\ o[3] \in Octet
      /\ o[1] \div 4 = d /\ (o[1] % 4) * 16 + o[2] \div 16 = e
      /\ (o[2] % 16) * 4 + o[3] \div 64 = f /\ o[3] % 64 = g
  BY <1>5, <1>6, Zenon
<1>8. InSixes(o[1], o[2], o[3], m) BY <1>7, Zenon DEF InSixes, d, e, f, g
<1> QED BY <1>5, <1>7, <1>8, Zenon DEF o, m

(* n octets are those of the quartets of s, three of each.                 *)
OfQuartets(s, n, new) ==
  /\ new \in Seq(Octet) /\ Len(new) = n
  /\ \A h \in Nat : \A j \in 1 .. 3 :
       3 * h + j <= n => new[3 * h + j] = Three(s, 4 * h + 1)[j]

(* The octets of a padded text, three of each quartet.                     *)
LEMMA DecodedOctets ==
  ASSUME NEW text \in Seq(Digit \cup {Pad, Foreign}), NEW s, s = Append(text, Nul),
         NEW k, k = Digits(text), Padded(text), NEW new, new = Decode(text),
         NEW n, n = (6 * k) \div 8
  PROVE  OfQuartets(s, n, new)
<1>1. k \in Nat
  <2>1. DigitsEnd(text, s, k) BY DigitsFacts, Zenon
  <2>2. k \in 0 .. Len(text) /\ Len(text) \in Nat BY <2>1, Zenon DEF DigitsEnd
  <2> QED BY ONLY <2>2
<1>2. DecodedBehind(s, k, 0, new) BY DecodedText, Zenon
<1>3. /\ new \in Seq(Octet) /\ Len(new) = (6 * (k - 4 * 0)) \div 8
      /\ \A h \in Nat : \A j \in 1 .. 3 :
           h >= 0 /\ 3 * (h - 0) + j <= Len(new)
             => new[3 * (h - 0) + j] = Three(s, 4 * h + 1)[j]
  BY <1>2, Zenon DEF DecodedBehind
<1>4. k - 4 * 0 = k /\ \A h \in Nat : h >= 0 /\ h - 0 = h BY <1>1
<1>5. Len(new) = n BY <1>3, <1>4
<1>6. ASSUME NEW h \in Nat, NEW j \in 1 .. 3, 3 * h + j <= n
      PROVE  new[3 * h + j] = Three(s, 4 * h + 1)[j]
  <2>1. h >= 0 /\ h - 0 = h BY <1>4
  <2>2. 3 * (h - 0) + j <= Len(new) BY <1>5, <1>6, <2>1
  <2>3. new[3 * (h - 0) + j] = Three(s, 4 * h + 1)[j] BY <1>3, <2>1, <2>2, Zenon
  <2> QED BY <2>1, <2>3
<1> QED BY <1>3, <1>5, <1>6, Zenon DEF OfQuartets

(* A padded text yields the bits of its digits.                            *)
LEMMA DecodedBits ==
  ASSUME NEW text \in Seq(Digit \cup {Pad, Foreign}), Padded(text)
  PROVE  /\ Regrouped(Decode(text), 8, (6 * Digits(text)) \div 8, text, 6)
         /\ Len(Decode(text)) <= Len(text)
<1> DEFINE s == Append(text, Nul)
           k == Digits(text)
           new == Decode(text)
           n == (6 * k) \div 8
<1>1. /\ k \in 0 .. Len(text) /\ Len(text) \in Nat
      /\ \A i \in 1 .. Len(text) : s[i] = text[i]
  <2>1. DigitsEnd(text, s, k) BY DigitsFacts, Zenon
  <2> QED BY <2>1, Zenon DEF DigitsEnd
<1>2. OfQuartets(s, n, new) BY DecodedOctets, Zenon
<1>3. ASSUME NEW h \in Nat, 4 * h + 2 <= k
      PROVE  /\ \A x \in 1 .. 4 : 4 * h + x <= k => Quad(s, h)[x] = s[4 * h + x]
             /\ LET o == Three(s, 4 * h + 1)
                IN  /\ o[1] \in Octet /\ o[2] \in Octet /\ o[3] \in Octet
                    /\ o = <<o[1], o[2], o[3]>> /\ InSixes(o[1], o[2], o[3], Quad(s, h))
  BY <1>3, QuadFacts, ThreeInSixes, Zenon
<1> HIDE DEF s, new, k
<1>4. k \in Nat /\ n \in Nat /\ n <= Len(text)
  <2>1. k \in Nat /\ k <= Len(text) /\ Len(text) \in Nat BY <1>1
  <2> QED BY ONLY <2>1
<1>5. /\ new \in Seq(Octet) /\ Len(new) = n
      /\ \A h \in Nat : \A j \in 1 .. 3 :
           3 * h + j <= n => new[3 * h + j] = Three(s, 4 * h + 1)[j]
  BY <1>2, Zenon DEF OfQuartets
<1>6. DOMAIN new = 1 .. n /\ \A j \in 1 .. n : new[j] \in 0 .. 2 ^ 8 - 1
  <2> HIDE DEF n
  <2>1. DOMAIN new = 1 .. n /\ \A j \in 1 .. n : new[j] \in Octet BY <1>4, <1>5
  <2>2. 2 ^ 8 - 1 = 255 OBVIOUS
  <2> DEFINE top == 2 ^ 8 - 1
  <2>3. Octet = 0 .. top BY <2>2 DEF Octet
  <2> HIDE DEF top
  <2>4. \A j \in 1 .. n : new[j] \in 0 .. top BY <2>1, <2>3
  <2> QED BY <2>1, <2>4, Zenon DEF top
<1>7. ASSUME NEW i \in 0 .. 8 * n - 1 PROVE Bit(new, 8, i) = Bit(text, 6, i)
  <2> DEFINE h == i \div 24
             r == i % 24
             c == r \div 6
             t == r \div 8
             y == i % 6
             z == i % 8
             o == Three(s, 4 * h + 1)
             m == Quad(s, h)
  <2>1. /\ h \in Nat /\ r \in 0 .. 23 /\ i = 24 * h + r
        /\ i \div 6 = 4 * h + c /\ y = r % 6 /\ c \in 0 .. 3
        /\ i \div 8 = 3 * h + t /\ z = r % 8 /\ t \in 0 .. 2
    <3>1. i \in Nat
      <4> HIDE DEF n
      <4> QED BY <1>4
    <3> QED BY <3>1, Places, Zenon
  <2>2. i \div 8 < n /\ i \div 6 < k
    <3>1. i \in 0 .. 8 * n - 1 /\ k \in Nat /\ n \in Nat /\ 8 * n <= 6 * k
      <4>1. 8 * n <= 6 * k BY ONLY <1>4
      <4> HIDE DEF n
      <4> QED BY <1>4, <4>1
    <3> HIDE DEF n
    <3> QED BY ONLY <3>1
  <2>3. 4 * h + 2 <= k
    <3>1. 3 * h + t < n /\ 8 * n <= 6 * k /\ n \in Nat
      <4>1. 8 * n <= 6 * k BY ONLY <1>4
      <4> HIDE DEF n, h, t
      <4> QED BY <1>4, <2>1, <2>2, <4>1
    <3> HIDE DEF n, h, t, r
    <3>2. h \in Nat /\ t \in 0 .. 2 /\ k \in Nat BY <1>4, <2>1
    <3> QED BY ONLY <3>1, <3>2
  <2>4. /\ o[1] \in Octet /\ o[2] \in Octet /\ o[3] \in Octet
        /\ o = <<o[1], o[2], o[3]>> /\ InSixes(o[1], o[2], o[3], m)
        /\ \A x \in 1 .. 4 : 4 * h + x <= k => m[x] = s[4 * h + x]
    <3> HIDE DEF h
    <3> QED BY <1>3, <2>1, <2>3, Zenon
  <2>5. SameBit(m, c, y, o, t, z)
    <3> DEFINE o1 == o[1]
               o2 == o[2]
               o3 == o[3]
    <3>1. c = r \div 6 /\ t = r \div 8 OBVIOUS
    <3>2. /\ o1 \in Octet /\ o2 \in Octet /\ o3 \in Octet
          /\ o = <<o1, o2, o3>> /\ InSixes(o1, o2, o3, m)
      BY <2>4, Zenon
    <3>3. r \in 0 .. 23 /\ y = r % 6 /\ z = r % 8 BY <2>1, Zenon
    <3> HIDE DEF c, t, y, z, r, o, m, o1, o2, o3
    <3> QED BY ONLY <3>1, <3>2, <3>3, GroupBits, Zenon
  <2> HIDE DEF n, h, r, c, t, y, z, o, m
  <2>6. new[i \div 8 + 1] = o[t + 1]
    <3>1. i \div 8 + 1 = 3 * h + (t + 1) /\ t + 1 \in 1 .. 3 /\ 3 * h + (t + 1) <= n
      BY <1>4, <2>1, <2>2
    <3>2. new[3 * h + (t + 1)] = o[t + 1] BY <1>5, <2>1, <3>1, Zenon DEF o
    <3> QED BY <3>1, <3>2
  <2>7. text[i \div 6 + 1] = m[c + 1]
    <3>1. i \div 6 + 1 = 4 * h + (c + 1) /\ c + 1 \in 1 .. 4 /\ 4 * h + (c + 1) <= k
          /\ i \div 6 + 1 \in 1 .. Len(text)
      BY <1>1, <1>4, <2>1, <2>2
    <3>2. m[c + 1] = s[4 * h + (c + 1)] BY <2>4, <3>1, Zenon
    <3>3. s[i \div 6 + 1] = text[i \div 6 + 1] BY <1>1, <3>1, Zenon
    <3> QED BY <3>1, <3>2, <3>3
  <2>8. Bit(new, 8, i) = BitAt(o[t + 1], 2 ^ (7 - z))
    <3>1. Bit(new, 8, i) = (new[i \div 8 + 1] \div 2 ^ (8 - 1 - (i % 8))) % 2
      BY <1>5, <2>2, Zenon DEF Bit
    <3>2. 8 - 1 - (i % 8) = 7 - z BY DEF z
    <3> QED BY <2>6, <3>1, <3>2, Zenon DEF BitAt
  <2>9. Bit(text, 6, i) = BitAt(m[c + 1], 2 ^ (5 - y))
    <3>1. i \div 6 < Len(text) BY <1>1, <1>4, <2>1, <2>2
    <3>2. Bit(text, 6, i) = (text[i \div 6 + 1] \div 2 ^ (6 - 1 - (i % 6))) % 2
      BY <3>1, Zenon DEF Bit
    <3>3. 6 - 1 - (i % 6) = 5 - y BY DEF y
    <3> QED BY <2>7, <3>2, <3>3, Zenon DEF BitAt
  <2> QED BY <2>5, <2>8, <2>9, Zenon DEF SameBit
<1>8. Regrouped(new, 8, n, text, 6)
  <2> HIDE DEF n
  <2> QED BY <1>6, <1>7, Zenon DEF Regrouped
<1> QED BY <1>4, <1>5, <1>8, Zenon DEF new, k

(* What base64_decode() yields is the decoding, for a text of any length.  *)
THEOREM DecodingIsDefined == Spec => []DecodedAsDefined
<1>1. TypeOK => DecodedAsDefined
  <2> SUFFICES ASSUME TypeOK, kind = "text" PROVE DecodedAsDefined
    BY Zenon DEF DecodedAsDefined
  <2>1. Sendable = Characters BY DEF Sendable, Alphabet
  <2>2. input \in Seq(Characters) BY <2>1, Zenon DEF TypeOK
  <2> DEFINE S == Digit \cup {Pad, Foreign}
  <2>3. input \in Seq(S)
    <3>1. Characters \subseteq S BY CharacterAssumption
    <3> HIDE DEF S
    <3> QED BY <2>2, <3>1
  <2>4. Padded(input) => /\ Regrouped(Decode(input), 8, (6 * Digits(input)) \div 8, input, 6)
                         /\ Len(Decode(input)) <= Len(input)
    BY <2>3, DecodedBits, Zenon
  <2>5. ~Padded(input) => Decode(input) = Invalid BY <2>3, DecodedText, Zenon
  <2> QED BY <2>4, <2>5, Zenon DEF DecodedAsDefined
<1> QED BY <1>1, TypeCorrect, PTL

-----------------------------------------------------------------------------
(* The encoding is a padded text, with the digits that it is defined to    *)
(* have.                                                                   *)
LEMMA EncodingIsPadded ==
  ASSUME NEW data \in Seq(Octet), NEW text, text = Encode(data),
         NEW n, n = Sextets(Len(data))
  PROVE  text \in Seq(Digit \cup {Pad, Foreign}) /\ Digits(text) = n /\ Padded(text)
<1> DEFINE L == Len(data)
           T == {i \in DOMAIN text : text[i] \notin Digit} \cup {Len(text) + 1}
           due == (4 - (n % 4)) % 4
<1>1. text \in Seq(Digit \cup {Pad}) /\ L \in Nat BY EncodeFacts
<1>2. text \in Seq(Digit \cup {Pad, Foreign})
  <2> DEFINE S == Digit \cup {Pad}
             U == Digit \cup {Pad, Foreign}
  <2>1. S \subseteq U OBVIOUS
  <2>2. text \in Seq(S) BY <1>1
  <2> HIDE DEF S, U
  <2>3. text \in Seq(U) BY <2>1, <2>2
  <2> QED BY <2>3 DEF U
<1>3. /\ Len(text) = n + due
      /\ \A j \in n + 1 .. Len(text) : text[j] = Pad
      /\ \A j \in 1 .. n : text[j] \in Digit
  BY EncodedBits, Zenon DEF Sextets
<1>4. n \in Nat /\ n % 4 # 1
  <2> HIDE DEF L
  <2> QED BY <1>1, Counts, Zenon DEF L
<1>5. due \in 0 .. 3 BY ONLY <1>4
<1>6. DOMAIN text = 1 .. Len(text) BY <1>1
<1>7. Min(T) = n + 1
  <2>1. T \in SUBSET Nat BY <1>3, <1>4, <1>5, <1>6
  <2>2. n + 1 \in T
    <3>1. CASE due = 0 BY <1>3, <1>4, <3>1
    <3>2. CASE due # 0
      <4>1. n + 1 \in n + 1 .. Len(text) /\ n + 1 \in DOMAIN text
        <5> HIDE DEF due
        <5> QED BY <1>3, <1>4, <1>5, <1>6, <3>2
      <4>2. text[n + 1] = Pad BY <1>3, <4>1, Zenon
      <4>3. Pad \notin Digit BY DEF Pad, Digit
      <4> QED BY <4>1, <4>2, <4>3
    <3> QED BY <3>1, <3>2
  <2>3. ASSUME NEW y \in T PROVE n + 1 <= y
    <3>1. CASE y = Len(text) + 1
      <4> HIDE DEF due
      <4> QED BY <1>3, <1>4, <1>5, <3>1
    <3>2. CASE y \in DOMAIN text /\ text[y] \notin Digit
      <4>1. y \in Nat \ {0} BY <1>6, <3>2
      <4>2. y \notin 1 .. n BY <1>3, <3>2
      <4> QED BY <1>4, <4>1, <4>2
    <3> QED BY <3>1, <3>2
  <2> HIDE DEF T
  <2> QED BY <2>1, <2>2, <2>3, MinIs
<1>8. Digits(text) = n
  <2>1. Digits(text) = Min(T) - 1 BY Zenon DEF Digits
  <2> HIDE DEF T
  <2> QED BY <1>4, <1>7, <2>1
<1>9. Padded(text)
  <2>1. Len(text) >= n + due /\ \A i \in n + 1 .. n + due : text[i] = Pad
    <3> HIDE DEF due
    <3> QED BY <1>3, <1>4, <1>5
  <2> QED BY <1>4, <1>8, <2>1, Zenon DEF Padded
<1> QED BY <1>2, <1>8, <1>9

(* Three octets are determined by the four numbers of six bits.            *)
LEMMA SameOctets ==
  ASSUME NEW a \in Octet, NEW b \in Octet, NEW c \in Octet,
         NEW d \in Octet, NEW e \in Octet, NEW f \in Octet,
         NEW m, InSixes(a, b, c, m), InSixes(d, e, f, m)
  PROVE  a = d /\ b = e /\ c = f
<1>1. /\ m[1] * 4 + m[2] \div 16 = a
      /\ (m[2] % 16) * 16 + m[3] \div 4 = b
      /\ (m[3] % 4) * 64 + m[4] = c
  <2>1. /\ m[1] = a \div 4 /\ m[2] = (a % 4) * 16 + b \div 16
        /\ m[3] = (b % 16) * 4 + c \div 64 /\ m[4] = c % 64
    BY Zenon DEF InSixes
  <2> QED BY ONLY <2>1, a \in Octet, b \in Octet, c \in Octet, EightsOfSixes
<1>2. /\ m[1] * 4 + m[2] \div 16 = d
      /\ (m[2] % 16) * 16 + m[3] \div 4 = e
      /\ (m[3] % 4) * 64 + m[4] = f
  <2>1. /\ m[1] = d \div 4 /\ m[2] = (d % 4) * 16 + e \div 16
        /\ m[3] = (e % 16) * 4 + f \div 64 /\ m[4] = f % 64
    BY Zenon DEF InSixes
  <2> QED BY ONLY <2>1, d \in Octet, e \in Octet, f \in Octet, EightsOfSixes
<1> QED BY <1>1, <1>2

(* What base64_encode() has encoded, base64_decode() decodes.              *)
LEMMA RoundTrip ==
  ASSUME NEW data \in Seq(Octet)
  PROVE  Decode(Encode(data)) = data
<1> DEFINE L == Len(data)
           n == Sextets(L)
           text == Encode(data)
           s == Append(text, Nul)
           new == Decode(text)
<1>1. text \in Seq(Digit \cup {Pad, Foreign}) /\ Digits(text) = n /\ Padded(text)
  BY EncodingIsPadded, Zenon
<1>2. /\ L \in Nat /\ n \in Nat /\ (6 * n) \div 8 = L
      /\ \A h \in Nat : 3 * h < L => 4 * h + 2 <= n
  <2>1. L \in Nat OBVIOUS
  <2> HIDE DEF L
  <2> QED BY <2>1, Counts, Zenon
<1>3. /\ new \in Seq(Octet) /\ Len(new) = L
      /\ \A h \in Nat : \A j \in 1 .. 3 :
           3 * h + j <= L => new[3 * h + j] = Three(s, 4 * h + 1)[j]
  <2> DEFINE K == (6 * n) \div 8
  <2>1. OfQuartets(s, K, new)
    <3>1. s = Append(text, Nul) /\ n = Digits(text) /\ new = Decode(text) BY <1>1
    <3>2. K = (6 * n) \div 8 OBVIOUS
    <3> HIDE DEF text, n, s, new, K
    <3> QED BY ONLY <1>1, <3>1, <3>2, DecodedOctets, Zenon
  <2>2. K = L BY <1>2
  <2> HIDE DEF K, L, n, text, new, s
  <2> QED BY <2>1, <2>2, Zenon DEF OfQuartets
<1>4. /\ Len(s) = Len(text) + 1 /\ Len(text) \in Nat
      /\ \A i \in 1 .. Len(text) : s[i] = text[i]
  <2> HIDE DEF text
  <2> QED BY <1>1
<1>5. ASSUME NEW h \in Nat, 3 * h < L
      PROVE  \A j \in 1 .. 3 : 3 * h + j <= L => Three(s, 4 * h + 1)[j] = data[3 * h + j]
  <2> DEFINE a == data[3 * h + 1]
             b == OctetAt(data, 3 * h + 2)
             c == OctetAt(data, 3 * h + 3)
             m == Sixes(a, b, c)
             q == Quad(s, h)
             o == Three(s, 4 * h + 1)
  <2>1. /\ a \in Octet /\ b \in Octet /\ c \in Octet
        /\ InSixes(a, b, c, m) /\ GroupEncoded(text, n, h, m)
    <3> HIDE DEF a, b, c, m, n, text
    <3>1. m = Sixes(a, b, c) /\ text = Encode(data) /\ n = Sextets(Len(data))
      BY Zenon DEF m, n, text
    <3>2. IsGroup(data, h, a, b, c) BY <1>5, Zenon DEF IsGroup, a, b, c
    <3> QED BY <3>1, <3>2, EncodedDigits, Zenon
  <2>2. 4 * h + 2 <= n BY <1>2, <1>5, Zenon
  <2>3. /\ \A x \in 1 .. 4 : q[x] \in Digit
        /\ \A x \in 1 .. 4 : 4 * h + x <= n => q[x] = s[4 * h + x]
        /\ o[1] \in Octet /\ o[2] \in Octet /\ o[3] \in Octet
        /\ o = <<o[1], o[2], o[3]>> /\ InSixes(o[1], o[2], o[3], q)
    <3> HIDE DEF n, text
    <3> QED BY <1>1, <2>2, QuadFacts, ThreeInSixes, Zenon
  <2>4. ASSUME NEW x \in 1 .. 4 PROVE m[x] = q[x]
    <3>1. /\ 4 * h + x <= n => text[4 * h + x] = m[x]
          /\ 4 * h + x > n => m[x] = 0 /\ text[4 * h + x] = Pad
      <4> HIDE DEF m, n, text
      <4> QED BY <2>1, Zenon DEF GroupEncoded
    <3>2. 4 * h + x \in 1 .. Len(text)
      <4> DEFINE M == (L + 2) \div 3
      <4>1. Len(text) = 4 * M BY EncodeFacts, Zenon
      <4>2. M \in Nat /\ h + 1 <= M
        <5> HIDE DEF L
        <5> QED BY <1>2, <1>5
      <4> HIDE DEF M, text
      <4> QED BY <4>1, <4>2
    <3>3. s[4 * h + x] = text[4 * h + x] BY <1>4, <3>2, Zenon
    <3>4. CASE 4 * h + x <= n BY <2>3, <3>1, <3>3, <3>4, Zenon
    <3>5. CASE ~(4 * h + x <= n)
      <4>1. 4 * h + x > n
        <5> HIDE DEF n
        <5> QED BY <1>2, <3>5
      <4>2. m[x] = 0 /\ s[4 * h + x] = Pad BY <3>1, <3>3, <4>1, Zenon
      <4>3. q[x] = s[4 * h + x] % 64 BY Zenon DEF Quad
      <4>4. Pad % 64 = 0 BY DEF Pad
      <4> QED BY <4>2, <4>3, <4>4, Zenon
    <3> QED BY <3>4, <3>5
  <2>5. InSixes(a, b, c, q)
    <3> HIDE DEF a, b, c, m, q
    <3>1. m[1] = q[1] /\ m[2] = q[2] /\ m[3] = q[3] /\ m[4] = q[4] BY <2>4
    <3> QED BY <2>1, <3>1, Zenon DEF InSixes
  <2>6. o[1] = a /\ o[2] = b /\ o[3] = c
    <3> DEFINE d == o[1]
               e == o[2]
               f == o[3]
    <3>1. /\ d \in Octet /\ e \in Octet /\ f \in Octet /\ InSixes(d, e, f, q) BY <2>3
    <3> HIDE DEF a, b, c, d, e, f, q
    <3>2. d = a /\ e = b /\ f = c BY ONLY <2>1, <2>5, <3>1, SameOctets, Zenon
    <3> QED BY <3>2 DEF d, e, f
  <2> HIDE DEF o
  <2>7. ASSUME NEW j \in 1 .. 3, 3 * h + j <= L PROVE o[j] = data[3 * h + j]
    <3>1. j = 1 \/ j = 2 \/ j = 3 OBVIOUS
    <3>2. CASE j = 1 BY <2>6, <3>2
    <3>3. CASE j = 2 BY <2>6, <2>7, <3>3 DEF OctetAt
    <3>4. CASE j = 3 BY <2>6, <2>7, <3>4 DEF OctetAt
    <3> QED BY <3>1, <3>2, <3>3, <3>4
  <2> QED BY <2>7, Zenon DEF o
<1> HIDE DEF text, n, s, new
<1>6. ASSUME NEW i \in 1 .. L PROVE new[i] = data[i]
  <2> DEFINE h == (i - 1) \div 3
             j == ((i - 1) % 3) + 1
  <2>1. h \in Nat /\ j \in 1 .. 3 /\ i = 3 * h + j /\ 3 * h < L /\ 3 * h + j <= L
    BY <1>2
  <2> HIDE DEF h, j
  <2>2. new[3 * h + j] = Three(s, 4 * h + 1)[j] BY <1>3, <2>1, Zenon
  <2>3. Three(s, 4 * h + 1)[j] = data[3 * h + j] BY <1>5, <2>1, Zenon
  <2> QED BY <2>1, <2>2, <2>3
<1>7. new = data
  <2>1. new \in Seq(Octet) /\ data \in Seq(Octet) /\ Len(new) = Len(data)
    BY <1>3
  <2> QED BY <1>6, <2>1
<1> QED BY <1>7 DEF new, text

(* A set of two numbers has a smaller and a greater one.                   *)
LEMMA TwoNumbers ==
  ASSUME NEW n \in Nat, NEW T \in SUBSET (1 .. n), Cardinality(T) = 2
  PROVE  \E a \in T : \E b \in T : a < b /\ T = {a, b}
<1>1. IsFiniteSet(T)
  <2>1. IsFiniteSet(1 .. n) BY FS_Interval
  <2> QED BY <2>1, FS_Subset
<1>2. T # {} BY FS_EmptySet
<1>3. PICK x \in T : TRUE BY <1>2
<1> DEFINE U == T \ {x}
<1>4. IsFiniteSet(U) /\ Cardinality(U) = 1
  <2>1. IsFiniteSet(U) /\ Cardinality(U) = Cardinality(T) - 1
    BY <1>1, <1>3, FS_RemoveElement
  <2> QED BY <2>1
<1>5. PICK y : U = {y}
  <2> HIDE DEF U
  <2> QED BY <1>4, FS_Singleton
<1>6. T = {x, y} /\ y \in T /\ x # y BY <1>5
<1>7. x \in Nat /\ y \in Nat /\ (x < y \/ y < x)
  <2>1. x \in 1 .. n /\ y \in 1 .. n BY <1>6
  <2> QED BY <1>6, <2>1
<1>8. T = {y, x} BY <1>6
<1> QED BY <1>6, <1>7, <1>8, Zenon

(* Where a C string ends.                                                  *)
LEMMA EndOfString ==
  ASSUME NEW buffer, NEW i \in Nat, NEW j \in i .. Len(buffer),
         buffer[j] = 0, \A k \in i .. j - 1 : buffer[k] # 0
  PROVE  StringEnd(buffer, i) = j
<1> DEFINE e == StringEnd(buffer, i)
           Is(x) == buffer[x] = 0 /\ \A k \in i .. x - 1 : buffer[k] # 0
<1>1. e \in i .. Len(buffer) /\ Is(e)
  <2>1. \E x \in i .. Len(buffer) : Is(x) OBVIOUS
  <2>2. e = CHOOSE x \in i .. Len(buffer) : Is(x) BY Zenon DEF StringEnd
  <2> HIDE DEF e, Is
  <2> QED BY <2>1, <2>2
<1> HIDE DEF e
<1>2. ~(e < j)
  <2> SUFFICES ASSUME e < j PROVE FALSE OBVIOUS
  <2>1. e \in i .. j - 1 BY <1>1
  <2> QED BY <1>1, <2>1
<1>3. ~(j < e)
  <2> SUFFICES ASSUME j < e PROVE FALSE OBVIOUS
  <2>1. j \in i .. e - 1 BY <1>1
  <2> QED BY <1>1, <2>1
<1>4. e = j BY <1>1, <1>2, <1>3
<1> QED BY <1>4 DEF e

(* What is taken from a buffer before its last zero is taken from the      *)
(* octets.                                                                 *)
LEMMA TakenOfBuffer ==
  ASSUME NEW S, NEW data \in Seq(S), NEW z \in S, NEW buffer, buffer = Append(data, z),
         NEW i \in Nat \ {0}, NEW j \in Nat, j <= Len(data)
  PROVE  SubSeq(buffer, i, j) = SubSeq(data, i, j)
<1> DEFINE u == SubSeq(buffer, i, j)
           v == SubSeq(data, i, j)
<1>1. /\ buffer \in Seq(S) /\ Len(buffer) = Len(data) + 1 /\ Len(data) \in Nat
      /\ \A x \in 1 .. Len(data) : buffer[x] = data[x]
  OBVIOUS
<1>2. CASE i > j
  <2>1. u = <<>> /\ v = <<>> BY <1>1, <1>2
  <2> QED BY <2>1
<1>3. CASE i <= j
  <2>1. u \in Seq(S) /\ Len(u) = j - i + 1 /\ \A x \in 1 .. j - i + 1 : u[x] = buffer[i + x - 1]
    BY <1>1, <1>3
  <2>2. v \in Seq(S) /\ Len(v) = j - i + 1 /\ \A x \in 1 .. j - i + 1 : v[x] = data[i + x - 1]
    BY <1>1, <1>3
  <2>3. ASSUME NEW x \in 1 .. j - i + 1 PROVE u[x] = v[x]
    <3>1. i + x - 1 \in 1 .. Len(data) BY <1>1, <1>3
    <3> QED BY <1>1, <2>1, <2>2, <3>1
  <2> HIDE DEF u, v
  <2>4. u = v BY <2>1, <2>2, <2>3
  <2> QED BY <2>4 DEF u, v
<1> QED BY <1>2, <1>3

(* The fields of credentials with two zeroes.                              *)
LEMMA Fields ==
  ASSUME NEW data \in Seq(Octet), NEW zero, zero = {i \in DOMAIN data : data[i] = 0},
         Cardinality(zero) = 2
  PROVE  Credentials(Encode(data)) =
           << SubSeq(data, 1, Min(zero) - 1),
              SubSeq(data, Min(zero) + 1, Max(zero) - 1),
              SubSeq(data, Max(zero) + 1, Len(data)) >>
<1> DEFINE L == Len(data)
           buffer == Append(data, 0)
<1>1. L \in Nat /\ zero \in SUBSET (1 .. L) OBVIOUS
<1>2. PICK a \in zero, b \in zero : a < b /\ zero = {a, b}
  <2> HIDE DEF L
  <2> QED BY <1>1, TwoNumbers
<1>3. Min(zero) = a /\ Max(zero) = b
  <2>1. zero \in SUBSET Nat /\ (\A y \in zero : a <= y) /\ (\A y \in zero : y <= b)
    BY <1>1, <1>2
  <2> QED BY <2>1, MinIs, MaxIs
<1>4. /\ a \in 1 .. L /\ b \in 1 .. L /\ a < b
      /\ \A i \in 1 .. L : data[i] = 0 <=> i = a \/ i = b
  BY <1>1, <1>2
<1>5. /\ Len(buffer) = L + 1 /\ buffer[L + 1] = 0
      /\ \A i \in 1 .. L : buffer[i] = data[i]
  OBVIOUS
<1> HIDE DEF buffer, L
<1>6. StringEnd(buffer, 1) = a
  <2>1. a \in 1 .. Len(buffer) /\ buffer[a] = 0 BY <1>1, <1>4, <1>5
  <2>2. \A k \in 1 .. a - 1 : buffer[k] # 0 BY <1>1, <1>4, <1>5
  <2> QED BY <2>1, <2>2, EndOfString
<1>7. StringEnd(buffer, a + 1) = b
  <2>1. b \in a + 1 .. Len(buffer) /\ buffer[b] = 0 BY <1>1, <1>4, <1>5
  <2>2. \A k \in a + 1 .. b - 1 : buffer[k] # 0 BY <1>1, <1>4, <1>5
  <2>3. a + 1 \in Nat BY <1>4
  <2> QED BY <2>1, <2>2, <2>3, EndOfString
<1>8. StringEnd(buffer, b + 1) = L + 1
  <2>1. L + 1 \in b + 1 .. Len(buffer) /\ buffer[L + 1] = 0 BY <1>1, <1>4, <1>5
  <2>2. \A k \in b + 1 .. (L + 1) - 1 : buffer[k] # 0 BY <1>1, <1>4, <1>5
  <2>3. b + 1 \in Nat BY <1>4
  <2> QED BY <2>1, <2>2, <2>3, EndOfString
<1>9. ASSUME NEW i \in Nat \ {0}, NEW j \in Nat, j <= L
      PROVE  SubSeq(buffer, i, j) = SubSeq(data, i, j)
  <2>1. buffer = Append(data, 0) /\ 0 \in Octet /\ L = Len(data) BY DEF buffer, Octet, L
  <2> QED BY <1>9, <2>1, TakenOfBuffer
<1>10. Decode(Encode(data)) = data BY RoundTrip
<1>11. data # Invalid BY NotInvalid
<1>12. TwoZeroes(data) BY Zenon DEF TwoZeroes
<1>13. Credentials(Encode(data)) =
         << SubSeq(buffer, 1, (a + 1) - 2),
            SubSeq(buffer, a + 1, (b + 1) - 2),
            SubSeq(buffer, b + 1, (L + 1) - 1) >>
  BY <1>6, <1>7, <1>8, <1>10, <1>11, <1>12, Zenon DEF Credentials, buffer
<1>14. /\ SubSeq(buffer, 1, (a + 1) - 2) = SubSeq(data, 1, a - 1)
       /\ SubSeq(buffer, a + 1, (b + 1) - 2) = SubSeq(data, a + 1, b - 1)
       /\ SubSeq(buffer, b + 1, (L + 1) - 1) = SubSeq(data, b + 1, L)
  <2>1. /\ (a + 1) - 2 = a - 1 /\ (b + 1) - 2 = b - 1 /\ (L + 1) - 1 = L
        /\ a - 1 \in Nat /\ b - 1 \in Nat /\ a - 1 <= L /\ b - 1 <= L /\ L <= L
        /\ 1 \in Nat \ {0} /\ a + 1 \in Nat \ {0} /\ b + 1 \in Nat \ {0}
    BY <1>1, <1>4
  <2> QED BY <1>1, <1>9, <2>1
<1> QED BY <1>3, <1>13, <1>14, Zenon DEF L

(* Whatever a client encodes, auth_plain() sees its three fields or        *)
(* nothing.                                                                *)
THEOREM CredentialsDoArrive == Spec => []CredentialsArrive
<1>1. TypeOK => CredentialsArrive
  <2> SUFFICES ASSUME TypeOK, kind = "octets" PROVE CredentialsArrive
    BY Zenon DEF CredentialsArrive
  <2>1. Sendable = Samples BY DEF Sendable, Alphabet
  <2>2. input \in Seq(Samples) BY <2>1, Zenon DEF TypeOK
  <2>3. input \in Seq(Octet) BY <2>2, SampleAssumption
  <2> DEFINE zero == {i \in DOMAIN input : input[i] = 0}
  <2>4. CASE Cardinality(zero) # 2
    <3>1. Decode(Encode(input)) = input BY <2>3, RoundTrip, Zenon
    <3>2. ~TwoZeroes(input) BY <2>4, Zenon DEF TwoZeroes
    <3>3. Credentials(Encode(input)) = <<>> BY <3>1, <3>2, Zenon DEF Credentials
    <3> QED BY <2>4, <3>3, Zenon DEF CredentialsArrive
  <2>5. CASE Cardinality(zero) = 2
    <3>1. Credentials(Encode(input)) =
            << SubSeq(input, 1, Min(zero) - 1),
               SubSeq(input, Min(zero) + 1, Max(zero) - 1),
               SubSeq(input, Max(zero) + 1, Len(input)) >>
      BY <2>3, <2>5, Fields, Zenon
    <3> QED BY <2>5, <3>1, Zenon DEF CredentialsArrive
  <2> QED BY <2>4, <2>5
<1> QED BY <1>1, TypeCorrect, PTL
=============================================================================
