------------------------------- MODULE Base64 -------------------------------
(***************************************************************************)
(* base64.cc, and auth_plain(), which takes credentials apart that were    *)
(* sent in it.  A character of the alphabet is its position in the table   *)
(* base64[]; the padding and a character that is in no table follow.       *)
(***************************************************************************)
EXTENDS Integers, FiniteSets, SequencesExt

Octet == 0 .. 255
Digit == 0 .. 63    \* what pos() finds
Pad == 64           \* '='
Foreign == 65       \* any other character
Nul == 66           \* the end of a string

(* The result -1 of the decoder.                                           *)
Invalid == <<-1>>

(* An octet of the group, or zero behind the last one.                     *)
OctetAt(data, i) == IF i <= Len(data) THEN data[i] ELSE 0

EncodeGroup(data, i) ==
  LET c == data[i] * 65536 + OctetAt(data, i + 1) * 256 + OctetAt(data, i + 2)
  IN  << (c \div 262144) % 64, (c \div 4096) % 64,
         IF i + 1 > Len(data) THEN Pad ELSE (c \div 64) % 64,
         IF i + 2 > Len(data) THEN Pad ELSE c % 64 >>

Encode(data) ==
  FlattenSeq([g \in 1 .. (Len(data) + 2) \div 3 |-> EncodeGroup(data, 3 * g - 2)])

(* A slip: the trailing zero is forgotten.                                 *)
AllocatedExact(size) == (size * 4) \div 3 + 2

(* What base64_encode() allocates, for the characters and a zero.          *)
Allocated(size) == (size * 4) \div 3 + 4

(* The octets of four characters, less those that are padded away.         *)
Octets(q) ==
  LET c == q[1] * 262144 + q[2] * 4096 + (q[3] % 64) * 64 + (q[4] % 64)
      done == IF q[3] = Pad THEN 2 ELSE IF q[4] = Pad THEN 1 ELSE 0
  IN  SubSeq(<<c \div 65536, (c \div 256) % 256, c % 256>>, 1, 3 - done)

(* A slip: padding may be followed by a character.                         *)
QuartetLax(s, p) ==
  /\ s[p + 1] \in Digit
  /\ s[p + 2] \in Digit \cup {Pad}
  /\ s[p + 3] \in Digit \cup {Pad}

(* Four characters are read in order, none behind one that is refused: the *)
(* end of the string is.                                                   *)
Quartet(s, p) ==
  /\ s[p + 1] \in Digit
  /\ s[p + 2] \in Digit \cup {Pad}
  /\ IF s[p + 2] = Pad THEN s[p + 3] = Pad ELSE s[p + 3] \in Digit \cup {Pad}

DecodeFrom(s) ==
  LET From[p \in 1 .. Len(s)] ==
        IF s[p] \notin Digit THEN <<>>
        ELSE IF ~Quartet(s, p) THEN Invalid
        ELSE IF s[p + 3] = Pad THEN Octets(SubSeq(s, p, p + 3))
        ELSE IF From[p + 4] = Invalid THEN Invalid
        ELSE Octets(SubSeq(s, p, p + 3)) \o From[p + 4]
  IN  From

Decode(text) == DecodeFrom(Append(text, Nul))[1]

-----------------------------------------------------------------------------
(* The C string at a place of the buffer, which ends in a zero.            *)
StringEnd(buffer, i) ==
  CHOOSE j \in i .. Len(buffer) :
    buffer[j] = 0 /\ \A k \in i .. j - 1 : buffer[k] # 0

(* A slip: more than two are let pass.                                     *)
EnoughZeroes(octets) == Cardinality({i \in DOMAIN octets : octets[i] = 0}) >= 2

(* "exactly two \0 bytes in the decoded buffer --- sanity check"           *)
TwoZeroes(octets) == Cardinality({i \in DOMAIN octets : octets[i] = 0}) = 2

(* auth_plain(): domain, user name and password, or nothing.               *)
Credentials(text) ==
  LET octets == Decode(text)
      buffer == Append(octets, 0)
      username == StringEnd(buffer, 1) + 1
      password == StringEnd(buffer, username) + 1
  IN  IF octets = Invalid \/ ~TwoZeroes(octets) THEN <<>>
      ELSE << SubSeq(buffer, 1, username - 2),
              SubSeq(buffer, username, password - 2),
              SubSeq(buffer, password, StringEnd(buffer, password) - 1) >>
=============================================================================
