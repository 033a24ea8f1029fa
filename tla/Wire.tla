-------------------------------- MODULE Wire --------------------------------
(***************************************************************************)
(* What goes over spey's connections, byte by byte and line by line: a     *)
(* client sends a body, which is copied as far as it has come, credentials *)
(* in base64, commands; and the downstream server sends replies.  What     *)
(* modules Framing, Base64 and Parsing make of it is compared with what    *)
(* the protocols say of it.                                                *)
(***************************************************************************)
EXTENDS Framing, Base64, Parsing

CONSTANTS
  Samples,     \* octets to encode
  Characters,  \* characters to decode
  Words,       \* words and signs of a command, behind its first word
  Codes,       \* reply codes
  MaxLen       \* bound: the length of what is sent, for each kind

ASSUME SampleAssumption == Samples \subseteq Octet
ASSUME CharacterAssumption == Characters \subseteq Digit \cup {Pad, Foreign}
\* the code of a reply is read from three digits; 0 stands for none
ASSUME CodeAssumption == Codes \subseteq 1 .. 999

Kind == {"body", "octets", "text", "command", "response"}

\* a command has its first word and the blank behind it
ASSUME LengthAssumption == MaxLen \in [Kind -> Nat] /\ MaxLen["command"] >= 2

VARIABLES
  kind,     \* what is sent
  input,    \* what has been sent
  taken,    \* the body: how much has been read
  line,     \* the line that it has made so far
  written,  \* what has been written downstream
  ended     \* its last line has been copied

vars == <<kind, input, taken, line, written, ended>>

Verb == {"helo", "mail", "rcpt", "auth", "quit"}

Line == [code : Codes \cup {0}, sep : {Blank, "-", "?", "short"}, text : {"a", "b"}]

Init ==
  /\ kind \in Kind
  /\ input \in IF kind = "command" THEN {<<v, Blank>> : v \in Verb} ELSE {<<>>}
  /\ taken = 0 /\ line = <<>>
  /\ written = Writeline(Received) /\ ended = FALSE

Alphabet ==
  CASE kind = "body" -> Char
    [] kind = "octets" -> Samples
    [] kind = "text" -> Characters
    [] kind = "command" -> Words
    [] kind = "response" -> Line

Send ==
  /\ Len(input) < MaxLen[kind]
  /\ \E c \in Alphabet : input' = Append(input, c)
  /\ UNCHANGED <<kind, taken, line, written, ended>>

(* A byte of the body comes in.                                            *)
Take ==
  /\ kind = "body" /\ ~ended /\ taken < Len(input)
  /\ taken' = taken + 1
  /\ UNCHANGED <<kind, input>>

ReadByte ==
  /\ Take /\ input[taken'] # "LF"
  /\ line' = Readline(line, input[taken'])
  /\ UNCHANGED <<written, ended>>

(* A slip: the line is not emptied.                                        *)
CopyAgain ==
  /\ Take /\ input[taken'] = "LF"
  /\ line' = Append(line, "LF")
  /\ written' = written \o Writeline(line)
  /\ ended' = EndsBody(line)

(* The end of a line: it is written, and looked at.                        *)
Copy ==
  /\ Take /\ input[taken'] = "LF"
  /\ line' = <<>>
  /\ written' = written \o Writeline(line)
  /\ ended' = EndsBody(line)

Next == Send \/ ReadByte \/ Copy

Spec == Init /\ [][Next]_vars

-----------------------------------------------------------------------------
(* Types of the variables: among them that no CR or LF is ever in a line.  *)
Sendable == IF kind = "command" THEN Words \cup Verb \cup {Blank} ELSE Alphabet

TypeOK ==
  /\ kind \in Kind /\ ended \in BOOLEAN
  /\ input \in Seq(Sendable) /\ Len(input) <= MaxLen[kind]
  /\ taken \in 0 .. Len(input)
  /\ line \in Seq(Char \ {"CR", "LF"}) /\ written \in Seq(Char)

(* The lines of a protocol in which nothing but CR LF ends one.            *)
Ends(bytes) == {i \in 2 .. Len(bytes) : bytes[i - 1] = "CR" /\ bytes[i] = "LF"}
StrictLine(bytes, end) ==
  SubSeq(bytes, Max({0} \cup {e \in Ends(bytes) : e < end}) + 1, end - 2)

(* Spey and a downstream server that takes only CR LF for the end of a line*)
(* agree on where the body ends, whatever CRs and LFs the client sent, and *)
(* no line reaches the server with one of them in it.                      *)
EndAgreed ==
  \A end \in Ends(written) :
    LET last == StrictLine(written, end)
    IN  /\ last = <<".">> <=> ended /\ end = Len(written)
        /\ ~Contains(last, "CR") /\ ~Contains(last, "LF")

(* A body in which every CR is followed by a LF and every LF follows a CR. *)
Proper(bytes) ==
  /\ \A i \in DOMAIN bytes : bytes[i] = "CR" => i < Len(bytes) /\ bytes[i + 1] = "LF"
  /\ \A i \in DOMAIN bytes : bytes[i] = "LF" => i > 1 /\ bytes[i - 1] = "CR"

(* The body of a client that ends its lines with CR LF is what the server  *)
(* gets, byte for byte, behind the header, up to the line that has not come*)
(* in whole: dots at the beginning of a line are neither removed nor added.*)
BodyArrives ==
  LET sent == SubSeq(input, 1, taken)
  IN  kind = "body" /\ Proper(sent) => written \o line = Writeline(Received) \o sent

(* Bit i of a sequence of numbers of w bits, 0 behind it.                  *)
Bit(seq, w, i) ==
  IF i \div w < Len(seq) THEN (seq[i \div w + 1] \div 2 ^ (w - 1 - (i % w))) % 2
  ELSE 0

(* A sequence of n numbers of v bits has the bits of one of w bits.        *)
Regrouped(new, v, n, seq, w) ==
  /\ DOMAIN new = 1 .. n /\ \A j \in 1 .. n : new[j] \in 0 .. 2 ^ v - 1
  /\ \A i \in 0 .. v * n - 1 : Bit(new, v, i) = Bit(seq, w, i)

(* base64_encode() yields the bits of its input in sixes, padded to a      *)
(* multiple of four characters, and with its zero stays in what it         *)
(* allocated.                                                              *)
EncodedAsDefined ==
  kind = "octets" =>
    LET text == Encode(input)
        n == (8 * Len(input) + 5) \div 6
    IN  /\ Regrouped(SubSeq(text, 1, n), 6, n, input, 8)
        /\ Len(text) = n + ((4 - (n % 4)) % 4)
        /\ \A j \in n + 1 .. Len(text) : text[j] = Pad
        /\ Len(text) + 1 <= Allocated(Len(input))

(* The number of characters before the first that is no digit.             *)
Digits(text) == Min({i \in DOMAIN text : text[i] \notin Digit} \cup {Len(text) + 1}) - 1

(* They are followed by the padding that is due.                           *)
Padded(text) ==
  LET k == Digits(text)
      due == (4 - (k % 4)) % 4
  IN  k % 4 # 1 /\ Len(text) >= k + due /\ \A i \in k + 1 .. k + due : text[i] = Pad

(* base64_decode() takes the characters up to the first that is none, which*)
(* must come after whole quartets or be the padding that is due, and yields*)
(* their bits in eights, of which none is more than the callers' buffers   *)
(* hold.                                                                   *)
DecodedAsDefined ==
  kind = "text" =>
    IF Padded(input)
    THEN /\ Regrouped(Decode(input), 8, (6 * Digits(input)) \div 8, input, 6)
         /\ Len(Decode(input)) <= Len(input)
    ELSE Decode(input) = Invalid

(* auth_plain() sees the three fields that a client encoded, or none: more *)
(* or fewer zeroes than two never move a field's border or lead out of the *)
(* buffer.                                                                 *)
CredentialsArrive ==
  kind = "octets" =>
    LET zero == {i \in DOMAIN input : input[i] = 0}
    IN  Credentials(Encode(input)) =
          IF Cardinality(zero) # 2 THEN <<>>
          ELSE << SubSeq(input, 1, Min(zero) - 1),
                  SubSeq(input, Min(zero) + 1, Max(zero) - 1),
                  SubSeq(input, Max(zero) + 1, Len(input)) >>

(* The command that spey judged is the one that the downstream server gets:*)
(* written out and read again it is the same.  An address with a closing   *)
(* bracket in it, which only one without brackets can have, is not.        *)
CommandHandedOn ==
  kind = "command" =>
    LET c == ReadCommand(input)
    IN  c = InvalidCommand \/ Contains(c.parameter, ">")
        \/ ReadCommand(ShowCommand(c)) = c

(* A reply that is accepted is the whole of the server's reply, so that the*)
(* next command is answered by its own; and what the client is written for *)
(* it is one whole reply of the same code.                                 *)
RepliesInStep ==
  kind = "response" /\ ReadResponse(input).code > 0 =>
    LET r == ReadResponse(input)
        shown == ShowResponse(r)
    IN  /\ r.taken = Min({i \in DOMAIN input : input[i].sep # "-"})
        /\ \A i \in DOMAIN shown :
             /\ shown[i].code = input[1].code
             /\ shown[i].sep = IF i = Len(shown) THEN Blank ELSE "-"
        /\ Len(shown) = r.taken
        /\ \A i \in 2 .. r.taken : shown[i].text = input[i].text
=============================================================================
