------------------------------ MODULE Parsing ------------------------------
(***************************************************************************)
(* Parser, SMTPCommand and SMTPResponse: how a line becomes a command and  *)
(* a command a line, and how lines become a reply and a reply lines.  A    *)
(* line is a sequence of the words and signs that matter to the grammar;   *)
(* the case of letters is left out.                                        *)
(***************************************************************************)
EXTENDS Integers, SequencesExt

(* What stands between two words.                                          *)
Blank == " "

(* Parser::whitespace(): the next that is no blank; behind the line it     *)
(* throws.                                                                 *)
Skip(l, i) == Min({j \in i .. Len(l) : l[j] # Blank} \cup {Len(l) + 1})

(* Parser::getword(): where a word ends.                                   *)
WordEnd(l, i, delimiter) ==
  Min({j \in i .. Len(l) : l[j] = delimiter} \cup {Len(l) + 1})

Word(l, i) == SubSeq(l, i, WordEnd(l, i, Blank) - 1)

(* Parser::expect() and peek().                                            *)
Sees(l, i, sign) == i <= Len(l) /\ l[i] = sign

(* Parser::eol(): only blanks are left.                                    *)
Eol(l, i) == \A j \in i .. Len(l) : l[j] = Blank

InvalidCommand == [cmd |-> "invalid", parameter |-> <<>>]

(* HELO and EHLO.                                                          *)
Greeting(l) ==
  LET i == Skip(l, WordEnd(l, 1, Blank))
  IN  IF i <= Len(l) /\ Eol(l, WordEnd(l, i, Blank))
      THEN [cmd |-> "helo", parameter |-> Word(l, i)]
      ELSE InvalidCommand

(* MAIL and RCPT: an address, in angle brackets or up to a blank.  What    *)
(* follows that of MAIL is ignored.                                        *)
Address(l, cmd, key) ==
  LET k == Skip(l, WordEnd(l, 1, Blank))
      a == Skip(l, k + 1)
      bracketed == Sees(l, a, "<")
      first == IF bracketed THEN a + 1 ELSE a
      end == WordEnd(l, first, IF bracketed THEN ">" ELSE Blank)
      next == IF bracketed THEN end + 1 ELSE end
  IN  IF /\ Sees(l, k, key) /\ a <= Len(l)
         /\ bracketed => end <= Len(l)
         /\ cmd = "rcpt" => Eol(l, next)
      THEN [cmd |-> cmd, parameter |-> SubSeq(l, first, end - 1)]
      ELSE InvalidCommand

(* AUTH: a mechanism and perhaps an initial response.                      *)
Auth(l) ==
  LET i == Skip(l, WordEnd(l, 1, Blank))
      end == WordEnd(l, i, Blank)
      j == Skip(l, end)
  IN  IF i > Len(l) THEN InvalidCommand
      ELSE IF end > Len(l) THEN [cmd |-> "auth", parameter |-> Word(l, i)]
      ELSE IF j <= Len(l) /\ Eol(l, WordEnd(l, j, Blank))
      THEN [cmd |-> "auth", parameter |-> Word(l, i) \o <<Blank>> \o Word(l, j)]
      ELSE InvalidCommand

(* DATA, QUIT, RSET, HELP, NOOP and STARTTLS.                              *)
Plain(l) == IF Eol(l, 2) THEN [cmd |-> "quit", parameter |-> <<>>]
            ELSE InvalidCommand

(* SMTPCommand::set().                                                     *)
ReadCommand(l) ==
  CASE Word(l, 1) = <<"helo">> -> Greeting(l)
    [] Word(l, 1) = <<"mail">> -> Address(l, "mail", "from:")
    [] Word(l, 1) = <<"rcpt">> -> Address(l, "rcpt", "to:")
    [] Word(l, 1) = <<"auth">> -> Auth(l)
    [] Word(l, 1) = <<"quit">> -> Plain(l)
    [] OTHER -> InvalidCommand

(* A slip: the brackets are left out.                                      *)
ShowCommandBare(c) ==
  CASE c.cmd \in {"helo", "auth"} -> <<c.cmd, Blank>> \o c.parameter
    [] c.cmd = "mail" -> <<"mail", Blank, "from:", Blank>> \o c.parameter
    [] c.cmd = "rcpt" -> <<"rcpt", Blank, "to:", Blank>> \o c.parameter
    [] OTHER -> <<c.cmd>>

(* SMTPCommand::operator string().                                         *)
ShowCommand(c) ==
  CASE c.cmd \in {"helo", "auth"} -> <<c.cmd, Blank>> \o c.parameter
    [] c.cmd = "mail" -> <<"mail", Blank, "from:", Blank, "<">> \o c.parameter \o <<">">>
    [] c.cmd = "rcpt" -> <<"rcpt", Blank, "to:", Blank, "<">> \o c.parameter \o <<">">>
    [] OTHER -> <<c.cmd>>

-----------------------------------------------------------------------------
(* A line of a reply: its code, or 0 if it has none, its fourth character, *)
(* and the rest, or "short" if there is no fourth character.               *)
MalformedResponse == [code |-> 0, continuation |-> <<>>, taken |-> 0]

(* More lines are needed: readline() waits.                                *)
Waiting == [MalformedResponse EXCEPT !.code = -1]

(* The lines that follow are read up to the first one without a hyphen.    *)
LastLine(lines) ==
  Min({i \in 2 .. Len(lines) : lines[i].sep # "-"} \cup {Len(lines) + 1})

Consistent(lines, i) ==
  lines[i].sep # "short" /\ lines[i].code = lines[1].code

(* A slip: the last line is left to be read as a reply of its own.         *)
ContinuationShort(lines) ==
  LET n == LastLine(lines)
  IN  IF \E i \in 2 .. Len(lines) : i <= n /\ ~Consistent(lines, i)
      THEN MalformedResponse
      ELSE IF n > Len(lines) THEN Waiting
      ELSE [code |-> lines[1].code, taken |-> n - 1,
            continuation |-> [i \in 1 .. n - 2 |-> lines[i + 1].text]]

Continuation(lines) ==
  LET n == LastLine(lines)
  IN  IF \E i \in 2 .. Len(lines) : i <= n /\ ~Consistent(lines, i)
      THEN MalformedResponse
      ELSE IF n > Len(lines) THEN Waiting
      ELSE [code |-> lines[1].code, taken |-> n,
            continuation |-> [i \in 1 .. n - 1 |-> lines[i + 1].text]]

(* SMTPResponse::set(): a reply of several lines is taken for 250 only.    *)
ReadResponse(lines) ==
  IF lines = <<>> THEN Waiting
  ELSE IF lines[1].code = 0 THEN MalformedResponse
  ELSE CASE lines[1].sep = "-" /\ lines[1].code = 250 -> Continuation(lines)
         [] lines[1].sep = Blank ->
              [code |-> lines[1].code, taken |-> 1, continuation |-> <<>>]
         [] OTHER -> MalformedResponse

(* SMTPResponse::operator string(), line by line.                          *)
ShowResponse(r) ==
  LET n == Len(r.continuation)
  IN  [i \in 1 .. n + 1 |->
         [code |-> r.code, sep |-> IF i <= n THEN "-" ELSE Blank,
          text |-> IF i = 1 THEN "status" ELSE r.continuation[i - 1]]]
=============================================================================
