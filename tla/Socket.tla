------------------------------- MODULE Socket -------------------------------
(***************************************************************************)
(* A client's connection as Socket keeps it: reads with a timeout, lines   *)
(* put together byte by byte, replies, the change to TLS in between, and   *)
(* what is freed in the end.  The session is reduced to what it does with  *)
(* the socket: it reads a line, replies, calls makesecure() after the reply*)
(* to STARTTLS, and deinit() when it is over.                              *)
(*                                                                         *)
(* Time is in milliseconds since the read began; only that difference ever *)
(* matters.  The clock is taken to be steady.  That waits are without the  *)
(* CPU lock, and which are not, is in module Threadlets; how bytes make a  *)
(* line in module Wire.                                                    *)
(***************************************************************************)
EXTENDS Integers, Sequences

CONSTANTS
  Timeouts,    \* socket-timeout, in seconds
  Millis,      \* milliseconds in a second, 1000
  IntMax,      \* the largest int, 2^31 - 1
  MaxLate,     \* bound: how late poll() comes back, in milliseconds
  MaxUnits     \* bound: what the client sends

ASSUME TimeoutAssumption == Timeouts \subseteq Int /\ Millis \in Nat \ {0}
ASSUME BoundAssumption == IntMax \in Nat /\ MaxLate \in Nat /\ MaxUnits \in Nat

(* A byte of a command, the whole of the word STARTTLS, the end of a line, *)
(* and the first message of a TLS handshake.                               *)
Byte == {"x", "STARTTLS", "LF", "hello"}

(* What arrives at once: a byte in the clear, or a TLS record.             *)
Clear == [tls : {FALSE}, body : {<<c>> : c \in Byte \ {"hello"}}]
Record == [tls : {TRUE}, body : {<<"hello">>, <<"x">>, <<"LF">>, <<"LF", "x">>}]
Unit == Clear \cup Record

Nothing == [tls |-> TRUE, body |-> <<>>]

Hello == [tls |-> TRUE, body |-> <<"hello">>]

VARIABLES
  timeout,   \* _timeout
  secure,    \* _issecure
  session,   \* there are a gnutls session and its credentials
  wire,      \* what the kernel has for spey
  half,      \* the last record has not arrived in full
  eof,       \* the client has closed its socket
  sent,      \* how much the client has sent
  pending,   \* the rest of a record that gnutls has decrypted
  pc,        \* where spey is
  deadline,  \* read(): when it times out
  elapsed,   \* the time since it began
  line,      \* readline(): the line so far
  clear,     \* history: some of it came in the clear
  shaken     \* history: a handshake was begun

client == <<wire, half, eof, sent>>
time == <<deadline, elapsed>>
security == <<secure, session, shaken>>
vars == <<timeout, secure, session, wire, half, eof, sent, pending, pc,
          deadline, elapsed, line, clear, shaken>>

Init ==
  /\ timeout \in Timeouts /\ secure = FALSE /\ session = FALSE
  /\ wire = <<>> /\ half = FALSE /\ eof = FALSE /\ sent = 0
  /\ pending = Nothing /\ pc = "idle"
  /\ deadline = 0 /\ elapsed = 0
  /\ line = <<>> /\ clear = FALSE /\ shaken = FALSE

(* A slip: it is kept without its sign.                                    *)
Unsigned(n) == n % (2 * IntMax + 2)

(* What is left of a number that is kept in an int.                        *)
Int32(n) == ((n + IntMax + 1) % (2 * IntMax + 2)) - IntMax - 1

-----------------------------------------------------------------------------
(* readline(): one byte more, which came by TLS or in the clear.           *)
Feed(c, byTls) ==
  /\ clear' = (clear \/ ~byTls)
  /\ IF c = "LF" THEN pc' = "replying" /\ UNCHANGED line
     ELSE pc' = "idle" /\ line' = Append(line, c)

(* read(): what gnutls has decrypted is returned at once.                  *)
ReadPending ==
  /\ pc = "idle" /\ secure /\ pending.body # <<>>
  /\ Feed(Head(pending.body), pending.tls)
  /\ pending' = [pending EXCEPT !.body = Tail(@)]
  /\ UNCHANGED <<timeout, security, client, time>>

(* The time at which the read will be given up.  The product is an int.    *)
Read ==
  /\ pc = "idle" /\ ~(secure /\ pending.body # <<>>)
  /\ deadline' = Int32(timeout * Millis) /\ elapsed' = 0
  /\ pc' = "looping"
  /\ UNCHANGED <<timeout, security, client, pending, line, clear>>

Delay == Int32(deadline - elapsed)

(* A slip: the delay is not computed anew when poll() comes back.          *)
PollStale ==
  /\ pc = "looping" /\ deadline >= 0
  /\ pc' = "polling"
  /\ UNCHANGED <<timeout, security, client, pending, time, line, clear>>

Poll ==
  /\ pc = "looping" /\ Delay >= 0
  /\ pc' = "polling"
  /\ UNCHANGED <<timeout, security, client, pending, time, line, clear>>

(* A slip: the delay is taken to be in seconds.                            *)
TimeoutEarly ==
  /\ pc = "looping" /\ Int32(timeout - elapsed) < 0
  /\ pc' = "timed out"
  /\ UNCHANGED <<timeout, security, client, pending, time, line, clear>>

(* The exception ends the session.                                         *)
Timeout ==
  /\ pc = "looping" /\ Delay < 0
  /\ pc' = "timed out"
  /\ UNCHANGED <<timeout, security, client, pending, time, line, clear>>

(* The loop is left for the read, and its locals are done with.            *)
LeaveLoop ==
  /\ pc = "polling" /\ pc' = "reading"
  /\ deadline' = 0 /\ elapsed' = 0
  /\ UNCHANGED <<timeout, security, client, pending, line, clear>>

(* poll() comes back when there is something to read or the end of the     *)
(* file,                                                                   *)
PollReturns == (wire # <<>> \/ eof) /\ LeaveLoop

(* or with -1, which is not 0 either: the read then waits without a        *)
(* timeout.                                                                *)
PollFails == LeaveLoop

(* Or after the delay it was given, which is at the deadline.              *)
PollExpires ==
  /\ pc = "polling" /\ wire = <<>> /\ ~eof /\ elapsed >= deadline
  /\ pc' = "looping"
  /\ UNCHANGED <<timeout, security, client, pending, time, line, clear>>

Fail(place) ==
  /\ pc = place /\ pc' = "ended"
  /\ UNCHANGED <<timeout, security, client, pending, time, line, clear>>

(* A slip: more is taken from the kernel than is asked for.                *)
ReceiveAhead ==
  /\ pc = "reading" /\ ~secure /\ wire # <<>>
  /\ Feed(IF Head(wire).tls THEN "x" ELSE Head(wire).body[1], FALSE)
  /\ pending' = IF Len(wire) > 1 THEN wire[2] ELSE Nothing
  /\ wire' = <<>> /\ half' = FALSE
  /\ UNCHANGED <<timeout, security, eof, sent, time>>

(* Without TLS readline() has the kernel give it a byte at a time.  What is*)
(* not text is a byte like any other.                                      *)
Receive ==
  /\ pc = "reading" /\ ~secure /\ wire # <<>>
  /\ Feed(IF Head(wire).tls THEN "x" ELSE Head(wire).body[1], FALSE)
  /\ wire' = Tail(wire) /\ half' = (half /\ Len(wire) > 1)
  /\ UNCHANGED <<timeout, security, eof, sent, pending, time>>

(* With TLS a whole record is waited for, without a timeout.               *)
Arrived == wire # <<>> /\ ~(half /\ Len(wire) = 1)

ReceiveRecord ==
  /\ pc = "reading" /\ secure /\ Arrived /\ Head(wire).tls
  /\ Feed(Head(Head(wire).body), TRUE)
  /\ pending' = [Head(wire) EXCEPT !.body = Tail(@)]
  /\ wire' = Tail(wire)
  /\ UNCHANGED <<timeout, security, half, eof, sent, time>>

(* A slip: only -1 is taken for the end of the file.                       *)
ReceiveFailsUnseen ==
  \/ secure /\ Arrived /\ ~Head(wire).tls /\ Fail("reading")
  \/ /\ pc = "reading" /\ eof /\ ~Arrived /\ (secure \/ wire = <<>>)
     /\ pc' = "idle"
     /\ UNCHANGED <<timeout, security, client, pending, time, line, clear>>

(* No byte: the end of the file, or what is no TLS record.                 *)
ReceiveFails ==
  /\ \/ eof /\ ~Arrived
     \/ secure /\ Arrived /\ ~Head(wire).tls
  /\ secure \/ wire = <<>>
  /\ Fail("reading")

-----------------------------------------------------------------------------
(* writeline(): the kernel or gnutls takes the line.  That says nothing of *)
(* the client, which may have gone; and gnutls takes no more than a record,*)
(* and has other codes than -1 for its errors, which go unseen.            *)
Reply ==
  /\ pc = "replying"
  /\ pc' = IF line = <<"STARTTLS">> /\ ~secure THEN "securing" ELSE "idle"
  /\ line' = <<>> /\ clear' = FALSE
  /\ UNCHANGED <<timeout, security, client, pending, time>>

ReplyFails == ~secure /\ Fail("replying")

(* QUIT, and whatever else makes the session end.                          *)
Quit == Fail("replying")

(* A slip: the socket is marked as secure only when the handshake is done. *)
MakesecureUnmarked ==
  /\ pc = "securing" /\ pc' = "shaking hands"
  /\ session' = TRUE /\ shaken' = TRUE
  /\ UNCHANGED <<timeout, secure, client, pending, time, line, clear>>

(* makesecure(): a session and credentials are made, and the socket is     *)
(* marked as secure before the handshake,                                  *)
Makesecure ==
  /\ pc = "securing" /\ pc' = "shaking hands"
  /\ session' = TRUE /\ secure' = TRUE /\ shaken' = TRUE
  /\ UNCHANGED <<timeout, client, pending, time, line, clear>>

(* unless a key or the certificate cannot be read, which is an exception.  *)
MakesecureThrows ==
  /\ pc = "securing" /\ pc' = "ended"
  /\ session' = TRUE
  /\ UNCHANGED <<timeout, secure, shaken, client, pending, time, line, clear>>

(* The handshake waits for the client, without a timeout; its first message*)
(* stands for all of it.                                                   *)
Handshake ==
  /\ pc = "shaking hands" /\ Arrived /\ Head(wire) = Hello
  /\ wire' = Tail(wire) /\ pc' = "idle"
  /\ UNCHANGED <<timeout, security, half, eof, sent, pending, time, line, clear>>

HandshakeFails == (Arrived \/ eof) /\ Fail("shaking hands")

(* deinit(): what gnutls has is freed if the socket is marked as secure,   *)
(* and the descriptor is closed.                                           *)
Deinit ==
  /\ pc \in {"timed out", "ended"} /\ pc' = "closed"
  /\ session' = (session /\ ~secure) /\ secure' = FALSE /\ pending' = Nothing
  /\ UNCHANGED <<timeout, shaken, client, time, line, clear>>

-----------------------------------------------------------------------------
(* The client sends what it likes, a record perhaps in two parts, and hangs*)
(* up when it likes.                                                       *)
Send(u, part) ==
  /\ ~eof /\ ~half /\ sent < MaxUnits
  /\ wire' = Append(wire, u) /\ half' = part /\ sent' = sent + 1
  /\ UNCHANGED <<timeout, security, eof, pending, pc, time, line, clear>>

SendRest ==
  /\ half /\ ~eof /\ half' = FALSE
  /\ UNCHANGED <<timeout, security, wire, eof, sent, pending, pc, time, line,
                 clear>>

HangUp ==
  /\ ~eof /\ eof' = TRUE
  /\ UNCHANGED <<timeout, security, wire, half, sent, pending, pc, time, line,
                 clear>>

Tick ==
  /\ pc \in {"looping", "polling"} /\ elapsed < deadline + MaxLate
  /\ elapsed' = elapsed + 1
  /\ UNCHANGED <<timeout, security, client, pending, pc, deadline, line, clear>>

Spey ==
  \/ ReadPending \/ Read \/ Poll \/ Timeout
  \/ PollReturns \/ PollFails \/ PollExpires
  \/ Receive \/ ReceiveRecord \/ ReceiveFails
  \/ Reply \/ ReplyFails \/ Quit
  \/ Makesecure \/ MakesecureThrows \/ Handshake \/ HandshakeFails
  \/ Deinit

Client ==
  \/ \E u \in Clear : Send(u, FALSE)
  \/ \E u \in Record, part \in BOOLEAN : Send(u, part)
  \/ SendRest \/ HangUp

Next == Spey \/ Client \/ Tick

(* The thread runs when it can, and time goes on.  Nothing is expected of  *)
(* the client.                                                             *)
Spec == Init /\ [][Next]_vars /\ WF_vars(Spey) /\ WF_vars(Tick)

-----------------------------------------------------------------------------
(* Types of the variables.                                                 *)
TypeOK ==
  /\ timeout \in Timeouts
  /\ secure \in BOOLEAN /\ session \in BOOLEAN /\ half \in BOOLEAN /\ eof \in BOOLEAN
  /\ clear \in BOOLEAN /\ shaken \in BOOLEAN
  /\ wire \in Seq(Unit) /\ pending \in [tls : BOOLEAN, body : Seq(Byte)] /\ line \in Seq(Byte)
  /\ sent \in 0 .. MaxUnits
  /\ pc \in {"idle", "looping", "polling", "reading", "replying",
            "securing", "shaking hands", "timed out", "ended", "closed"}
  /\ deadline \in -IntMax - 1 .. IntMax /\ elapsed \in 0 .. IntMax + MaxLate

(* socket-timeout is in seconds: a read is not given up before they have   *)
(* passed, however often poll() comes back, as long as their milliseconds  *)
(* fit an int.                                                             *)
TimeoutNotEarly ==
  pc = "timed out" /\ timeout * Millis <= IntMax => elapsed >= timeout * Millis

(* What was sent before the handshake, even together with STARTTLS, is no  *)
(* part of a command that is carried out after it: readline() leaves it to *)
(* the kernel, where it spoils the handshake.                              *)
ClearStaysOutside == secure => ~clear

(* "This socket is now marked as secure to ensure that TLS teardown happens*)
(* correctly, even if the handshake fails": nothing of gnutls outlives a   *)
(* connection on which a handshake was begun, however it ended.            *)
TlsTornDown == pc = "closed" /\ shaken => ~session

(* When the client has closed its socket, the session ends and closes the  *)
(* connection, wherever it is: in a record of which half arrived, in the   *)
(* handshake, behind a row of commands, and although replies that are lost *)
(* go unseen with TLS.                                                     *)
GoneClientEnds == eof ~> pc = "closed"

(* "Controls how long spey will wait on a socket when there is no traffic":*)
(* whatever the timeout, and however often poll() comes back for nothing,  *)
(* the loop around it ends, with a timeout or for the read.                *)
ReadEnds == pc \in {"looping", "polling"} ~> pc \notin {"looping", "polling"}

(* "Set to 0 if you want to disable the timeout completely."               *)
ZeroDisables == timeout = 0 => pc # "timed out"
=============================================================================
