---------------------------- MODULE SmtpSession ----------------------------
(***************************************************************************)
(* One SMTP session of spey: MessageProcessor::process(), the loop that    *)
(* stands between a remote client ("outside") and the real mail server     *)
(* ("inside", or downstream).  It reads a command, decides by itself or    *)
(* with the greylister whether to refuse it, and otherwise hands it on and *)
(* returns the downstream server's reply.                                  *)
(*                                                                         *)
(* A refusal of a recipient is not reported at once: the command is still  *)
(* handed on, errorstate is set, and the error is returned for DATA.  What *)
(* the session promises therefore depends on state kept in three places    *)
(* (spey's locals, the client's idea of the transaction, the transaction   *)
(* the downstream server holds), which STARTTLS, AUTH, RSET, error replies *)
(* and a reload of the settings change at different times.                 *)
(*                                                                         *)
(* An action is the stretch of process() between two points at which the   *)
(* thread waits for somebody else; a reload of the settings (by the accept *)
(* loop, in its own thread) can fall between any two of them.              *)
(***************************************************************************)
EXTENDS Integers, FiniteSets

CONSTANTS
  Senders,          \* well-formed reverse paths (with an @)
  Probe,            \* the empty reverse path, MAIL FROM:<>
  BadSender,        \* a reverse path without an @
  NoSender,         \* downstream has no transaction open
  SettingsChoices,  \* what the settings table may hold, see Setting
  MaxRecipients     \* bound: recipients downstream takes in one envelope

AuthMode == {"NoAuth", "ProxyAuth", "InternalAuth"}

(* The settings that process() reads while a session runs.                 *)
Setting == [intolerant : BOOLEAN, externaltls : BOOLEAN,
            externalauthmode : AuthMode]

ASSUME SettingsAssumption == SettingsChoices # {} /\ SettingsChoices \subseteq Setting
ASSUME SenderAssumption ==
  /\ NoSender \notin Senders \cup {Probe, BadSender}
  /\ Probe # BadSender /\ Senders \cap {Probe, BadSender} = {}
ASSUME MaxRecipientsAssumption == MaxRecipients \in Nat \ {0}

VARIABLES
  pc,             \* where process() waits, see PC
  cmd,            \* _command while it is being handled, Idle between commands
  from,           \* _from
  errorstate,     \* a recipient was refused, DATA is to be refused
  deferred,       \* the code in deferrederror
  connected,      \* a connection to the downstream server is up
  authenticated,  \* the client has authenticated
  trusted,        \* the client's address is in trustedhosts
  secure,         \* _outside.issecure()
  settings,       \* the settings as last reloaded
  reply,          \* the code of the last reply written to the client
  down,           \* the downstream server's side of its connection
  voucher,        \* history: who accepted the credentials of this client
  told            \* history: an error was reported since the last refusal

vars == <<pc, cmd, from, errorstate, deferred, connected,
          authenticated, trusted, secure, settings, reply, down, voucher,
          told>>

(***************************************************************************)
(* Commands.  EHLO stands for HELO and EHLO, which differ only in the text *)
(* of the reply; VRFY and EXPN are never parsed.                           *)
(***************************************************************************)
SenderArgs == Senders \cup {Probe, BadSender}

Plain == [verb : {"HELP", "QUIT", "STARTTLS", "RSET", "DATA", "NOOP"},
          arg : {"none"}]
Command ==
  Plain \cup [verb : {"EHLO"}, arg : {"domain", "undotted"}]
        \cup [verb : {"MAIL"}, arg : SenderArgs]
        \cup [verb : {"RCPT"}, arg : {"local", "foreign", "malformed"}]
        \cup [verb : {"AUTH"},
              arg : {"plain", "plain initial", "login", "unknown"}]

(* A command on its way to the downstream server; for a RCPT, with what    *)
(* has been decided about it in place of the address.                      *)
GreylistResponse == {"Accepted", "GreyListed", "BlackListed"}
Refused == {"GreyListed", "BlackListed"}
Verdict == GreylistResponse \cup {"Unchecked"}

Pending == {c \in Command : c.verb # "RCPT"} \cup [verb : {"RCPT"}, arg : Verdict]
Idle == [verb |-> "NOOP", arg |-> "none"]

(* The places where the thread waits: for the lookups and the pause before *)
(* the banner, for a command, for the downstream connection, for its       *)
(* reply, for a line of an AUTH exchange or of a body; "error" is the      *)
(* label of that name.                                                     *)
PC == {"start", "greet", "banner", "command", "error", "inside",
       "proxyauth", "plainauth", "username", "password", "body", "closed"}

Code == {0, 214, 220, 235, 250, 334, 354, 421, 451, 500, 501, 502, 503, 535,
         538, 550, 551, 554}
IsError(code) == code \div 100 = 5       \* iserror(): 4xx is none

(***************************************************************************)
(* The downstream server: whether spey's connection to it is up, whether   *)
(* that connection was opened by a client on TLS, whether it accepted      *)
(* credentials on it, and the open transaction: the sender and for every   *)
(* recipient it took what spey had decided and for which sender.           *)
(***************************************************************************)
Recipient == [verdict : Verdict, sender : SenderArgs]
Disconnected == [open |-> FALSE, tls |-> FALSE, auth |-> FALSE,
                 from |-> NoSender, rcpts |-> {}]
Downstream == [open : BOOLEAN, tls : BOOLEAN, auth : BOOLEAN,
               from : SenderArgs \cup {NoSender}, rcpts : SUBSET Recipient]

Exempt == authenticated \/ trusted

-----------------------------------------------------------------------------
Init ==
  /\ pc = "start"
  /\ cmd = Idle
  /\ from = Probe
  /\ errorstate = FALSE
  /\ deferred = 0
  /\ connected = FALSE
  /\ authenticated = FALSE
  /\ trusted \in BOOLEAN
  /\ secure = FALSE
  /\ settings \in SettingsChoices
  /\ reply = 0
  /\ down = Disconnected
  /\ voucher = "nobody"
  /\ told = FALSE

(* The thread's locals that a step leaves alone unless it says otherwise.  *)
session == <<authenticated, trusted, secure, voucher>>
transaction == <<from, errorstate, deferred, told>>
inside == <<connected, down>>

(* The session ends, by return or by an exception: the MessageProcessor is *)
(* destroyed, and both sockets with it.                                    *)
Terminate ==
  /\ pc' = "closed"
  /\ cmd' = Idle
  /\ from' = Probe /\ errorstate' = FALSE /\ deferred' = 0 /\ told' = FALSE
  /\ authenticated' = FALSE /\ secure' = FALSE /\ voucher' = "nobody"
  /\ connected' = FALSE /\ down' = Disconnected
  /\ UNCHANGED <<trusted, settings>>

(* The next command overwrites _command before anything reads it again.    *)
Loop == pc' = "command" /\ cmd' = Idle

(* goto error with the given code in deferrederror.                        *)
Fail(code) == pc' = "error" /\ cmd' = Idle /\ deferred' = code

Say(code) == reply' = code

(* The accept loop reloads the settings before each connection it takes,   *)
(* and they are global: they change under the sessions that run.           *)
Reload ==
  /\ settings' \in SettingsChoices
  /\ UNCHANGED <<pc, cmd, transaction, session, inside, reply>>

(* A read times out or meets the end of the stream, a write fails, the     *)
(* database or the TLS handshake fails, the downstream reply is malformed: *)
(* the exception leaves process().                                         *)
Break ==
  /\ pc # "closed"
  /\ Terminate
  /\ UNCHANGED reply

(* While the downstream connection is made the exception is caught to tell *)
(* the client.                                                             *)
ConnectFails ==
  /\ pc = "inside" /\ ~connected
  /\ Say(421)
  /\ Terminate

-----------------------------------------------------------------------------
(* Before the banner: RBL lookups, then the pause in which the client must *)
(* stay silent.  The error label is inside the command loop.               *)
CheckRbl ==
  /\ pc = "start" /\ ~trusted
  /\ \/ Fail(554)                                     \* listed
     \/ pc' = "greet" /\ UNCHANGED <<cmd, deferred>>
  /\ UNCHANGED <<from, errorstate, told, session, inside, settings, reply>>

GreetPause ==
  /\ pc = "greet"
  /\ \/ Fail(554)                                     \* spoke or hung up
     \/ pc' = "banner" /\ UNCHANGED <<cmd, deferred>> \* timeout, or no pause
  /\ UNCHANGED <<from, errorstate, told, session, inside, settings, reply>>

Banner ==
  /\ pc = "banner" \/ (pc = "start" /\ trusted)
  /\ Say(220)
  /\ Loop
  /\ UNCHANGED <<transaction, session, inside, settings>>

(* A slip: errorstate is not reset.                                        *)
ErrorKeepsState ==
  /\ pc = "error"
  /\ Say(deferred)
  /\ IF settings.intolerant
     THEN Terminate
     ELSE /\ told' = TRUE
          /\ Loop
          /\ UNCHANGED <<from, errorstate, deferred, session, inside, settings>>

(* The error label: deferrederror is sent.                                 *)
Error ==
  /\ pc = "error"
  /\ Say(deferred)
  /\ IF settings.intolerant
     THEN Terminate
     ELSE /\ errorstate' = FALSE
          /\ told' = TRUE
          /\ Loop
          /\ UNCHANGED <<from, deferred, session, inside, settings>>

-----------------------------------------------------------------------------
(* Commands, up to the point where the downstream server is needed.        *)
InvalidCommand ==
  /\ pc = "command"
  /\ Say(500)
  /\ IF settings.intolerant
     THEN Terminate
     ELSE Loop /\ UNCHANGED <<transaction, session, inside, settings>>

Help ==
  /\ pc = "command"
  /\ Say(214)
  /\ Loop
  /\ UNCHANGED <<transaction, session, inside, settings>>

Quit ==
  /\ pc = "command"
  /\ Terminate
  /\ UNCHANGED reply

(* Slips to check the properties against: the downstream connection, or    *)
(* the authentication, survives the handshake.                             *)
StarttlsKeepsDownstream ==
  /\ pc = "command"
  /\ settings.externaltls /\ ~secure
  /\ Say(220)
  /\ secure' = TRUE
  /\ errorstate' = FALSE
  /\ authenticated' = FALSE /\ voucher' = "nobody"
  /\ Loop
  /\ UNCHANGED <<from, deferred, told, trusted, inside, settings>>

StarttlsKeepsAuthentication ==
  /\ pc = "command"
  /\ settings.externaltls /\ ~secure
  /\ Say(220)
  /\ secure' = TRUE
  /\ connected' = FALSE /\ down' = Disconnected
  /\ errorstate' = FALSE
  /\ Loop
  /\ UNCHANGED <<from, deferred, told, trusted, authenticated, voucher,
                 settings>>

(* After the handshake the session starts again, except for _from.         *)
Starttls ==
  /\ pc = "command"
  /\ settings.externaltls /\ ~secure
  /\ Say(220)
  /\ secure' = TRUE
  /\ connected' = FALSE /\ down' = Disconnected
  /\ errorstate' = FALSE
  /\ authenticated' = FALSE /\ voucher' = "nobody"
  /\ Loop
  /\ UNCHANGED <<from, deferred, told, trusted, settings>>

StarttlsRefused ==
  /\ pc = "command"
  /\ IF settings.externaltls THEN secure /\ Fail(503) ELSE Fail(502)
  /\ UNCHANGED <<from, errorstate, told, session, inside, settings, reply>>

(* The command goes on to the second half of the loop.                     *)
Pass(c) == pc' = "inside" /\ cmd' = c

Ehlo(c) ==
  /\ pc = "command" /\ c.verb = "EHLO"
  /\ IF Exempt \/ c.arg = "domain"
     THEN Pass(c) /\ UNCHANGED deferred
     ELSE Fail(554)
  /\ UNCHANGED <<from, errorstate, told, session, inside, settings, reply>>

(* A slip: _from is left as it was.                                        *)
MailForgetsSender(c) ==
  /\ pc = "command" /\ c.verb = "MAIL"
  /\ IF Exempt \/ c.arg # BadSender
     THEN Pass(c) /\ UNCHANGED deferred
     ELSE Fail(501)
  /\ UNCHANGED <<from, errorstate, told, session, inside, settings, reply>>

(* _from is assigned before it is verified, and only for a client whose    *)
(* mail is checked.                                                        *)
Mail(c) ==
  /\ pc = "command" /\ c.verb = "MAIL"
  /\ from' = IF Exempt THEN from ELSE c.arg
  /\ IF Exempt \/ c.arg # BadSender
     THEN Pass(c) /\ UNCHANGED deferred
     ELSE Fail(501)
  /\ UNCHANGED <<errorstate, told, session, inside, settings, reply>>

(* The recipient is refused for what it is.                                *)
RcptRejected(c) ==
  /\ pc = "command" /\ c.verb = "RCPT"
  /\ ~Exempt
  /\ \/ c.arg = "malformed" /\ Fail(551)
     \/ c.arg = "foreign" /\ Fail(550)
  /\ UNCHANGED <<from, errorstate, told, session, inside, settings, reply>>

(* A slip: only the last verdict counts.                                   *)
RcptLastVerdictCounts(c, v) ==
  /\ pc = "command" /\ c.verb = "RCPT" /\ c.arg = "local"
  /\ ~Exempt
  /\ Pass([c EXCEPT !.arg = v])
  /\ errorstate' = (v \in Refused)
  /\ deferred' = CASE v = "BlackListed" -> 554
                   [] v = "GreyListed" -> 451
                   [] OTHER -> deferred
  /\ told' = (told /\ v \notin Refused)
  /\ UNCHANGED <<from, session, inside, settings, reply>>

(* The greylister has decided v.  A refusal is noted, and the command is   *)
(* handed on all the same.                                                 *)
RcptJudged(c, v) ==
  /\ pc = "command" /\ c.verb = "RCPT" /\ c.arg = "local"
  /\ ~Exempt
  /\ Pass([c EXCEPT !.arg = v])
  /\ errorstate' = (errorstate \/ v \in Refused)
  /\ deferred' = CASE v = "BlackListed" -> 554
                   [] v = "GreyListed" -> 451
                   [] OTHER -> deferred
  /\ told' = (told /\ v \notin Refused)
  /\ UNCHANGED <<from, session, inside, settings, reply>>

RcptUnchecked(c) ==
  /\ pc = "command" /\ c.verb = "RCPT"
  /\ Exempt
  /\ Pass([c EXCEPT !.arg = "Unchecked"])
  /\ UNCHANGED <<transaction, session, inside, settings, reply>>

(* A slip: no sender at all, where spey has an empty one.                  *)
RsetDropsSender(c) ==
  /\ pc = "command" /\ c.verb = "RSET"
  /\ from' = NoSender
  /\ Pass(c)
  /\ UNCHANGED <<errorstate, deferred, told, session, inside, settings, reply>>

Rset(c) ==
  /\ pc = "command" /\ c.verb = "RSET"
  /\ from' = Probe
  /\ Pass(c)
  /\ UNCHANGED <<errorstate, deferred, told, session, inside, settings, reply>>

(* A slip: errorstate is not looked at.                                    *)
DataIgnoresRefusal(c) ==
  /\ pc = "command" /\ c.verb = "DATA"
  /\ Pass(c)
  /\ UNCHANGED <<transaction, session, inside, settings, reply>>

Data(c) ==
  /\ pc = "command" /\ c.verb = "DATA"
  /\ IF errorstate THEN Fail(deferred) ELSE Pass(c) /\ UNCHANGED deferred
  /\ UNCHANGED <<from, errorstate, told, session, inside, settings, reply>>

OtherCommand(c) ==
  /\ pc = "command" /\ c.verb \in {"NOOP", "AUTH"}
  /\ Pass(c)
  /\ UNCHANGED <<transaction, session, inside, settings, reply>>

Connect ==
  /\ pc = "inside" /\ ~connected
  /\ connected' = TRUE
  /\ down' = [Disconnected EXCEPT !.open = TRUE, !.tls = secure]
  /\ UNCHANGED <<pc, cmd, transaction, session, settings, reply>>

-----------------------------------------------------------------------------
(* The downstream server, external to spey: what it does with a command it *)
(* accepts, and the codes with which it may refuse one.  It keeps to       *)
(* RFC 2821: RSET is never refused, a nested MAIL always is, RCPT needs a  *)
(* sender, DATA needs a recipient.                                         *)
NoTransaction(d) == [d EXCEPT !.from = NoSender, !.rcpts = {}]

Obeys ==
  \/ cmd.verb \in {"EHLO", "RSET"} /\ down' = NoTransaction(down)
  \/ cmd.verb = "NOOP" /\ UNCHANGED down
  \/ /\ cmd.verb = "MAIL" /\ down.from = NoSender
     /\ down' = [down EXCEPT !.from = cmd.arg]
  \/ /\ cmd.verb = "RCPT" /\ down.from # NoSender
     /\ Cardinality(down.rcpts) < MaxRecipients
     /\ down' = [down EXCEPT !.rcpts =
                   @ \cup {[verdict |-> cmd.arg, sender |-> from]}]

Refuses(code) ==
  /\ cmd.verb \in {"EHLO", "NOOP", "MAIL", "RCPT", "DATA"}
  /\ code \in {451, 550}
  /\ cmd.verb = "MAIL" /\ down.from # NoSender => code = 550

(* writeinside(), readinside(), writeoutside() and the test of what came   *)
(* back, which is the downstream's own error and does not go to the error  *)
(* label.                                                                  *)
Relay ==
  /\ pc = "inside" /\ connected
  /\ Obeys
  /\ Say(250)
  /\ Loop
  /\ UNCHANGED <<transaction, connected, session, settings>>

RelayRefused(code) ==
  /\ pc = "inside" /\ connected
  /\ Refuses(code)
  /\ Say(code)
  /\ IF IsError(code) /\ settings.intolerant
     THEN Terminate
     ELSE Loop /\ UNCHANGED <<transaction, session, inside, settings>>

(* DATA is accepted with 354: the body follows.                            *)
RelayData ==
  /\ pc = "inside" /\ connected /\ cmd.verb = "DATA"
  /\ down.rcpts # {}
  /\ Say(354)
  /\ pc' = "body"
  /\ UNCHANGED <<cmd, transaction, session, inside, settings>>

(* The body has been copied up to the dot, and downstream has answered.    *)
(* Its answer is returned, and nothing else is done about it.              *)
Body(code) ==
  /\ pc = "body"
  /\ code \in {250, 451, 554}
  /\ down' = NoTransaction(down)
  /\ Say(code)
  /\ Loop
  /\ UNCHANGED <<transaction, connected, session, settings>>

-----------------------------------------------------------------------------
(* AUTH.                                                                   *)
AuthPending(mode) ==
  /\ pc = "inside" /\ connected /\ cmd.verb = "AUTH"
  /\ settings.externalauthmode = mode

AuthOff ==
  /\ AuthPending("NoAuth")
  /\ Fail(500)
  /\ UNCHANGED <<from, errorstate, told, session, inside, settings, reply>>

(* The downstream server takes the credentials or not: 334 asks for more.  *)
Judges(code) ==
  /\ code \in {235, 334, 535}
  /\ down' = [down EXCEPT !.auth = IF code = 235 THEN TRUE ELSE @]

(* AUTH is handed on.  Any answer but 334 is taken for a failure to be     *)
(* retried with another mechanism.  Downstream accepts at once only what   *)
(* came with an initial response; "plain initial" stands for any such      *)
(* mechanism.                                                              *)
ProxyAuth(code) ==
  /\ AuthPending("ProxyAuth")
  /\ code = 235 => cmd.arg = "plain initial"
  /\ Judges(code)
  /\ Say(code)
  /\ IF code = 334 THEN pc' = "proxyauth" /\ UNCHANGED cmd ELSE Loop
  /\ UNCHANGED <<transaction, connected, session, settings>>

(* A line of the client's, and the downstream server's answer to it.       *)
ProxyAuthLine(code) ==
  /\ pc = "proxyauth"
  /\ Judges(code)
  /\ Say(code)
  /\ IF code = 334 THEN UNCHANGED <<pc, cmd>> ELSE Loop
  /\ IF code = 235
     THEN authenticated' = TRUE /\ voucher' = "downstream"
     ELSE UNCHANGED <<authenticated, voucher>>
  /\ UNCHANGED <<transaction, connected, trusted, secure, settings>>

(* spey's own authentication, with auth_plain() or auth_login(): the first *)
(* prompt.                                                                 *)
InternalAuth ==
  /\ AuthPending("InternalAuth")
  /\ secure /\ cmd.arg \in {"plain", "login"}
  /\ Say(334)
  /\ pc' = IF cmd.arg = "plain" THEN "plainauth" ELSE "username"
  /\ UNCHANGED <<cmd, transaction, session, inside, settings>>

InternalAuthRefused ==
  /\ AuthPending("InternalAuth")
  /\ \/ ~secure /\ Fail(538)
     \/ secure /\ cmd.arg = "unknown" /\ Fail(535)
  /\ UNCHANGED <<from, errorstate, told, session, inside, settings, reply>>

(* The user name has been read; "*" cancels.                               *)
Username ==
  /\ pc = "username"
  /\ \/ Fail(501) /\ UNCHANGED reply
     \/ pc' = "password" /\ Say(334) /\ UNCHANGED <<cmd, deferred>>
  /\ UNCHANGED <<from, errorstate, told, session, inside, settings>>

(* The last line has been read, or came with the command: 235 when the     *)
(* users table holds the pair, 535 when it does not, when the line cannot  *)
(* be decoded or when the query fails, 501 when the client cancels.        *)
Credentials(result) ==
  /\ \/ pc \in {"plainauth", "password"} /\ result \in {235, 501, 535}
     \/ /\ AuthPending("InternalAuth")
        /\ secure /\ cmd.arg = "plain initial" /\ result \in {235, 535}
  /\ IF result = 235
     THEN /\ Say(235)
          /\ authenticated' = TRUE /\ voucher' = "users"
          /\ Loop
          /\ UNCHANGED deferred
     ELSE /\ Fail(result)
          /\ UNCHANGED <<reply, authenticated, voucher>>
  /\ UNCHANGED <<from, errorstate, told, trusted, secure, inside, settings>>

-----------------------------------------------------------------------------
(* A client's command, by its verb.                                        *)
HandleCommand(c) ==
  \/ Ehlo(c)
  \/ Mail(c)
  \/ RcptRejected(c)
  \/ \E v \in GreylistResponse : RcptJudged(c, v)
  \/ RcptUnchecked(c)
  \/ Rset(c)
  \/ Data(c)
  \/ OtherCommand(c)

Authenticate ==
  \/ AuthOff
  \/ \E code \in Code : ProxyAuth(code)
  \/ \E code \in Code : ProxyAuthLine(code)
  \/ InternalAuth
  \/ InternalAuthRefused
  \/ Username
  \/ \E code \in Code : Credentials(code)

Next ==
  \/ CheckRbl \/ GreetPause \/ Banner \/ Error
  \/ InvalidCommand \/ Help \/ Quit \/ Starttls \/ StarttlsRefused
  \/ \E c \in Command : HandleCommand(c)
  \/ Connect \/ ConnectFails
  \/ Relay
  \/ \E code \in Code : RelayRefused(code)
  \/ RelayData
  \/ \E code \in Code : Body(code)
  \/ Authenticate
  \/ Reload \/ Break

Spec == Init /\ [][Next]_vars

-----------------------------------------------------------------------------
(* Types of the variables; a session that is not up holds nothing.         *)
TypeOK ==
  /\ pc \in PC
  /\ cmd \in Pending
  /\ from \in SenderArgs
  /\ errorstate \in BOOLEAN /\ deferred \in Code
  /\ connected \in BOOLEAN /\ authenticated \in BOOLEAN
  /\ trusted \in BOOLEAN /\ secure \in BOOLEAN
  /\ settings \in SettingsChoices
  /\ reply \in Code
  /\ down \in Downstream
  /\ voucher \in {"nobody", "downstream", "users"}
  /\ told \in BOOLEAN

(* No body is copied for an envelope that holds a recipient the greylister *)
(* refused: the RCPT went through, so DATA is the only place left.         *)
NoRefusedBody ==
  pc = "body" => \A r \in down.rcpts : r.verdict \notin Refused

(* What remains of it when errors are tolerated: a recipient the greylister *)
(* refused is in no envelope without either the refusal still pending or   *)
(* the client having been answered with an error since.                    *)
RefusalPendingOrTold ==
  (\E r \in down.rcpts : r.verdict \in Refused) => errorstate \/ told

(* The code that answers DATA is one a refusal has set: no other error     *)
(* leaves its own code behind while a refusal is pending.                  *)
RefusalCodeStands ==
  errorstate /\ pc \notin {"error", "closed"} => deferred \in {451, 554}

(* The verdict on a recipient was made for the sender of the envelope it   *)
(* is in, not for what spey last read in a MAIL command.                   *)
VerdictForThisSender ==
  \A r \in down.rcpts : r.verdict # "Unchecked" => r.sender = down.from

(* A recipient passed unchecked is only ever held by the downstream server *)
(* while the client that named it is trusted or authenticated, and         *)
(* authentication stands while what vouched for it does: the connection on *)
(* which the downstream server accepted the credentials, or TLS.           *)
ExemptionBacked ==
  /\ \A r \in down.rcpts : r.verdict = "Unchecked" => Exempt
  /\ authenticated =>
       \/ voucher = "downstream" /\ down.auth
       \/ voucher = "users" /\ secure

(* Nothing the client said before STARTTLS reaches the downstream server   *)
(* on a connection used after it, and spey knows whether it is connected.  *)
TlsStartsAfresh ==
  /\ connected = down.open
  /\ down.open => down.tls = secure

(* The session is a Gatekeeper of the downstream server's transaction.     *)
Gate == INSTANCE Gatekeeper WITH
  Envelopes <- SenderArgs, Nobody <- NoSender,
  Refusals <- Refused, Passes <- GreylistResponse \ Refused,
  sender <- down.from, admitted <- down.rcpts,
  copying <- (pc = "body"), exempt <- Exempt
GateKept == Gate!Spec

-----------------------------------------------------------------------------
(* Statements of the manual that the code does not keep; each is refuted   *)
(* by a run of its own.                                                    *)

(* "If a message is caught by the blacklist, it will be rejected": no body *)
(* is copied for an envelope with a blacklisted recipient.                 *)
BlacklistedRejected ==
  pc = "body" => \A r \in down.rcpts : r.verdict # "BlackListed"

(* "If the authentication succeeds then any greylisting or blacklisting    *)
(* will be bypassed": a client the downstream server has authenticated is  *)
(* exempt when its next command is read.                                   *)
ProxyAuthHonoured == pc = "command" /\ down.auth => Exempt
=============================================================================
