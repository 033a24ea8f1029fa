# Verification of spey

spey is an SMTP proxy that greylists.  It listens for remote clients, holds
every SMTP conversation at arm's length, and relays it command by command to the
real mail server ("inside", or downstream).  This directory holds TLA+
specifications translated from the code under `src/`, TLC configurations that
check them on small instances, and theorems that TLAPS proves for every value
of the constants.  `PROJECT.json` maps every definition to the lines it stands
for and lists the hazards that the properties are for.

## 1. Inventory

| Part | State | Operations | Interacts with |
|---|---|---|---|
| `spey/MessageProcessor.cc` (one per client) | the locals of `process()`: `errorstate`, `deferrederror`, `connected`, `authenticated`, `trusted`; `_from`, `_command`, `_response`; two sockets | the command loop | client and downstream server (sockets), greylister (call), Settings (shared, read), Statistics (call) |
| `spey/SMTPCommand.cc`, `SMTPResponse.cc`, `Parser.cc` | none | text to command or reply and back | MessageProcessor |
| `spey/auth.cc`, `base64.cc` | none | AUTH PLAIN and LOGIN conversations | MessageProcessor, table `users` |
| `spey/greylist.cc` | table `triples` | `greylist()`: verdict on one recipient | shared database: whitelist, blacklist, triples |
| `Threadlet.cc` | the CPU lock, the threads | start, run, release and take the lock, halt | every blocking call |
| `spey/ServerProcessor.cc`, `SocketServer.cc` | the master socket | accept, reload the settings, start a session | Threadlet, Settings |
| `spey/main_spey.cc` | none | start in daemon or inetd mode | all of them |
| `Socket.cc` | descriptor, timeout, TLS session | read, write, readline, writeline, makesecure | Threadlet (Concurrent scopes) |
| `spey/rbl.cc` | none | one name lookup | Threadlet |
| `Settings.cc` | copies of the settings, global | reload, testtrusted, testacceptance | database |
| `SQL.cc`, `Statistics.cc` | the database handle, counters | statements, commit lock, count | SQLite, shared with speyctl |
| `speyctl/*` (another process) | none | init, set, trust, recipient, whitelist, blacklist, user, purge, statsreset | database |

Hard behaviours:

- *The deferred refusal.*  A refused RCPT is relayed all the same and the error
  is kept for DATA.  Whether refused mail is stopped depends on `errorstate`,
  on the downstream server's envelope and on what the client was told, and
  STARTTLS, AUTH, RSET, errors and a reload of the settings change these at
  different times.  Correct: no body for a refused recipient; a verdict was
  made for the sender of its envelope; who passes unchecked is exempt.
- *Statements without a transaction.*  `greylist()` is four SQL statements; speyctl
  purges and edits between any two of them, and in inetd mode so do other
  spey processes.  Correct: nothing is accepted before the quarantine is
  over, and who comes back in time is accepted.
- *One lock for all threads*, released only around waits, with exceptions that
  cross the scopes.  Correct: the lock is held exactly where the code relies on
  it; every accepted connection is closed in the end; the server keeps serving.
- *Failures*: accept(), pthread_create(), a statement inside an exception handler,
  a downstream server that is gone.
- *Waits without an end*: a TLS record, a handshake, connect(), a locked database.
- *Numbers*: a 32-bit time, the boundary of the quarantine, timeouts.

## 2. Modules

| Module | Models | Code it stands for |
|---|---|---|
| `SmtpSession` | one session, from the RBL check to its end, with the downstream server and the reloads around it | `MessageProcessor.cc`, `auth.cc`, parts of `SMTPResponse.cc` and `Settings.cc` |
| `Gatekeeper` | abstract: what a session promises the server behind it | refined by `SmtpSession` |
| `Greylist` | calls of `greylist()` in several threads or processes, speyctl purge and list edits, the clock | `greylist.cc`, `purge.sql`, `cmd_Xlist`, `SQLQuery` |
| `Threadlets` | main thread, server threadlet, sessions, CPU lock, accept queue | `Threadlet.cc`, `ServerProcessor.cc`, `SocketServer.cc`, `main_spey.cc`, the waits of `Socket.cc` and `SocketAddress.cc` |
| `Service` | abstract: what a connecting client is promised | refined by `Threadlets` |
| `Database` | speyctl's commands, the settings' reload and the counters, with the locks and the journal of SQLite | `main_speyctl.cc`, its scripts, `SQL.cc`, `Settings.cc`, `Statistics.cc` |
| `Tables` | abstract: commands that take effect at once or not at all | refined by `Database` |
| `Socket` | a client's connection: timeouts, lines, replies, the change to TLS | `Socket.cc` |
| `Framing`, `Base64`, `Parsing` | the conversions, as functions: bytes and lines, base64 and credentials, commands and replies | `Socket.cc`, `base64.cc`, `auth.cc`, `Parser.cc`, `SMTPCommand.cc`, `SMTPResponse.cc` |
| `Wire` | what is sent, a piece at a time, and what the conversions make of it | the loop of `MessageProcessor.cc` that copies a body, over `Socket::readline()` |
| `MC_*` | values for the constants, symmetry | |
| `*_proofs` | theorems; `Data_proofs` has the lemmas about numbers, sets and sequences that those of `Wire` rest on | |

`SmtpSession`, `Greylist`, `Threadlets`, `Database` and `Socket` look at one
program from five sides, and each has the others for its environment: a
verdict of `Greylist` is any verdict in `SmtpSession`, a setting that
`Database` reloads is a `Reload` there, a wait of `Socket` is a wait of
`Threadlets`.  What they share is small: the settings, the CPU lock and the
database.

### SmtpSession

An action is the stretch of `process()` between two points at which the thread waits
for somebody else: `pc` names the wait (`"command"`, `"inside"`, `"body"`, ...,
and `"error"` for the label of that name).  The locals are variables of the same
names; `deferred` and `reply` hold only the codes.  `Reload` may happen between
any two actions because the settings are global and the accept loop reloads them.
`Break` is every exception that leaves `process()`.  `down` is the downstream server's
side of the connection, external to spey and assumed to keep to RFC 2821 (`Obeys`,
`Refuses`, `Judges`): RSET is obeyed, a nested MAIL is refused, RCPT needs a
sender, DATA a recipient.  The greylister's verdict is any of the three.  `voucher`
and `told` are history variables: who accepted the client's credentials, and whether
the client has been answered with an error since the last refusal.

Addresses are a sender with an @, the empty sender and one without an @;
recipients are local, foreign or malformed.  Left out: wording, the EHLO
extension list, the Received: header, VRFY and EXPN (never parsed).

### Greylist

One action per SQL statement.  `CheckWhitelist` also reads the clock, once, as
the code does, and needs the other calls to be idle in daemon mode, where the
caller holds the CPU lock.  `SelectFound` takes any row of the triple, for the
query has no order.  `GetInt` is `atoi()` on an `int`.  `Abort` is a statement that fails.
`Purge` is one step: its statements are in one transaction.  `quarantine-time`,
`invalid-expiry` and `valid-expiry` are constants.  History: `firstRefused`
(first refused attempt of a triple), `streak` (the attempts that followed each other
before the row could expire) and `earned` (the calls whose client must be accepted).
The clock advances between any two statements because SQLITE_BUSY repeats a statement.

### Threadlets

`pc` of a thread says whether it holds the lock (`Holding`), asks for it
(`Asking`) or neither; `conn` is the state of each connection, `fresh` the one that
accept() has just returned.  A session alternates between running and a wait: `Poll`
(with a timeout), `Send` (write or lookup, without one).  After poll()
the data is read under the lock, which may wait for more: on TLS for the rest of a
record, and on any connection if poll() has failed (`"blocked"`).  `CountingFails` is an exception in the exception handler: the process
aborts.  A connection is closed by its session, by the server when no thread could be
made, or with the process.

The session also waits in connect() and in the lookup of the client's name
(`Connect`), which keep the lock, and in the TLS handshake (`Makesecure`), which does
not, but has no timeout.  A key that cannot be read makes makesecure() throw before that
wait; here it is one of the ways in which a session ends (`End`).

### Gatekeeper

Four variables say what the downstream server sees: the open transaction's sender,
its recipients, whether a body is on its way, and whether the client is exempt.  A
recipient is admitted with a verdict for that very sender, or unchecked while the
client is exempt; a body is let in only when no recipient was refused.  The
mapping is at the end of `SmtpSession` (`Gate`): the variables are those of `down`,
and `exempt` is `Exempt`.  With errors tolerated the promise is not kept (run
`blacklist`).

### Database and Tables

`disk` is what is in the file, `saved` what would be there if the writer were killed and
the journal played back; `writer` and `readers` are the two locks of SQLite 2, which
are on the whole file.  An invocation of speyctl goes from `"parsed"` through its
statements, one action each, to `"ok"`, `"failed"` or `"killed"`.
`cmd_set`, `cmd_trust`, `cmd_recipient` and `cmd_Xlist` share `Delete` and `Insert`, for
they are the same two statements on different tables; a row is counted, because no
key keeps it unique.  `StatementFails` may end the transaction on the spot, as the library
does for some errors, and then the ROLLBACK in the destructor fails too: the process
aborts, which is a failure reported.  A SELECT of spey is asked for again until it gets
the lock (`Get`); any error is taken for an empty value (`GetFails`).

`Tables` has neither locks nor statements: `Apply` is a command as a whole.  The
refinement is from `saved`, so it speaks of what survives a kill.  Only processes are
killed: spey and speyctl set `synchronous=OFF` (`SQL.cc:50`), and what a machine that
crashes leaves of the file is not modelled.  A database that stays busy makes any
statement of speyctl fail (`Busy`), those of a list as well.  `lost` is
the part of the promise that the code does not keep: a setting whose SELECT fails is
empty, which is why `Tables` has a second way to load it.

### Socket

Time is counted in milliseconds from the beginning of a read.  `Read` computes the
deadline in an int (`Int32`), `Poll` and `Timeout` the delay anew at every turn of the loop.
The client sends bytes in the clear and TLS records, the latter perhaps in two parts,
and is not bound to any order.  `pending` is what gnutls has decrypted and not yet handed
out.  Without TLS readline() takes one byte at a time from the kernel, which is what
`ClearStaysOutside` rests on: what a client sent behind STARTTLS in the clear stays in
the kernel until the handshake, and spoils it.

poll() comes back with data or the end of the file (`PollReturns`), at its time
(`PollExpires`), or fails (`PollFails`), which leaves the loop as data does.  A reply is
taken by the kernel or by gnutls (`Reply`) whether or not the client still reads it;
only `ReplyFails` is seen, and only without TLS, where the code of a failure is -1.  So it
is the next read that has to notice that the client has gone.

makesecure() is four actions: `Makesecure` allocates the gnutls session and marks the
socket as secure, `MakesecureThrows` is the key that cannot be read, `Handshake` and
`HandshakeFails` are its end.  `Deinit` is the end of the connection; it frees the gnutls
session (`session`) if the socket is marked.  `shaken` is a history variable: a handshake
was begun.  Which keys and Diffie-Hellman parameters gnutls gets is left out.

### Framing, Base64, Parsing and Wire

Pure functions, written without RECURSIVE operators, and a module that feeds them.  A
character is one of the classes that the code tells apart (CR, LF, a dot, any other); an octet
is a number; a command is a sequence of words and signs of the grammar; a reply is
a sequence of lines with code, fourth character and text.

Of the body every byte is an action: `ReadByte` is a turn of the loop in `readline()`, which
drops a CR and keeps what it has in `line`; `Copy` is the turn that finds the LF, with
the `writeline()` that follows and the test for the dot.  The other kinds are whole
when they have been sent: `Wire` compares what the functions yield with
definitions that are not the code's: base64 by its bits (`Regrouped`), the text to decode by
its digits and the padding that is due (`Padded`), credentials by the positions of
the zeroes, a body by the lines of a strict server.

## 3. Runs

| Run | Instance | Shows |
|---|---|---|
| `intolerant` | 1 sender, the probe and a bad one; every setting has intolerant and TLS, any AUTH mode | `NoRefusedBody`, `VerdictForThisSender`, `ExemptionBacked`, `TlsStartsAfresh`, `GateKept` (refinement of `Gatekeeper`) |
| `tolerant` | settings that switch between tolerant with proxy AUTH and intolerant with internal AUTH | `RefusalPendingOrTold`, `RefusalCodeStands` |
| `greylist` | 2 callers, 1 triple, quarantine 1, expiries 2 and 3, time 0..5, both modes | `QuarantineServed`, `RetryGetsThrough`, `OneRowPerTriple` |
| `threads` | 3 connections, one on TLS, 2 waits each, both modes | `LockDiscipline`, `NoConnectionForgotten`, `ServiceKept` (refinement, with liveness), `ServerReturns` |
| `database` | 2 invocations of speyctl with any commands, 1 spey process, 2 settings, 1 prefix, 1 name, 1 user, 1 counter with a row and 1 without | `NoDuplicates`, `TablesKept` (refinement of `Tables`, with liveness), `SpeyGoesOn` |
| `socket` | timeouts 0, 2, 4 and 9 seconds of 2 milliseconds, an int that ends at 7, poll() up to 1 millisecond late, 4 units from the client | `TimeoutNotEarly`, `ReadEnds`, `ClearStaysOutside`, `TlsTornDown`, `GoneClientEnds` |
| `wire` | bodies up to 8 bytes, 5 octets, 8 characters of base64, commands of 7 words and signs, replies of 3 lines | `EndAgreed`, `BodyArrives`, `EncodedAsDefined`, `DecodedAsDefined`, `CredentialsArrive`, `CommandHandedOn`, `RepliesInStep` |
| `blacklist`, `proxyauth` | as the session runs | the manual's statement is refuted |
| `silence`, `inetd` | 2 connections | the manual's statement is refuted |
| `timeout0` | as `socket`, with timeout 0 | the manual's statement is refuted |

Each passing run but `tolerant` (the same module as `intolerant`) also checks its module's type invariant.
Every property has a mutant of a modelled definition that breaks it; the mutants stand
in the modules before the definitions they replace, each commented as a slip.

Bounds.  *Session*: one sender besides the empty one is enough to make the sender
of a verdict differ from that of the envelope, and `MaxRecipients` lets a refused
and an accepted recipient be in one envelope.  *Greylist*: the quarantine is shorter than
the expiries, as in the defaults, and `MaxTime` leaves room for a first attempt, a
refused and an accepted retry and a purge after either expiry; triples do
not interact, so one is enough.  `MaxSeen` bounds the count; beyond 1 it only matters
that it exceeds 1.  *Threads*: with three connections one can be running, one queued and
one fresh; `MaxTurns` bounds the waits of a session, which has to end anyway for
the liveness properties (a client may of course talk for ever).  *Database*: two
invocations are enough for one to come between the statements of the other or to be
shut out by it; `MaxRounds` is one reload or one count of spey, and the two settings let a
command come between two SELECTs of a reload.  *Socket*: the four timeouts are none, one
that fits an int, and two whose product overflows, to a negative number and to a
small one.  Four units are STARTTLS, the end of its line, a byte behind it and
a handshake.  *Wire*: a body of 8 bytes has room for two lines with stray CRs around the dot; 5
octets make a whole group and one of each remainder; 8 characters are two
quartets; 7 words and signs are more than the longest command has.

Deadlock is not checked in the runs of `Threadlets`, `Database`, `Socket` and `Wire`, which
really may stop: when all connections are closed, all commands have run, the session has
ended or the bound on what is sent is reached.  The other runs check it.

### Fairness

*Threadlets.*  Weak fairness of the main thread, of the server and of every
session while they hold the lock: a running thread goes on.  Weak fairness of the end of
a wait: poll() has a timeout, connect() gives up in the kernel, and a peer takes
what is written to it or is gone.  Strong fairness of taking the lock, for each thread:
the mutex is free again and again, and everybody who asks is served some time (the
pthread mutex does not promise it, the scheduler provides it).  A client
finishes its handshake, and what a read under the lock waits for, or closes its end,
unless it is in `Stalling`; the run `silence` shows
what happens when it is not so; `Stalling` is of any connections, for a failed poll()
leaves a plain one in the same state.  accept() gets no fairness: no client need come.

*Database.*  Weak fairness of each invocation of speyctl, which has no other place to
stay than a statement; a list ends because somebody reads it.  Weak
fairness of the statements of spey, which are repeated while they are enabled; a statement that
may fail but need not gets none for its failure.  With finitely many invocations the lock is
not taken away for ever.  None for `Start` and `Kill`.

*Socket.*  Weak fairness of the thread and of time.  None of the client: `ReadEnds` is
the timeouts' own work, and `GoneClientEnds` is about a client that has closed its socket, from
where on every wait of spey has an answer.

### What the code does not keep

1. `blacklist`: the error label clears `errorstate` for every error; with
   intolerant off a second DATA passes with the refused recipient (`MessageProcessor.cc:627`).
2. `proxyauth`: 235 in answer to an AUTH that has the credentials with it (an initial
   response) is not taken for success, and a client that is not trusted is checked as
   before (`MessageProcessor.cc:386`).
3. `silence`: a TLS record is waited for without timeout and under the lock (`Socket.cc:175`).
4. `inetd`: the process does not exit (`main_spey.cc:192`).
5. `timeout0`: a timeout of 0 does not disable it but makes a read give up at once (`Socket.cc:161`).

Seen while modelling, without a run of their own:

- `errorstate` outlives RSET, a new MAIL and recipients that pass: the DATA of an envelope
  without any refused recipient may be answered with an earlier refusal (`MessageProcessor.cc:298`).
- A key or certificate that cannot be read leaves the gnutls session and its credentials behind, for
  deinit() frees them only for a socket that is marked as secure (`Socket.cc:303`, `:99`).
- When poll() fails, the read that follows has no timeout (`Socket.cc:168`), nor has a write to a client
  that does not read (`Socket.cc:193`).
- A socket-timeout whose milliseconds do not fit an int puts the deadline into the past, or too
  early (`Socket.cc:152`); `TimeoutNotEarly` is for the others.
- An RBL-listed client goes on to the command loop when intolerant is off
  (`MessageProcessor.cc:111`; doc/spey.8:326 has it rejected).
- A 5xx answer to the body does not end an intolerant session (`MessageProcessor.cc:611`; doc/spey.8:197).
- A time past 2^31-1 is cut to an int (`greylist.cc:74`); `QuarantineServed` is for times before.
- `speyctl trust` refuses /32, although init.sql has such an entry, which it can
  therefore not remove (`main_speyctl.cc:166`; `Refused` in `Database`).
- An address without brackets that has a `>` in it is not handed on unchanged
  (`SMTPCommand.cc:174`; the exception in `CommandHandedOn`).
- The retry hint is rounded down to minutes (`MessageProcessor.cc:323`).

## 4. Proofs

All theorems hold for every value of the constants that satisfies the named
assumptions of the module.

*SmtpSession_proofs.*  `SessionInv` strengthens the four properties that hold under any
settings: nothing is authenticated on a connection that is not open, prompts for
credentials appear on TLS only, and a RCPT that is on its way was passed unchecked, or
refused, on grounds that still stand; without the last, the relayed RCPT could put a
recipient into the envelope after the grounds are gone.  `IntolerantInv`, under the
further assumption that every setting is intolerant, adds that no session outlives
an error it has reported, that no DATA is on its way and no body is copied while
`errorstate` is set, and that for a client whose mail is checked
`_from` is the sender of the open envelope except while a MAIL or a RSET is on its
way; it gives `NoRefusedBody` and `VerdictForThisSender`.  `IntolerantKeepsGate` takes these
invariants to `Gatekeeper`: every action is an action of it, or a stutter, and the
pending MAIL or RCPT supplies the sender and the verdict of its step.

*Greylist_proofs.*  `QuarantineInv`: a triple was first refused no later than any of
its rows, and what a call has selected from them, say; it needs `BeforeOverflow` (times fit an int), the very
assumption without which `atoi()` breaks the property, and holds in both modes.  `DaemonInv`:
in daemon mode at most one call is active, the triple has one row, and a
streak that is alive is backed by a row with the same dates, which no purge may
take.

*Threadlets_proofs.*  `Inv` joins the types, `LockDiscipline`,
`NoConnectionForgotten` and where sessions can be that have not been started; from it
every step is a step of `Service` or none (`ThreadsImplementService`).

*Database_proofs.*  `LockInv`: who is in a transaction has the lock for writing, and
nobody else has it; it makes two transactions exclude each other.  `FileInv` says
what the file may look like: as its journal when nobody writes (`JournalInv`), and
otherwise changed exactly as far as the writer's command has come (`Progress`, with `Deleted` and
`Effect` for the two stages).  `NoDuplicates` is not inductive alone: that a row is
inserted once needs that it was deleted in the same transaction, or that the user
was looked for in it.  From `Inv`, `TablesKeptSafe`: the COMMIT is a step `Apply` of `Tables`,
every other step reports, loads, counts or stutters.  It holds for
any number of invocations and spey processes, any settings and any tables.

*Socket_proofs.*  `DeadlineInv` ties the deadline to the timeout through the whole loop, and
`DelayTellsTheTime` says of the wrapped arithmetic that a negative delay means that the time is
up, whatever the width of an int and the delay of poll().  `TlsInv`: before the
handshake nothing is decrypted, what is decrypted came by TLS, and the line is empty
when the handshake begins; and a socket on which a handshake was begun is marked as secure until it
is closed.  It gives `ClearStaysOutside` and `TlsTornDown`.

*Wire_proofs, Base64_proofs, Data_proofs.*  The properties of `Wire` hold for what is sent
of any length and of any octets, characters and words, with any lengths for bounds.
The assumptions say what the constants stand for: octets, characters of base64 or none,
codes of three digits, and that a command begins with its first word and a blank.

- *The body.*  `EndInv`: what has been written ends with a line end, so that the line
  that comes next neither begins nor ends one that is there already; a line
  appended (`LineAppended`) adds one end and leaves the other lines as they are.  It rests on the type
  of `line`, in which no CR or LF ever is.  `BodyInv` is about every moment, a CR that waits for its LF
  included, where `BodyArrives` alone says nothing (`ProperSoFar`, `Kept`).
- *Replies.*  The line at which `ReadResponse` stops is the first without a hyphen,
  and `ShowResponse` has as many.
- *Commands.*  `CommandReread` has a case for each shape in which a command is written:
  where its words end and the next begin (`WordReread`), for words and addresses of any length.
- *Base64.*  `GroupBits`: the 24 bits of three octets are those of four digits, by the arithmetic
  of both directions (`SixesOf`, `EightsOf`).  `EncodedBits` and `DecodedBits` take it to sequences, with the
  last group that is not full; `RoundTrip` says that decoding undoes encoding, and from it
  the fields of `auth_plain()` follow by the places of the two zeroes.

The encoder flattens a sequence of groups and the decoder calls itself for the next quartet, so
these are proofs by induction over data.  The induction theorems of the library cannot be used
here, because they take an operator; `Induction` in `Data_proofs` says the same of a
*set* of numbers and follows from the well-foundedness of `<`.  That the recursive
functions exist at all, for every length, is proved with it (`FlattenDef`, `DecodeFromDef`, the
latter from the end of the text backwards).

Only model-checked: all liveness (`ServerReturns`, `SpeyGoesOn`, `ReadEnds`, `GoneClientEnds`, the
fairness parts of `ServiceKept` and `TablesKept`), which is beyond the prover; and what the
violation runs refute.  Every other property of a passing run has its theorem.

## 5. Not modelled, and the plan

Not modelled: option parsing, logging, the formatting of addresses, privilege
dropping, the version and exception classes, the build system (pure I/O or no
state).  Of TLS which keys are used; of SQLite the file format and its own retries.
`PROJECT.json` lists each part with its reason.

The parts are not put together into one instance: two sessions with a greylister and
a database each statement of which is an action are beyond what TLC can
enumerate, and each module already lets its environment do all that the others do.
The seams are the refinements: `Gatekeeper` for whoever uses a session's verdicts,
`Service` for whoever connects, `Tables` for whoever reads the settings.

Next:

1. A greylister that uses `Tables`' lists and a session that uses the
   greylister's triples, at the level of the abstract specifications.
2. The theorem that a greylisted client which retries gets its mail through,
   from `RetryGetsThrough` and `Gatekeeper`.
