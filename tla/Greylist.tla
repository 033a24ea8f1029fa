------------------------------ MODULE Greylist ------------------------------
(***************************************************************************)
(* The greylister, greylist(), on the tables it shares with speyctl: the   *)
(* triples (sender network, sender address, recipient) it has seen, the    *)
(* whitelist and the blacklist.  A triple is refused until more than the   *)
(* quarantine time has passed since its first attempt; speyctl purge       *)
(* forgets the triples that have not been seen for long.                   *)
(*                                                                         *)
(* An attempt is four SQL statements, each atomic, with no transaction     *)
(* around them.  In daemon mode the caller holds the CPU lock throughout,  *)
(* so that only speyctl, a process of its own, comes in between.  In inetd *)
(* mode every connection is a process of its own and attempts interleave.  *)
(*                                                                         *)
(* Time is in seconds.  It advances between any two statements: one that   *)
(* finds the database locked is repeated until it is not.                  *)
(***************************************************************************)
EXTENDS Integers

CONSTANTS
  Workers,         \* threads or processes that call greylist()
  Triples,         \* the triples that clients try
  Modes,           \* TRUE for daemon mode, FALSE for inetd mode
  Quarantine,      \* quarantine-time
  InvalidExpiry,   \* invalid-expiry: for triples counted once
  ValidExpiry,     \* valid-expiry: for triples counted more often
  IntMax,          \* the largest int, 2^31 - 1
  Epoch,           \* the time at which the run starts
  MaxTime,         \* bound: the time at which it ends
  MaxSeen          \* bound: attempts counted for a triple

ASSUME SettingAssumption ==
  /\ Quarantine \in Nat /\ InvalidExpiry \in Nat /\ ValidExpiry \in Nat
  /\ InvalidExpiry <= ValidExpiry
ASSUME TimeAssumption ==
  Epoch \in Nat /\ MaxTime \in Nat /\ Epoch <= MaxTime /\ IntMax \in Nat
ASSUME ModeAssumption == Modes \subseteq BOOLEAN /\ Triples # {}
ASSUME MaxSeenAssumption == MaxSeen \in Nat \ {0}

VARIABLES
  now,           \* the clock
  daemon,        \* daemon mode or inetd mode, see Modes
  triples,       \* table triples
  whitelist,     \* the triples that the patterns in whitelist match
  blacklist,     \* the triples that the patterns in blacklist match
  w,             \* the workers, see Worker
  earned,        \* history: the workers whose client has earned acceptance
  firstRefused,  \* history: start of the first refused attempt of a triple
  streak         \* history: the attempts of a triple, see Streak

vars == <<now, daemon, triples, whitelist, blacklist, w, earned,
          firstRefused, streak>>

Time == Epoch .. MaxTime
Never == MaxTime + 1

(* A row.  The id is left out: rows of a triple with the same values are   *)
(* treated alike for ever, and SQL does not say which is found first.      *)
Row == [triple : Triples, timesseen : 1 .. MaxSeen,
        firstseen : Time, lastseen : Time]

(* A call of greylist(): the statement it is at; the time it read when it  *)
(* started (lastseen), what it selected, and its verdict.                  *)
Worker == [pc : {"idle", "black", "select", "update", "insert", "listed", "answered"},
           triple : Triples, start : Time, firstseen : Int, timesseen : 1 .. MaxSeen,
           verdict : {"Accepted", "GreyListed", "BlackListed"}]

IdleWorker == [pc |-> "idle", triple |-> CHOOSE t \in Triples : TRUE,
               start |-> Epoch, firstseen |-> 0, timesseen |-> 1,
               verdict |-> "GreyListed"]

(* The attempts of a triple that followed each other fast enough for its   *)
(* row never to expire: when the first and the last of them started and    *)
(* for how long the triple is safe from speyctl purge after the last.      *)
Streak == [first : Epoch .. Never, last : Epoch .. Never,
           safe : {InvalidExpiry, ValidExpiry}]
NoStreak == [first |-> Never, last |-> Never, safe |-> InvalidExpiry]

Earlier(a, b) == IF a < b THEN a ELSE b
Matching(t) == {r \in triples : r.triple = t}
Alive(t) == streak[t].last # Never /\ now - streak[t].last <= streak[t].safe

Init ==
  /\ now = Epoch
  /\ daemon \in Modes
  /\ triples = {} /\ whitelist = {} /\ blacklist = {}
  /\ w = [p \in Workers |-> IdleWorker]
  /\ earned = {}
  /\ firstRefused = [t \in Triples |-> Never]
  /\ streak = [t \in Triples |-> NoStreak]

lists == <<daemon, whitelist, blacklist>>
history == <<earned, firstRefused, streak>>

-----------------------------------------------------------------------------
(* The worker goes on with the given changes to its locals.                *)
Step(p, worker) ==
  /\ w' = [w EXCEPT ![p] = worker]
  /\ UNCHANGED <<now, lists>>

Looked(p, t) ==
  /\ IF t \in whitelist
     THEN Step(p, [w[p] EXCEPT !.pc = "listed", !.triple = t, !.start = now,
                                !.verdict = "Accepted"])
     ELSE Step(p, [w[p] EXCEPT !.pc = "black", !.triple = t, !.start = now])
  /\ UNCHANGED <<triples, history>>

(* A slip: the CPU lock is not held across the statements.                 *)
CheckWhitelistUnlocked(p, t) ==
  /\ w[p].pc = "idle"
  /\ Looked(p, t)

(* The time is read once, before anything else.  In daemon mode the call   *)
(* and the handling of its result are under the CPU lock.                  *)
CheckWhitelist(p, t) ==
  /\ w[p].pc = "idle"
  /\ daemon => \A q \in Workers : w[q].pc = "idle"
  /\ Looked(p, t)

CheckBlacklist(p) ==
  /\ w[p].pc = "black"
  /\ IF w[p].triple \in blacklist
     THEN Step(p, [w[p] EXCEPT !.pc = "listed", !.verdict = "BlackListed"])
     ELSE Step(p, [w[p] EXCEPT !.pc = "select"])
  /\ UNCHANGED <<triples, history>>

(* getint() is atoi(): a value that does not fit is cut to an int.         *)
GetInt(n) == IF n <= IntMax THEN n
             ELSE ((n + IntMax + 1) % (2 * IntMax + 2)) - IntMax - 1

(* A client has earned acceptance when its triple is known and its first   *)
(* attempt is longer ago than the quarantine.                              *)
Note(p) ==
  LET t == w[p].triple
  IN /\ earned' = IF Alive(t) /\ w[p].start - streak[t].first > Quarantine
                  THEN earned \cup {p} ELSE earned \ {p}
     /\ UNCHANGED <<firstRefused, streak>>

(* The query has no ORDER BY: any row of the triple may come first.        *)
SelectFound(p, r) ==
  /\ w[p].pc = "select" /\ r.triple = w[p].triple
  /\ r.timesseen < MaxSeen
  /\ Step(p, [w[p] EXCEPT !.pc = "update",
                !.firstseen = GetInt(r.firstseen), !.timesseen = r.timesseen])
  /\ Note(p)
  /\ UNCHANGED triples

SelectNone(p) ==
  /\ w[p].pc = "select" /\ Matching(w[p].triple) = {}
  /\ Step(p, [w[p] EXCEPT !.pc = "insert"])
  /\ Note(p)
  /\ UNCHANGED triples

Answer(p, verdict) ==
  Step(p, [w[p] EXCEPT !.pc = "answered", !.verdict = verdict])

(* The attempt joins the streak, unless the row may have been purged.      *)
Extend(p, expiry) ==
  LET t == w[p].triple
  IN /\ streak' = [streak EXCEPT ![t] =
          IF Alive(t) THEN [first |-> streak[t].first, last |-> w[p].start,
                            safe |-> expiry]
          ELSE NoStreak]
     /\ UNCHANGED earned

Refuse(p) ==
  /\ Answer(p, "GreyListed")
  /\ firstRefused' = [firstRefused EXCEPT ![w[p].triple] = Earlier(@, w[p].start)]

(* UPDATE touches every row of the triple, or none.                        *)
UpdateRows(p, count, time) ==
  triples' = {r \in triples : r.triple # w[p].triple}
     \cup {[r EXCEPT !.timesseen = count, !.lastseen = time] : r \in Matching(w[p].triple)}

Accept(p) ==
  /\ UpdateRows(p, w[p].timesseen + 1, w[p].start)
  /\ Answer(p, "Accepted")
  /\ Extend(p, ValidExpiry)
  /\ UNCHANGED firstRefused

(* A refused attempt is not counted, but it is seen.                       *)
RefuseAgain(p) ==
  /\ UpdateRows(p, w[p].timesseen, w[p].start)
  /\ Refuse(p)
  /\ Extend(p, streak[w[p].triple].safe)

(* A slip: one second too early.                                           *)
UpdateTooEarly(p) ==
  /\ w[p].pc = "update"
  /\ IF w[p].start - w[p].firstseen >= Quarantine THEN Accept(p) ELSE RefuseAgain(p)

(* Both the count and the verdict come from what was selected.             *)
Update(p) ==
  /\ w[p].pc = "update"
  /\ IF w[p].start - w[p].firstseen > Quarantine THEN Accept(p) ELSE RefuseAgain(p)

NewRow(p, count) == [triple |-> w[p].triple, timesseen |-> count,
                     firstseen |-> w[p].start, lastseen |-> w[p].start]

InsertRow(p, count) ==
  /\ w[p].pc = "insert"
  /\ triples' = triples \cup {NewRow(p, count)}
  /\ Refuse(p)
  /\ streak' = [streak EXCEPT ![w[p].triple] =
       [first |-> w[p].start, last |-> w[p].start, safe |-> InvalidExpiry]]
  /\ UNCHANGED earned

(* A slip: the first attempt is not counted.                               *)
InsertUncounted(p) == InsertRow(p, 0)

(* Nothing selected: the first attempt of a triple is refused.             *)
Insert(p) == InsertRow(p, 1)

Finish(p) ==
  /\ Step(p, IdleWorker)
  /\ earned' = earned \ {p}
  /\ UNCHANGED <<triples, firstRefused, streak>>

Return(p) == w[p].pc \in {"listed", "answered"} /\ Finish(p)

(* A statement fails; the exception ends the session.                      *)
Abort(p) == w[p].pc \notin {"idle", "listed", "answered"} /\ Finish(p)

-----------------------------------------------------------------------------
(* speyctl purge: both statements are in one transaction.                  *)
Expired(r) == r.lastseen < now - IF r.timesseen > 1 THEN ValidExpiry ELSE InvalidExpiry

(* A slip: what was accepted is purged like the rest.                      *)
PurgeAll ==
  /\ triples' = {r \in triples : r.lastseen >= now - InvalidExpiry}
  /\ UNCHANGED <<now, lists, w, history>>

Purge ==
  /\ triples' = {r \in triples : ~Expired(r)}
  /\ UNCHANGED <<now, lists, w, history>>

(* speyctl whitelist and speyctl blacklist, add and sub.                   *)
EditLists ==
  /\ whitelist' \in SUBSET Triples /\ blacklist' \in SUBSET Triples
  /\ UNCHANGED <<now, daemon, triples, w, history>>

Tick ==
  /\ now < MaxTime
  /\ now' = now + 1
  /\ UNCHANGED <<lists, triples, w, history>>

Attempt(p) ==
  \/ \E t \in Triples : CheckWhitelist(p, t)
  \/ CheckBlacklist(p)
  \/ \E r \in triples : SelectFound(p, r)
  \/ SelectNone(p)
  \/ Update(p) \/ Insert(p)
  \/ Return(p) \/ Abort(p)

Next ==
  \/ \E p \in Workers : Attempt(p)
  \/ Purge \/ EditLists \/ Tick

Spec == Init /\ [][Next]_vars

-----------------------------------------------------------------------------
(* Types of the variables.                                                 *)
TypeOK ==
  /\ now \in Time
  /\ daemon \in BOOLEAN
  /\ triples \subseteq Row
  /\ whitelist \subseteq Triples /\ blacklist \subseteq Triples
  /\ w \in [Workers -> Worker]
  /\ earned \subseteq Workers
  /\ firstRefused \in [Triples -> Epoch .. Never]
  /\ streak \in [Triples -> Streak]

(* "The delay between a message arriving and spey marking that particular  *)
(* tuple as valid": the greylister itself accepts nothing that it has not  *)
(* refused more than the quarantine time before, in either mode.           *)
QuarantineServed ==
  \A p \in Workers : w[p].pc = "answered" /\ w[p].verdict = "Accepted"
    => w[p].start - firstRefused[w[p].triple] > Quarantine

(* A client that comes back often enough is accepted once the quarantine   *)
(* is over, and stays accepted: no interleaving with speyctl, aborted      *)
(* attempt or refused retry sends it back to the start.  Often enough is   *)
(* within invalid-expiry while the triple has not been accepted yet and    *)
(* within valid-expiry after that.  In daemon mode only: two processes may *)
(* lose each other's updates.                                              *)
RetryGetsThrough ==
  daemon => \A p \in earned : w[p].pc = "answered" => w[p].verdict = "Accepted"

(* In daemon mode the table holds one row for a triple: nothing in the     *)
(* schema says so, it rests on the lock between the SELECT and the INSERT. *)
OneRowPerTriple ==
  daemon => \A r1, r2 \in triples : r1.triple = r2.triple => r1 = r2
=============================================================================
