------------------------------ MODULE Database ------------------------------
(***************************************************************************)
(* speyctl and spey on the database they share.  An invocation of speyctl  *)
(* is a process that carries out one command and ends; any number of them  *)
(* and of spey processes (one as a daemon, one for each connection under   *)
(* inetd) run at the same time, and speyctl may be killed at any point.    *)
(*                                                                         *)
(* The tables are protected by the lock of SQLite 2 on the whole file:     *)
(* BEGIN takes it for writing, a SELECT for reading until it is finalised. *)
(* A statement of exec() that does not get it within a second fails, one   *)
(* of SQLQuery::step() is repeated until it does.  What a transaction has  *)
(* changed is in the file; the journal has what was there before, and is   *)
(* played back on ROLLBACK and when a process was killed.  A crash of the  *)
(* machine is left out: with PRAGMA synchronous=OFF neither file nor       *)
(* journal need be on the disk then, and nothing is promised.              *)
(*                                                                         *)
(* purge and the greylister's own statements are in module Greylist.       *)
(***************************************************************************)
EXTENDS Integers

CONSTANTS
  Ctl,              \* invocations of speyctl
  Spey,             \* processes of spey
  Nobody,           \* nobody has the lock for writing
  NumKeys,          \* the settings, in the order in which they are loaded
  Preset, Default,  \* those that init sets, and to what
  Values, Unset,    \* their values; getstring() is "" without a row
  Sizes,            \* prefix lengths: a trusted network of each
  Names,            \* rows of validrecipients, whitelist and blacklist
  Users,
  Counter, Missing, \* counters; those without a row in table statistics
  MaxRounds         \* bound: what a spey process does

ASSUME ProcessAssumption ==
  Ctl \cap Spey = {} /\ Nobody \notin Ctl \cup Spey
ASSUME ValueAssumption ==
  /\ NumKeys \in Nat \ {0} /\ MaxRounds \in Nat
  /\ Preset \subseteq 1 .. NumKeys /\ Default \in Values /\ Unset \notin Values
ASSUME RowAssumption == 32 \in Sizes /\ Sizes \subseteq 0 .. 32 /\ Sizes \cap Names = {}
ASSUME CounterAssumption == Missing \cap Counter = {} /\ Nobody \notin Missing \cup Counter

Key == 1 .. NumKeys
Row == Sizes \cup Names
Loopback == 32   \* the row 127.0.0.1/32 of the initial table

(* The command lines: set, with or without a value; add and sub of trust,  *)
(* recipient, whitelist and blacklist; user, with or without a password;   *)
(* init, statsreset, the commands that list a table, and what main_speyctl *)
(* does not accept (unknown, too many words, no key, syntax).              *)
Command ==
  [verb : {"set"}, key : Key, value : Values \cup {Unset}]
  \cup [verb : {"add", "sub"}, row : Row]
  \cup [verb : {"user add", "user sub"}, user : Users, password : BOOLEAN]
  \cup [verb : {"init", "statsreset", "list", "mistaken"}]

None == [verb |-> "mistaken"]

VARIABLES
  disk,      \* the database file, see Content
  saved,     \* what a kill would leave of it, the journal played back
  writer,    \* who is in a transaction, or Nobody
  readers,   \* who has a SELECT open
  pc,        \* where every invocation of speyctl is
  cmd,       \* its command, while it runs
  reading,   \* the key that a spey process is about to load, 0 for none
  counting,  \* the counter that it is about to raise, or Nobody
  loaded,    \* the settings it has loaded
  lost,      \* history: those it could not load
  rounds     \* what it has done

file == <<disk, saved, writer, readers>>
ctl == <<pc, cmd>>
spey == <<reading, counting, loaded, lost, rounds>>
vars == <<disk, saved, writer, readers, pc, cmd, reading, counting, loaded,
          lost, rounds>>

Blank == [schema |-> "absent", settings |-> [k \in Key |-> Unset],
          rows |-> [r \in Row |-> 0], users |-> [u \in Users |-> 0],
          stats |-> [n \in Counter |-> 0]]

FirstSettings == [k \in Key |-> IF k \in Preset THEN Default ELSE Unset]
Fresh == [schema |-> "present", settings |-> FirstSettings,
          rows |-> [r \in Row |-> IF r = Loopback THEN 1 ELSE 0],
          users |-> [u \in Users |-> 0], stats |-> [n \in Counter |-> 0]]

Init ==
  /\ disk \in {Blank, Fresh}
  /\ saved = disk /\ writer = Nobody /\ readers = {}
  /\ pc = [p \in Ctl |-> "idle"]
  /\ cmd = [p \in Ctl |-> None]
  /\ reading = [s \in Spey |-> 0] /\ counting = [s \in Spey |-> Nobody]
  /\ loaded = [s \in Spey |-> [k \in Key |-> Unset]]
  /\ lost = {}
  /\ rounds = [s \in Spey |-> 0]

Go(p, here, there) == pc[p] = here /\ pc' = [pc EXCEPT ![p] = there]
End(p, here, there) == Go(p, here, there) /\ cmd' = [cmd EXCEPT ![p] = None]
MayRead == writer = Nobody
MayWrite == writer = Nobody /\ readers = {}

-----------------------------------------------------------------------------
(* main_speyctl: the command line is taken apart.                          *)
Start(p, c) ==
  /\ Go(p, "idle", "parsed")
  /\ cmd' = [cmd EXCEPT ![p] = c]
  /\ UNCHANGED <<file, spey>>

(* cmd_trust accepts no prefix longer than 31.                             *)
Refused(c) ==
  \/ c.verb = "mistaken"
  \/ c.verb \in {"add", "sub"} /\ c.row \in Sizes /\ c.row > 31

Refuse(p) ==
  /\ Refused(cmd[p]) /\ End(p, "parsed", "failed")
  /\ UNCHANGED <<file, spey>>

Changes(c) == ~Refused(c) /\ c.verb # "list"

(* A slip: no transaction around the statements.                           *)
BeginUnlocked(p) ==
  /\ Changes(cmd[p]) /\ MayWrite /\ Go(p, "parsed", "begun")
  /\ UNCHANGED <<file, cmd, spey>>

(* SQLCommitLock, or the BEGIN of a script.                                *)
Begin(p) ==
  /\ Changes(cmd[p]) /\ MayWrite /\ Go(p, "parsed", "begun")
  /\ writer' = p
  /\ UNCHANGED <<disk, saved, readers, cmd, spey>>

(* The lock is not to be had for a second: a list meets that when it opens *)
(* the file or compiles its SELECT.                                        *)
Busy(p) ==
  /\ \/ Changes(cmd[p]) /\ ~MayWrite
     \/ cmd[p].verb = "list" /\ ~MayRead
  /\ End(p, "parsed", "failed")
  /\ UNCHANGED <<file, spey>>

Change(p, new) ==
  /\ disk' = new
  /\ UNCHANGED <<saved, writer, readers, cmd, spey>>

(* The statements of cmd_set, cmd_trust, cmd_recipient and cmd_Xlist.      *)
Delete(p) ==
  /\ disk.schema = "present" /\ Go(p, "begun", "deleted")
  /\ \/ /\ cmd[p].verb = "set"
        /\ Change(p, [disk EXCEPT !.settings[cmd[p].key] = Unset])
     \/ /\ cmd[p].verb \in {"add", "sub"}
        /\ Change(p, [disk EXCEPT !.rows[cmd[p].row] = 0])

(* A value of the empty string is not inserted, nor is what "sub" removes. *)
Inserts(c) == c.verb = "add" \/ (c.verb = "set" /\ c.value # Unset)

Insert(p) ==
  /\ Inserts(cmd[p]) /\ Go(p, "deleted", "changed")
  /\ \/ /\ cmd[p].verb = "set"
        /\ Change(p, [disk EXCEPT !.settings[cmd[p].key] = cmd[p].value])
     \/ /\ cmd[p].verb = "add"
        /\ Change(p, [disk EXCEPT !.rows[cmd[p].row] = @ + 1])

(* cmd_user looks for the user first.  The rest of its checks are inside   *)
(* the transaction: a password to add with, none to remove with.           *)
Exists(c) == disk.users[c.user] # 0
UserAccepted(c) ==
  \/ c.verb = "user add" /\ c.password /\ ~Exists(c)
  \/ c.verb = "user sub" /\ ~c.password /\ Exists(c)

CheckUser(p) ==
  /\ disk.schema = "present" /\ cmd[p].verb \in {"user add", "user sub"}
  /\ \/ UserAccepted(cmd[p]) /\ Go(p, "begun", "checked")
     \/ ~UserAccepted(cmd[p]) /\ Go(p, "begun", "failing")
  /\ UNCHANGED <<file, cmd, spey>>

ChangeUser(p) ==
  /\ Go(p, "checked", "changed")
  /\ \/ /\ cmd[p].verb = "user add"
        /\ Change(p, [disk EXCEPT !.users[cmd[p].user] = @ + 1])
     \/ /\ cmd[p].verb = "user sub"
        /\ Change(p, [disk EXCEPT !.users[cmd[p].user] = 0])

(* The scripts init.sql and statsreset.sql.                                *)
Script(p) ==
  /\ Go(p, "begun", "changed")
  /\ \/ cmd[p].verb = "init" /\ disk.schema = "absent" /\ Change(p, Fresh)
     \/ /\ cmd[p].verb = "statsreset" /\ disk.schema = "present"
        /\ Change(p, [disk EXCEPT !.stats = [n \in Counter |-> 0]])

(* A statement fails: a table is missing, or there already, the disk is    *)
(* full.  For some errors the library ends the transaction at once.        *)
StatementFails(p) ==
  /\ pc[p] \in {"begun", "deleted", "checked", "changed"}
  /\ pc' = [pc EXCEPT ![p] = "failing"]
  /\ \/ UNCHANGED <<disk, writer>>
     \/ disk' = saved /\ writer' = Nobody
  /\ UNCHANGED <<saved, readers, cmd, spey>>

(* The destructor of SQLCommitLock, or SQL::close.  Without a transaction  *)
(* ROLLBACK fails in its turn, and the process aborts.                     *)
Rollback(p) ==
  /\ End(p, "failing", "failed")
  /\ IF writer = p THEN disk' = saved /\ writer' = Nobody
     ELSE UNCHANGED <<disk, writer>>
  /\ UNCHANGED <<saved, readers, spey>>

(* A slip: commit() is not called, and the destructor rolls back.          *)
CommitForgotten(p) ==
  /\ \/ Go(p, "changed", "committed")
     \/ ~Inserts(cmd[p]) /\ Go(p, "deleted", "committed")
  /\ disk' = saved /\ writer' = Nobody
  /\ UNCHANGED <<saved, readers, cmd, spey>>

Commit(p) ==
  /\ \/ Go(p, "changed", "committed")
     \/ ~Inserts(cmd[p]) /\ Go(p, "deleted", "committed")
  /\ saved' = disk /\ writer' = Nobody
  /\ UNCHANGED <<disk, readers, cmd, spey>>

Exit(p) ==
  /\ End(p, "committed", "ok")
  /\ UNCHANGED <<file, spey>>

(* The commands that list a table print row by row, the SELECT open.       *)
List(p) ==
  /\ cmd[p].verb = "list" /\ MayRead /\ Go(p, "parsed", "listing")
  /\ readers' = readers \cup {p}
  /\ UNCHANGED <<disk, saved, writer, cmd, spey>>

ListEnds(p, end) ==
  /\ disk.schema = "present" \/ end = "failed"
  /\ End(p, "listing", end)
  /\ readers' = readers \ {p}
  /\ UNCHANGED <<disk, saved, writer, spey>>

(* The process is killed: its locks are gone, and whoever opens the file   *)
(* next plays the journal back.                                            *)
Kill(p) ==
  /\ pc[p] \notin {"idle", "ok", "failed", "killed"}
  /\ End(p, pc[p], "killed")
  /\ IF writer = p THEN disk' = saved /\ writer' = Nobody
     ELSE UNCHANGED <<disk, writer>>
  /\ readers' = readers \ {p}
  /\ UNCHANGED <<saved, spey>>

-----------------------------------------------------------------------------
(* spey, under its CPU lock.                                               *)
Free(s) == reading[s] = 0 /\ counting[s] = Nobody

Reload(s) ==
  /\ Free(s) /\ rounds[s] < MaxRounds
  /\ reading' = [reading EXCEPT ![s] = 1]
  /\ rounds' = [rounds EXCEPT ![s] = @ + 1]
  /\ UNCHANGED <<file, ctl, counting, loaded, lost>>

(* A slip: the count of the keys is off by one.                            *)
LoadedBeyond(s, value) ==
  /\ loaded' = [loaded EXCEPT ![s][reading[s]] = value]
  /\ reading' = [reading EXCEPT ![s] = (@ + 1) % (NumKeys + 2)]
  /\ UNCHANGED <<file, ctl, counting, rounds>>

Loaded(s, value) ==
  /\ loaded' = [loaded EXCEPT ![s][reading[s]] = value]
  /\ reading' = [reading EXCEPT ![s] = (@ + 1) % (NumKeys + 1)]
  /\ UNCHANGED <<file, ctl, counting, rounds>>

(* A slip: step() goes on when it has a row.                               *)
GetAgain(s) ==
  /\ reading[s] # 0 /\ MayRead /\ disk.schema = "present"
  /\ lost' = lost \ {<<s, reading[s]>>}
  /\ UNCHANGED <<file, ctl, reading, counting, loaded, rounds>>

(* Settings::get: one SELECT for each key.                                 *)
Get(s) ==
  /\ reading[s] # 0 /\ MayRead /\ disk.schema = "present"
  /\ Loaded(s, disk.settings[reading[s]])
  /\ lost' = lost \ {<<s, reading[s]>>}

(* An error of the database is taken for an empty value.                   *)
GetFails(s) ==
  /\ reading[s] # 0
  /\ Loaded(s, Unset)
  /\ lost' = lost \cup {<<s, reading[s]>>}

Counts(s, n) ==
  /\ Free(s) /\ rounds[s] < MaxRounds
  /\ counting' = [counting EXCEPT ![s] = n]
  /\ rounds' = [rounds EXCEPT ![s] = @ + 1]
  /\ UNCHANGED <<file, ctl, reading, loaded, lost>>

(* Statistics::count, one UPDATE; init.sql has no row for some counters.   *)
Raise(s) ==
  /\ counting[s] # Nobody /\ MayWrite /\ disk.schema = "present"
  /\ counting' = [counting EXCEPT ![s] = Nobody]
  /\ disk' = IF counting[s] \in Counter
             THEN [disk EXCEPT !.stats[counting[s]] = @ + 1] ELSE disk
  /\ saved' = disk'
  /\ UNCHANGED <<writer, readers, ctl, reading, loaded, lost, rounds>>

RaiseFails(s) ==
  /\ counting[s] # Nobody
  /\ counting' = [counting EXCEPT ![s] = Nobody]
  /\ UNCHANGED <<file, ctl, reading, loaded, lost, rounds>>

-----------------------------------------------------------------------------
Invocation(p) ==
  \/ Refuse(p) \/ Begin(p) \/ Busy(p)
  \/ Delete(p) \/ Insert(p) \/ CheckUser(p) \/ ChangeUser(p) \/ Script(p)
  \/ Commit(p) \/ StatementFails(p) \/ Rollback(p) \/ Exit(p)
  \/ List(p) \/ ListEnds(p, "ok") \/ ListEnds(p, "failed")

Process(s) == Get(s) \/ GetFails(s) \/ Raise(s) \/ RaiseFails(s)

Next ==
  \/ \E p \in Ctl :
       (\E c \in Command : Start(p, c)) \/ Invocation(p) \/ Kill(p)
  \/ \E s \in Spey :
       Reload(s) \/ (\E n \in Counter \cup Missing : Counts(s, n)) \/ Process(s)

(* A process that can go on does.  A statement that waits for the lock is  *)
(* asked for again and again; a list ends because somebody reads it.  With *)
(* finitely many invocations weak fairness is enough.                      *)
Fairness ==
  /\ \A p \in Ctl : WF_vars(Invocation(p))
  /\ \A s \in Spey : WF_vars(Get(s) \/ Raise(s)
                              \/ (disk.schema = "absent" /\ (GetFails(s) \/ RaiseFails(s))))

Spec == Init /\ [][Next]_vars /\ Fairness

-----------------------------------------------------------------------------
Content == [schema : {"absent", "present"}, settings : [Key -> Values \cup {Unset}],
            rows : [Row -> Nat], users : [Users -> Nat], stats : [Counter -> Nat]]

(* Types of the variables.                                                 *)
TypeOK ==
  /\ disk \in Content /\ saved \in Content
  /\ writer \in Ctl \cup {Nobody} /\ readers \subseteq Ctl
  /\ pc \in [Ctl -> {"idle", "parsed", "begun", "deleted", "checked", "changed",
                     "failing", "committed", "listing", "ok", "failed", "killed"}]
  /\ cmd \in [Ctl -> Command]
  /\ reading \in [Spey -> 0 .. NumKeys]
  /\ counting \in [Spey -> Counter \cup Missing \cup {Nobody}]
  /\ loaded \in [Spey -> [Key -> Values \cup {Unset}]]
  /\ lost \subseteq Spey \X Key
  /\ rounds \in [Spey -> 0 .. MaxRounds]

(* No table has a row twice, whatever is added at the same time: the       *)
(* settings and the statistics have a key that the database keeps unique,  *)
(* the rest is up to the transactions.  A row that is there twice would    *)
(* survive no "sub", but a user would have two passwords.                  *)
NoDuplicates ==
  /\ \A r \in Row : saved.rows[r] <= 1
  /\ \A u \in Users : saved.users[u] <= 1

Outcome(p) ==
  CASE pc[p] \in {"idle", "ok", "failed", "killed"} -> pc[p]
    [] pc[p] = "committed" -> "applied"
    [] OTHER -> "running"

(* Commands are atomic, end, and tell the truth, and what spey loads has   *)
(* been committed: under kills, failures and any number of processes what  *)
(* is safe from a kill goes the way of Tables.                             *)
Promise == INSTANCE Tables WITH
  schema <- saved.schema, settings <- saved.settings,
  rows <- {r \in Row : saved.rows[r] > 0},
  users <- {u \in Users : saved.users[u] > 0},
  stats <- saved.stats,
  status <- [p \in Ctl |-> Outcome(p)],
  FirstRows <- {Loopback}
TablesKept == Promise!Spec

(* Whatever speyctl does, spey gets through its statements: the lock for   *)
(* which it asks in a loop is free again at some time.                     *)
SpeyGoesOn == \A s \in Spey : ~Free(s) ~> Free(s)
=============================================================================
