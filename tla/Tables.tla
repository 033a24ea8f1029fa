------------------------------- MODULE Tables -------------------------------
(* What speyctl and the database promise: a command takes effect at once   *)
(* and as a whole, or not at all, and reports success only if it did; a    *)
(* user is never added twice nor a missing one removed.  Whoever loads a   *)
(* setting gets what the commands have left, or nothing when the database  *)
(* fails, and then it counts as lost.  Every command ends.                 *)
EXTENDS Integers

CONSTANTS
  Ctl, Command,      \* invocations of speyctl; what they are told to do
  Spey, Key, Counter, Unset,
  FirstSettings, FirstRows   \* what init puts into the tables
VARIABLES
  schema,    \* whether the tables exist
  settings,  \* the value of every key
  rows,      \* the rows of the control tables
  users,     \* the users that exist
  stats,     \* the counters
  cmd,       \* the command of every invocation
  status,    \* what has become of it
  loaded,    \* the settings as every process of spey knows them
  lost       \* those of them that the database did not give away

vars == <<schema, settings, rows, users, stats, cmd, status, loaded, lost>>

Init ==
  /\ schema \in {"absent", "present"}
  /\ settings = [k \in Key |-> IF schema = "present" THEN FirstSettings[k] ELSE Unset]
  /\ rows = IF schema = "present" THEN FirstRows ELSE {}
  /\ users = {}
  /\ stats = [n \in Counter |-> 0]
  /\ cmd \in [Ctl -> Command]
  /\ status = [p \in Ctl |-> "idle"]
  /\ loaded = [s \in Spey |-> [k \in Key |-> Unset]]
  /\ lost = {}

Become(p, here, there) ==
  /\ status[p] = here
  /\ status' = [status EXCEPT ![p] = there]

End(p, here, there) ==
  /\ Become(p, here, there)
  /\ \E c \in Command : c.verb = "mistaken" /\ cmd' = [cmd EXCEPT ![p] = c]

Run(p, c) ==
  /\ Become(p, "idle", "running")
  /\ cmd' = [cmd EXCEPT ![p] = c]
  /\ UNCHANGED <<schema, settings, rows, users, stats, loaded, lost>>

Create(c) ==
  /\ c.verb = "init" /\ schema = "absent"
  /\ schema' = "present" /\ settings' = FirstSettings /\ rows' = FirstRows
  /\ UNCHANGED <<users, stats>>

SetKey(c) ==
  /\ c.verb = "set" /\ schema = "present"
  /\ settings' = [settings EXCEPT ![c.key] = c.value]
  /\ UNCHANGED <<schema, rows, users, stats>>

EditRows(c) ==
  /\ schema = "present"
  /\ \/ c.verb = "add" /\ rows' = rows \cup {c.row}
     \/ c.verb = "sub" /\ rows' = rows \ {c.row}
  /\ UNCHANGED <<schema, settings, users, stats>>

EditUsers(c) ==
  /\ schema = "present"
  /\ \/ c.verb = "user add" /\ c.user \notin users /\ users' = users \cup {c.user}
     \/ c.verb = "user sub" /\ c.user \in users /\ users' = users \ {c.user}
  /\ UNCHANGED <<schema, settings, rows, stats>>

ResetStats(c) ==
  /\ c.verb = "statsreset" /\ schema = "present"
  /\ stats' = [n \in Counter |-> 0]
  /\ UNCHANGED <<schema, settings, rows, users>>

Apply(p) ==
  /\ Become(p, "running", "applied")
  /\ LET c == cmd[p] IN
       Create(c) \/ SetKey(c) \/ EditRows(c) \/ EditUsers(c) \/ ResetStats(c)
  /\ UNCHANGED <<cmd, loaded, lost>>

Report(p) ==
  /\ \/ End(p, "applied", "ok")
     \/ End(p, "running", "failed")
     \/ cmd[p].verb = "list" /\ End(p, "running", "ok")
  /\ UNCHANGED <<schema, settings, rows, users, stats, loaded, lost>>

Kill(p) ==
  /\ End(p, "running", "killed") \/ End(p, "applied", "killed")
  /\ UNCHANGED <<schema, settings, rows, users, stats, loaded, lost>>

Load(s, k) ==
  /\ \/ loaded' = [loaded EXCEPT ![s][k] = settings[k]] /\ lost' = lost \ {<<s, k>>}
     \/ loaded' = [loaded EXCEPT ![s][k] = Unset] /\ lost' = lost \cup {<<s, k>>}
  /\ UNCHANGED <<schema, settings, rows, users, stats, cmd, status>>

Count(n) ==
  /\ schema = "present" /\ stats' = [stats EXCEPT ![n] = @ + 1]
  /\ UNCHANGED <<schema, settings, rows, users, cmd, status, loaded, lost>>

Next ==
  \/ \E p \in Ctl :
       (\E c \in Command : Run(p, c)) \/ Apply(p) \/ Report(p) \/ Kill(p)
  \/ \E s \in Spey, k \in Key : Load(s, k)
  \/ \E n \in Counter : Count(n)

Spec == Init /\ [][Next]_vars /\ \A p \in Ctl : WF_vars(Apply(p) \/ Report(p))
=============================================================================
