--------------------------- MODULE Database_proofs ---------------------------
(***************************************************************************)
(* Proofs about Database, for any number of invocations and processes, any *)
(* settings, rows, users and counters: the tables never hold a row twice,  *)
(* and what is safe from a kill goes the way of Tables.  That commands     *)
(* end and that spey goes on is liveness and is left to TLC.               *)
(***************************************************************************)
EXTENDS Database, TLAPS

(* The places in a transaction.                                            *)
Transacting == {"begun", "deleted", "checked", "changed"}

(* Who is in a transaction has the lock for writing, and only they do.     *)
LockInv ==
  \A p \in Ctl : /\ writer = p => pc[p] \in Transacting \cup {"failing"}
                 /\ pc[p] \in Transacting => writer = p

(* What a transaction has done to the file, once its rows are deleted.     *)
Deleted(c) ==
  /\ saved.schema = "present"
  /\ \/ c.verb = "set" /\ disk = [saved EXCEPT !.settings[c.key] = Unset]
     \/ c.verb \in {"add", "sub"} /\ disk = [saved EXCEPT !.rows[c.row] = 0]

(* And once it is ready to be committed.                                   *)
SetEffect(c) ==
  c.verb = "set" /\ disk = [saved EXCEPT !.settings[c.key] = c.value]
AddEffect(c) ==
  c.verb = "add" /\ disk = [saved EXCEPT !.rows[c.row] = 1]
UserEffect(c) ==
  \/ /\ c.verb = "user add" /\ saved.users[c.user] = 0
     /\ disk = [saved EXCEPT !.users[c.user] = 1]
  \/ /\ c.verb = "user sub" /\ saved.users[c.user] # 0
     /\ disk = [saved EXCEPT !.users[c.user] = 0]
ResetEffect(c) ==
  c.verb = "statsreset" /\ disk = [saved EXCEPT !.stats = [n \in Counter |-> 0]]
InitEffect(c) ==
  c.verb = "init" /\ saved.schema = "absent" /\ disk = Fresh
Effect(c) ==
  \/ /\ saved.schema = "present"
     /\ SetEffect(c) \/ AddEffect(c) \/ UserEffect(c) \/ ResetEffect(c)
  \/ InitEffect(c)

(* How far an invocation is with its command.                              *)
Progress(p) ==
  /\ pc[p] \in {"begun", "checked"} => disk = saved
  /\ pc[p] = "checked" => saved.schema = "present" /\ UserAccepted(cmd[p])
  /\ pc[p] = "deleted" => Deleted(cmd[p])
  /\ pc[p] = "changed" => Effect(cmd[p])
  /\ pc[p] = "listing" => cmd[p].verb = "list"

(* The file and its journal.                                               *)
JournalInv ==
  /\ writer = Nobody => disk = saved
  /\ saved.schema = "absent" => saved = Blank
FileInv == JournalInv /\ \A p \in Ctl : Progress(p)

Inv == TypeOK /\ LockInv /\ FileInv /\ NoDuplicates

-----------------------------------------------------------------------------
(* The contents that init knows are contents.                              *)
LEMMA ContentType ==
  /\ Blank \in Content /\ Fresh \in Content
  /\ FirstSettings \in [Key -> Values \cup {Unset}]
  /\ None \in Command
  BY ValueAssumption, RowAssumption
  DEF Blank, Fresh, FirstSettings, Content, Key, Row, None, Command, Loopback

(* What a command has of its words.                                        *)
LEMMA CommandFields ==
  ASSUME NEW c \in Command
  PROVE  /\ c.verb = "set" => c.key \in Key /\ c.value \in Values \cup {Unset}
         /\ c.verb \in {"add", "sub"} => c.row \in Row
         /\ c.verb \in {"user add", "user sub"} => c.user \in Users
  BY DEF Command

(* What the statements put into the file is of the type of its contents.   *)
LEMMA SettingsType ==
  ASSUME NEW c \in Content, NEW k \in Key, NEW v \in Values \cup {Unset}
  PROVE  [c EXCEPT !.settings[k] = v] \in Content
  BY DEF Content
LEMMA RowsType ==
  ASSUME NEW c \in Content, NEW r \in Row, NEW n \in Nat
  PROVE  [c EXCEPT !.rows[r] = n] \in Content
  BY DEF Content
LEMMA UsersType ==
  ASSUME NEW c \in Content, NEW u \in Users, NEW n \in Nat
  PROVE  [c EXCEPT !.users[u] = n] \in Content
  BY DEF Content
LEMMA StatsType ==
  ASSUME NEW c \in Content, NEW f \in [Counter -> Nat]
  PROVE  [c EXCEPT !.stats = f] \in Content
  BY DEF Content
LEMMA FieldTypes ==
  ASSUME NEW c \in Content
  PROVE  /\ c.schema \in {"absent", "present"}
         /\ c.settings \in [Key -> Values \cup {Unset}]
         /\ c.rows \in [Row -> Nat] /\ c.users \in [Users -> Nat]
         /\ c.stats \in [Counter -> Nat]
  BY DEF Content

(* The statements of speyctl keep the type of the file.                    *)
LEMMA StatementType ==
  ASSUME TypeOK, NEW p \in Ctl,
         Delete(p) \/ Insert(p) \/ ChangeUser(p) \/ Script(p)
  PROVE  disk' \in Content
<1> DEFINE c == cmd[p]
<1>1. c \in Command /\ disk \in Content
  BY DEF TypeOK
<1>2. /\ c.verb = "set" => c.key \in Key /\ c.value \in Values \cup {Unset}
      /\ c.verb \in {"add", "sub"} => c.row \in Row
      /\ c.verb \in {"user add", "user sub"} => c.user \in Users
  BY <1>1, CommandFields
<1> HIDE DEF c
<1>3. CASE Delete(p)
  <2>1. ASSUME c.verb = "set", disk' = [disk EXCEPT !.settings[c.key] = Unset]
        PROVE  disk' \in Content
    BY <1>1, <1>2, <2>1, SettingsType
  <2>2. ASSUME c.verb \in {"add", "sub"}, disk' = [disk EXCEPT !.rows[c.row] = 0]
        PROVE  disk' \in Content
    BY <1>1, <1>2, <2>2, RowsType
  <2> QED  BY <1>3, <2>1, <2>2 DEF Delete, Change, c
<1>4. CASE Insert(p)
  <2>1. ASSUME c.verb = "set", disk' = [disk EXCEPT !.settings[c.key] = c.value]
        PROVE  disk' \in Content
    BY <1>1, <1>2, <2>1, SettingsType
  <2>2. ASSUME c.verb = "add", disk' = [disk EXCEPT !.rows[c.row] = @ + 1]
        PROVE  disk' \in Content
    <3>1. disk.rows[c.row] + 1 \in Nat
      BY <1>1, <1>2, <2>2, FieldTypes
    <3> QED  BY <1>1, <1>2, <2>2, <3>1, RowsType
  <2> QED  BY <1>4, <2>1, <2>2 DEF Insert, Change, c
<1>5. CASE ChangeUser(p)
  <2>1. ASSUME c.verb = "user add", disk' = [disk EXCEPT !.users[c.user] = @ + 1]
        PROVE  disk' \in Content
    <3>1. disk.users[c.user] + 1 \in Nat
      <4>1. disk.users \in [Users -> Nat] /\ c.user \in Users
        BY <1>1, <1>2, <2>1, FieldTypes
      <4> QED  BY <4>1
    <3> QED  BY <1>1, <1>2, <2>1, <3>1, UsersType
  <2>2. ASSUME c.verb = "user sub", disk' = [disk EXCEPT !.users[c.user] = 0]
        PROVE  disk' \in Content
    BY <1>1, <1>2, <2>2, UsersType
  <2> QED  BY <1>5, <2>1, <2>2 DEF ChangeUser, Change, c
<1>6. CASE Script(p)
  <2>1. ASSUME disk' = [disk EXCEPT !.stats = [n \in Counter |-> 0]]
        PROVE  disk' \in Content
    BY <1>1, <2>1, StatsType
  <2> QED  BY <1>6, <2>1, ContentType DEF Script, Change
<1> QED  BY <1>3, <1>4, <1>5, <1>6

(* Every step of speyctl keeps the types.                                  *)
LEMMA CtlType ==
  ASSUME TypeOK, NEW p \in Ctl,
         (\E c \in Command : Start(p, c)) \/ Invocation(p) \/ Kill(p)
  PROVE  TypeOK'
<1> USE ProcessAssumption, ContentType
<1>1. ASSUME NEW c \in Command, Start(p, c)
      PROVE  TypeOK'
  BY <1>1 DEF Start, TypeOK, file, spey, Go
<1>2. CASE Refuse(p) \/ Begin(p) \/ Busy(p) \/ Exit(p)
  BY <1>2 DEF Refuse, Begin, Busy, Exit, TypeOK, file, spey, Go, End
<1>3. CASE Delete(p) \/ Insert(p) \/ ChangeUser(p) \/ Script(p)
  <2>1. disk' \in Content
    BY <1>3, StatementType
  <2>2. /\ \E place \in {"deleted", "changed"} : pc' = [pc EXCEPT ![p] = place]
        /\ UNCHANGED <<saved, writer, readers, cmd, spey>>
    BY <1>3 DEF Delete, Insert, ChangeUser, Script, Change, Go
  <2> QED  BY <2>1, <2>2 DEF TypeOK, spey
<1>4. CASE CheckUser(p)
  BY <1>4 DEF CheckUser, TypeOK, file, spey, Go
<1>5. CASE Commit(p)
  BY <1>5 DEF Commit, TypeOK, spey, Go
<1>6. CASE StatementFails(p)
  BY <1>6 DEF StatementFails, TypeOK, spey
<1>7. CASE Rollback(p)
  BY <1>7 DEF Rollback, TypeOK, spey, Go, End
<1>8. CASE List(p)
  BY <1>8 DEF List, TypeOK, spey, Go
<1>9. CASE ListEnds(p, "ok") \/ ListEnds(p, "failed")
  <2>1. \E place \in {"ok", "failed"} :
          /\ pc' = [pc EXCEPT ![p] = place] /\ cmd' = [cmd EXCEPT ![p] = None]
          /\ readers' = readers \ {p} /\ UNCHANGED <<disk, saved, writer, spey>>
    BY <1>9 DEF ListEnds, Go, End
  <2> QED  BY <2>1 DEF TypeOK, spey
<1>10. CASE Kill(p)
  BY <1>10 DEF Kill, TypeOK, spey, Go, End
<1> QED
  BY <1>1, <1>2, <1>3, <1>4, <1>5, <1>6, <1>7, <1>8, <1>9, <1>10 DEF Invocation

(* The key that is loaded next.                                            *)
LEMMA NextKey ==
  ASSUME NEW k \in 0 .. NumKeys
  PROVE  (k + 1) % (NumKeys + 1) \in 0 .. NumKeys
  BY ValueAssumption

(* Every step of spey keeps the types.                                     *)
LEMMA SpeyType ==
  ASSUME TypeOK, NEW s \in Spey,
         Reload(s) \/ (\E n \in Counter \cup Missing : Counts(s, n)) \/ Process(s)
  PROVE  TypeOK'
<1>1. CASE Reload(s)
  <2>1. rounds'[s] \in 0 .. MaxRounds /\ 1 \in 0 .. NumKeys
    BY <1>1, ValueAssumption DEF Reload, TypeOK, file, ctl
  <2> QED  BY <1>1, <2>1 DEF Reload, TypeOK, file, ctl
<1>2. ASSUME NEW n \in Counter \cup Missing, Counts(s, n)
      PROVE  TypeOK'
  <2>1. rounds'[s] \in 0 .. MaxRounds
    BY <1>2, ValueAssumption DEF Counts, TypeOK, file, ctl
  <2> QED  BY <1>2, <2>1 DEF Counts, TypeOK, file, ctl
<1>3. ASSUME reading[s] # 0, NEW value \in Values \cup {Unset}, Loaded(s, value),
             lost' \subseteq Spey \X Key
      PROVE  TypeOK'
  <2>1. reading[s] \in Key /\ (reading[s] + 1) % (NumKeys + 1) \in 0 .. NumKeys
    BY <1>3, NextKey DEF Key, TypeOK
  <2>2. loaded' \in [Spey -> [Key -> Values \cup {Unset}]]
    BY <1>3, <2>1 DEF Loaded, TypeOK, file, ctl
  <2>3. reading' \in [Spey -> 0 .. NumKeys]
    BY <1>3, <2>1 DEF Loaded, TypeOK, file, ctl
  <2> QED  BY <1>3, <2>2, <2>3 DEF Loaded, TypeOK, file, ctl
<1>4. reading[s] # 0 => reading[s] \in Key
  BY DEF Key, TypeOK
<1>5. CASE Get(s)
  <2>1. disk.settings[reading[s]] \in Values \cup {Unset}
    BY <1>4, <1>5 DEF Get, Content, TypeOK
  <2> QED  BY <1>3, <1>5, <2>1 DEF Get, TypeOK
<1>6. CASE GetFails(s)
  <2>1. lost' \subseteq Spey \X Key
    BY <1>4, <1>6 DEF GetFails, TypeOK
  <2> QED  BY <1>3, <1>6, <2>1 DEF GetFails
<1>7. CASE Raise(s)
  <2>1. disk' \in Content
    <3>1. CASE counting[s] \in Counter
      <4>1. disk' = [disk EXCEPT !.stats = [disk.stats EXCEPT ![counting[s]] = @ + 1]]
        BY <1>7, <3>1 DEF Raise
      <4>2. [disk.stats EXCEPT ![counting[s]] = @ + 1] \in [Counter -> Nat]
        BY <3>1, FieldTypes DEF TypeOK
      <4> QED  BY <4>1, <4>2, StatsType DEF TypeOK
    <3>2. CASE counting[s] \notin Counter
      BY <1>7, <3>2 DEF Raise, TypeOK
    <3> QED  BY <3>1, <3>2
  <2>2. counting' \in [Spey -> Counter \cup Missing \cup {Nobody}]
    BY <1>7 DEF Raise, TypeOK
  <2> QED  BY <1>7, <2>1, <2>2 DEF Raise, TypeOK, ctl
<1>8. CASE RaiseFails(s)
  BY <1>8 DEF RaiseFails, TypeOK, file, ctl
<1> QED
  BY <1>1, <1>2, <1>5, <1>6, <1>7, <1>8 DEF Process

(* Every step keeps the types.                                             *)
LEMMA TypeStep == TypeOK /\ [Next]_vars => TypeOK'
<1> SUFFICES ASSUME TypeOK, [Next]_vars PROVE TypeOK'  OBVIOUS
<1>1. CASE UNCHANGED vars  BY <1>1 DEF vars, TypeOK
<1> QED  BY <1>1, CtlType, SpeyType DEF Next

-----------------------------------------------------------------------------
(* A step of one invocation leaves the lock's discipline to the others.    *)
LEMMA LockStep ==
  ASSUME TypeOK, LockInv, [Next]_vars
  PROVE  LockInv'
<1> USE ProcessAssumption
<1>1. CASE UNCHANGED vars
  BY <1>1 DEF LockInv, vars
<1>2. ASSUME NEW p \in Ctl, NEW c \in Command, Start(p, c)
      PROVE  LockInv'
  BY <1>2 DEF Start, LockInv, TypeOK, file, Go, Transacting
<1>3. ASSUME NEW p \in Ctl, Refuse(p) \/ Busy(p) \/ Exit(p)
      PROVE  LockInv'
  BY <1>3 DEF Refuse, Busy, Exit, LockInv, TypeOK, file, Go, End, Transacting
<1>4. ASSUME NEW p \in Ctl, Begin(p)
      PROVE  LockInv'
  BY <1>4 DEF Begin, MayWrite, LockInv, TypeOK, Go, Transacting
<1>5. ASSUME NEW p \in Ctl, Delete(p) \/ Insert(p) \/ ChangeUser(p) \/ Script(p)
                            \/ CheckUser(p)
      PROVE  LockInv'
  <2>1. /\ pc[p] \in Transacting /\ writer' = writer
        /\ \E place \in Transacting \cup {"failing"} : pc' = [pc EXCEPT ![p] = place]
    BY <1>5 DEF Delete, Insert, ChangeUser, Script, CheckUser, Change, file, Go,
                Transacting
  <2> QED  BY <2>1 DEF LockInv, TypeOK, Transacting
<1>6. ASSUME NEW p \in Ctl, Commit(p) \/ StatementFails(p) \/ Rollback(p) \/ Kill(p)
      PROVE  LockInv'
  <2>1. /\ \E place \in {"committed", "failing", "failed", "killed"} :
             pc' = [pc EXCEPT ![p] = place] /\ (place = "failing" \/ writer' # p)
        /\ writer' = writer \/ (writer' = Nobody /\ writer \in {p, Nobody})
    <3>1. CASE Commit(p) \/ StatementFails(p)
      <4>1. pc[p] \in Transacting
        BY <3>1 DEF Commit, StatementFails, Go, Transacting
      <4>2. writer = p
        BY <4>1 DEF LockInv
      <4> QED  BY <3>1, <4>2 DEF Commit, StatementFails, Go
    <3>2. CASE Rollback(p) \/ Kill(p)
      BY <3>2 DEF Rollback, Kill, Go, End
    <3> QED  BY <1>6, <3>1, <3>2
  <2> QED  BY <2>1 DEF LockInv, TypeOK, Transacting
<1>7. ASSUME NEW p \in Ctl, List(p) \/ ListEnds(p, "ok") \/ ListEnds(p, "failed")
      PROVE  LockInv'
  <2>1. /\ pc[p] \in {"parsed", "listing"} /\ writer' = writer
        /\ \E place \in {"listing", "ok", "failed"} : pc' = [pc EXCEPT ![p] = place]
    BY <1>7 DEF List, ListEnds, Go, End
  <2> QED  BY <2>1 DEF LockInv, TypeOK, Transacting
<1>8. ASSUME NEW s \in Spey,
             Reload(s) \/ (\E n \in Counter \cup Missing : Counts(s, n)) \/ Process(s)
      PROVE  LockInv'
  <2>1. UNCHANGED <<writer, pc>>
    BY <1>8 DEF Reload, Counts, Process, Get, GetFails, Loaded, Raise, RaiseFails,
                file, ctl
  <2> QED  BY <2>1 DEF LockInv
<1> QED
  BY <1>1, <1>2, <1>3, <1>4, <1>5, <1>6, <1>7, <1>8 DEF Next, Invocation

-----------------------------------------------------------------------------
(* What a statement leaves of the other fields.                            *)
LEMMA SetFields ==
  ASSUME NEW c \in Content, NEW k \in Key, NEW v \in Values \cup {Unset}, NEW d,
         d = [c EXCEPT !.settings[k] = v]
  PROVE  /\ d.settings = [c.settings EXCEPT ![k] = v]
         /\ d.schema = c.schema /\ d.rows = c.rows
         /\ d.users = c.users /\ d.stats = c.stats
  BY DEF Content
LEMMA RowFields ==
  ASSUME NEW c \in Content, NEW r \in Row, NEW n \in Nat, NEW d,
         d = [c EXCEPT !.rows[r] = n]
  PROVE  /\ d.rows = [c.rows EXCEPT ![r] = n]
         /\ d.schema = c.schema /\ d.settings = c.settings
         /\ d.users = c.users /\ d.stats = c.stats
  BY DEF Content
LEMMA UserFields ==
  ASSUME NEW c \in Content, NEW u \in Users, NEW n \in Nat, NEW d,
         d = [c EXCEPT !.users[u] = n]
  PROVE  /\ d.users = [c.users EXCEPT ![u] = n]
         /\ d.schema = c.schema /\ d.settings = c.settings
         /\ d.rows = c.rows /\ d.stats = c.stats
  BY DEF Content
LEMMA StatFields ==
  ASSUME NEW c \in Content, NEW f \in [Counter -> Nat], NEW d,
         d = [c EXCEPT !.stats = f]
  PROVE  /\ d.stats = f
         /\ d.schema = c.schema /\ d.settings = c.settings
         /\ d.rows = c.rows /\ d.users = c.users
  BY DEF Content

(* A row that is deleted and inserted is there once.                       *)
LEMMA SetTwice ==
  ASSUME NEW c \in Content, NEW k \in Key, NEW v \in Values \cup {Unset}, NEW d,
         d = [c EXCEPT !.settings[k] = Unset]
  PROVE  [d EXCEPT !.settings[k] = v] = [c EXCEPT !.settings[k] = v]
<1>1. d.settings = [c.settings EXCEPT ![k] = Unset]
  BY SetFields
<1>2. [c.settings EXCEPT ![k] = v] = [d.settings EXCEPT ![k] = v]
  BY <1>1 DEF Content
<1> QED  BY <1>1, <1>2 DEF Content
LEMMA RowTwice ==
  ASSUME NEW c \in Content, NEW r \in Row, NEW d,
         d = [c EXCEPT !.rows[r] = 0]
  PROVE  [d EXCEPT !.rows[r] = d.rows[r] + 1] = [c EXCEPT !.rows[r] = 1]
<1>1. d.rows = [c.rows EXCEPT ![r] = 0] /\ d.rows[r] + 1 = 1
  <2>1. d.rows = [c.rows EXCEPT ![r] = 0] /\ c.rows \in [Row -> Nat]
    BY RowFields, FieldTypes
  <2> QED  BY <2>1
<1>2. [c.rows EXCEPT ![r] = 1] = [d.rows EXCEPT ![r] = 1]
  BY <1>1, FieldTypes
<1>3. [d EXCEPT !.rows[r] = 1] = [c EXCEPT !.rows[r] = 1]
  BY <1>1, <1>2 DEF Content
<1> QED  BY <1>1, <1>3

(* The fields of the tables that init makes.                               *)
LEMMA FreshFields ==
  /\ Fresh.schema = "present" /\ Fresh.settings = FirstSettings
  /\ Fresh.rows = [r \in Row |-> IF r = Loopback THEN 1 ELSE 0]
  /\ Fresh.users = [u \in Users |-> 0] /\ Fresh.stats = [n \in Counter |-> 0]
  /\ Blank.schema = "absent" /\ Blank.settings = [k \in Key |-> Unset]
  /\ Blank.rows = [r \in Row |-> 0]
  /\ Blank.users = [u \in Users |-> 0] /\ Blank.stats = [n \in Counter |-> 0]
  BY DEF Fresh, Blank

(* What a commit changes in the tables, field by field.                    *)
OnlySettings ==
  disk.schema = saved.schema /\ disk.rows = saved.rows
  /\ disk.users = saved.users /\ disk.stats = saved.stats
OnlyRows ==
  disk.schema = saved.schema /\ disk.settings = saved.settings
  /\ disk.users = saved.users /\ disk.stats = saved.stats
OnlyUsers ==
  disk.schema = saved.schema /\ disk.settings = saved.settings
  /\ disk.rows = saved.rows /\ disk.stats = saved.stats
OnlyStats ==
  disk.schema = saved.schema /\ disk.settings = saved.settings
  /\ disk.rows = saved.rows /\ disk.users = saved.users
SetDone(c) ==
  /\ c.verb = "set" /\ OnlySettings
  /\ disk.settings = [saved.settings EXCEPT ![c.key] = c.value]
RowsDone(c) ==
  /\ OnlyRows
  /\ \/ c.verb = "add" /\ disk.rows = [saved.rows EXCEPT ![c.row] = 1]
     \/ c.verb = "sub" /\ disk.rows = [saved.rows EXCEPT ![c.row] = 0]
UsersDone(c) ==
  /\ OnlyUsers
  /\ \/ /\ c.verb = "user add" /\ saved.users[c.user] = 0
        /\ disk.users = [saved.users EXCEPT ![c.user] = 1]
     \/ /\ c.verb = "user sub" /\ saved.users[c.user] # 0
        /\ disk.users = [saved.users EXCEPT ![c.user] = 0]
StatsDone(c) ==
  c.verb = "statsreset" /\ OnlyStats /\ disk.stats = [n \in Counter |-> 0]
Done(c) ==
  \/ /\ saved.schema = "present"
     /\ SetDone(c) \/ RowsDone(c) \/ UsersDone(c) \/ StatsDone(c)
  \/ InitEffect(c)

(* A transaction that is ready to be committed has done what it is for.    *)
LEMMA Ready ==
  ASSUME TypeOK, NEW p \in Ctl,
         Effect(cmd[p]) \/ (Deleted(cmd[p]) /\ ~Inserts(cmd[p]))
  PROVE  Done(cmd[p]) /\ disk.schema = "present"
<1> DEFINE c == cmd[p]
<1>1. c \in Command /\ saved \in Content
  BY DEF TypeOK
<1> USE <1>1
<1>2. /\ c.verb = "set" => c.key \in Key /\ c.value \in Values \cup {Unset}
      /\ c.verb \in {"add", "sub"} => c.row \in Row
      /\ c.verb \in {"user add", "user sub"} => c.user \in Users
  BY CommandFields
<1> HIDE DEF c
<1>3. Effect(c) \/ (Deleted(c) /\ ~Inserts(c))
  BY DEF c
<1>4. 0 \in Nat /\ 1 \in Nat
  OBVIOUS
<1>5. ASSUME saved.schema = "present", SetEffect(c)
      PROVE  Done(c) /\ disk.schema = "present"
  <2>1. OnlySettings /\ disk.settings = [saved.settings EXCEPT ![c.key] = c.value]
    BY <1>2, <1>5, SetFields DEF SetEffect, OnlySettings
  <2> QED  BY <1>5, <2>1 DEF Done, SetDone, SetEffect, OnlySettings
<1>6. ASSUME saved.schema = "present", NEW n \in {0, 1},
             disk = [saved EXCEPT !.rows[c.row] = n],
             (c.verb = "add" /\ n = 1) \/ (c.verb = "sub" /\ n = 0)
      PROVE  Done(c) /\ disk.schema = "present"
  <2>1. c.row \in Row
    BY <1>2, <1>6
  <2>2. n \in Nat
    BY <1>6
  <2>3. OnlyRows /\ disk.rows = [saved.rows EXCEPT ![c.row] = n]
    BY <1>6, <2>1, <2>2, RowFields DEF OnlyRows
  <2>4. RowsDone(c)
    BY <1>6, <2>3 DEF RowsDone
  <2> QED  BY <1>6, <2>3, <2>4 DEF Done, OnlyRows
<1>7. ASSUME saved.schema = "present", UserEffect(c)
      PROVE  Done(c) /\ disk.schema = "present"
  <2>1. c.user \in Users
    BY <1>2, <1>7 DEF UserEffect
  <2>2. ASSUME NEW n \in Nat, disk = [saved EXCEPT !.users[c.user] = n]
        PROVE  OnlyUsers /\ disk.users = [saved.users EXCEPT ![c.user] = n]
    BY <2>1, <2>2, UserFields DEF OnlyUsers
  <2>3. UsersDone(c)
    <3>1. CASE disk = [saved EXCEPT !.users[c.user] = 1]
               /\ c.verb = "user add" /\ saved.users[c.user] = 0
      BY <1>4, <2>2, <3>1 DEF UsersDone
    <3>2. CASE disk = [saved EXCEPT !.users[c.user] = 0]
               /\ c.verb = "user sub" /\ saved.users[c.user] # 0
      BY <1>4, <2>2, <3>2 DEF UsersDone
    <3> QED  BY <1>7, <3>1, <3>2 DEF UserEffect
  <2> QED  BY <1>7, <2>3 DEF Done, UsersDone, OnlyUsers
<1>8. ASSUME saved.schema = "present", ResetEffect(c)
      PROVE  Done(c) /\ disk.schema = "present"
  <2>1. [n \in Counter |-> 0] \in [Counter -> Nat]
    OBVIOUS
  <2>2. OnlyStats /\ disk.stats = [n \in Counter |-> 0]
    BY <1>8, <2>1, StatFields DEF ResetEffect, OnlyStats
  <2> QED  BY <1>8, <2>2 DEF Done, StatsDone, ResetEffect, OnlyStats
<1>9. ASSUME InitEffect(c)
      PROVE  Done(c) /\ disk.schema = "present"
  BY <1>9, FreshFields DEF InitEffect, Done
<1>10. ASSUME Deleted(c), ~Inserts(c)
       PROVE  Done(c) /\ disk.schema = "present"
  <2>1. CASE c.verb = "set" /\ disk = [saved EXCEPT !.settings[c.key] = Unset]
    <3>1. c.value = Unset
      BY <1>10, <2>1 DEF Inserts
    <3> QED  BY <1>5, <1>10, <2>1, <3>1 DEF Deleted, SetEffect
  <2>2. CASE c.verb = "sub" /\ disk = [saved EXCEPT !.rows[c.row] = 0]
    BY <1>6, <1>10, <2>2 DEF Deleted
  <2> QED  BY <1>10, <2>1, <2>2 DEF Deleted, Inserts
<1>11. Done(c) /\ disk.schema = "present"
  BY <1>3, <1>5, <1>6, <1>7, <1>8, <1>9, <1>10 DEF Effect, AddEffect
<1> QED  BY <1>11 DEF c

(* Whoever is not in the step goes no further with their command.          *)
LEMMA Others ==
  ASSUME NEW q \in Ctl, Progress(q), UNCHANGED <<pc[q], cmd[q]>>,
         UNCHANGED <<disk, saved>> \/ pc[q] \notin Transacting
  PROVE  Progress(q)'
<1>1. CASE UNCHANGED <<disk, saved>>
  BY <1>1 DEF Progress, Deleted, Effect, SetEffect, AddEffect, UserEffect,
              ResetEffect, InitEffect, UserAccepted, Exists
<1>2. CASE pc[q] \notin Transacting
  BY <1>2 DEF Progress, Transacting
<1> QED  BY <1>1, <1>2

(* Delete, in a transaction that has changed nothing yet.                  *)
LEMMA DeleteProgress ==
  ASSUME TypeOK, FileInv, NEW p \in Ctl, Delete(p)
  PROVE  Progress(p)'
<1>1. /\ pc'[p] = "deleted" /\ disk = saved /\ disk.schema = "present"
      /\ UNCHANGED <<saved, cmd>>
  BY DEF Delete, Go, Change, FileInv, Progress, TypeOK
<1>2. \/ cmd[p].verb = "set" /\ disk' = [saved EXCEPT !.settings[cmd[p].key] = Unset]
      \/ /\ cmd[p].verb \in {"add", "sub"}
         /\ disk' = [saved EXCEPT !.rows[cmd[p].row] = 0]
  BY <1>1 DEF Delete, Change
<1> QED  BY <1>1, <1>2 DEF Progress, Deleted

(* Insert, after Delete.                                                   *)
LEMMA InsertProgress ==
  ASSUME TypeOK, FileInv, NEW p \in Ctl, Insert(p)
  PROVE  Progress(p)'
<1> DEFINE c == cmd[p]
<1>1. /\ pc'[p] = "changed" /\ Deleted(c) /\ UNCHANGED <<saved, cmd>>
      /\ c \in Command /\ saved \in Content
  BY DEF Insert, Go, Change, FileInv, Progress, TypeOK
<1>2. CASE c.verb = "set"
  <2>1. disk = [saved EXCEPT !.settings[c.key] = Unset]
    BY <1>1, <1>2 DEF Deleted
  <2>2. disk' = [disk EXCEPT !.settings[c.key] = c.value]
    BY <1>2 DEF Insert, Change
  <2>3. disk' = [saved EXCEPT !.settings[c.key] = c.value]
    BY <1>1, <1>2, <2>1, <2>2, CommandFields, SetTwice
  <2> QED  BY <1>1, <1>2, <2>3 DEF Progress, Effect, SetEffect, Deleted
<1>3. CASE c.verb = "add"
  <2>1. disk = [saved EXCEPT !.rows[c.row] = 0]
    BY <1>1, <1>3 DEF Deleted
  <2>2. disk' = [disk EXCEPT !.rows[c.row] = disk.rows[c.row] + 1]
    BY <1>3 DEF Insert, Change
  <2>3. disk' = [saved EXCEPT !.rows[c.row] = 1]
    <3>1. c.row \in Row
      BY <1>1, <1>3, CommandFields
    <3>2. saved \in Content
      BY <1>1
    <3> HIDE DEF c
    <3>3. [disk EXCEPT !.rows[c.row] = disk.rows[c.row] + 1]
            = [saved EXCEPT !.rows[c.row] = 1]
      BY <2>1, <3>1, <3>2, RowTwice, ZenonT(40)
    <3> QED  BY <2>2, <3>3
  <2> QED  BY <1>1, <1>3, <2>3 DEF Progress, Effect, AddEffect, Deleted
<1> QED  BY <1>2, <1>3 DEF Insert

(* cmd_user, whose checks are in the transaction.                          *)
LEMMA UserProgress ==
  ASSUME TypeOK, FileInv, NEW p \in Ctl, CheckUser(p) \/ ChangeUser(p)
  PROVE  Progress(p)'
<1> DEFINE c == cmd[p]
<1>1. CASE CheckUser(p)
  <2>1. UNCHANGED <<disk, saved, cmd>> /\ disk = saved /\ disk.schema = "present"
    BY <1>1 DEF CheckUser, Go, file, FileInv, Progress
  <2>2. \/ pc'[p] = "checked" /\ UserAccepted(c)
        \/ pc'[p] = "failing"
    BY <1>1 DEF CheckUser, Go, TypeOK
  <2> QED  BY <2>1, <2>2 DEF Progress, UserAccepted, Exists
<1>2. CASE ChangeUser(p)
  <2>1. /\ pc'[p] = "changed" /\ disk = saved /\ saved.schema = "present"
        /\ UserAccepted(c) /\ UNCHANGED <<saved, cmd>>
        /\ c \in Command /\ saved \in Content
    BY <1>2 DEF ChangeUser, Go, Change, FileInv, Progress, TypeOK
  <2>2. CASE c.verb = "user add"
    <3>1. saved.users[c.user] = 0
      BY <2>1, <2>2 DEF UserAccepted, Exists
    <3>2. disk' = [saved EXCEPT !.users[c.user] = 1]
      <4>1. disk' = [saved EXCEPT !.users[c.user] = saved.users[c.user] + 1]
        BY <1>2, <2>1, <2>2 DEF ChangeUser, Change
      <4>2. saved.users[c.user] + 1 = 1
        BY <3>1
      <4> QED  BY <4>1, <4>2
    <3> QED  BY <2>1, <2>2, <3>1, <3>2 DEF Progress, Effect, UserEffect
  <2>3. CASE c.verb = "user sub"
    <3>1. saved.users[c.user] # 0
      BY <2>1, <2>3 DEF UserAccepted, Exists
    <3>2. disk' = [saved EXCEPT !.users[c.user] = 0]
      BY <1>2, <2>1, <2>3 DEF ChangeUser, Change
    <3> QED  BY <2>1, <2>3, <3>1, <3>2 DEF Progress, Effect, UserEffect
  <2> QED  BY <1>2, <2>2, <2>3 DEF ChangeUser
<1> QED  BY <1>1, <1>2

(* The scripts.                                                            *)
LEMMA ScriptProgress ==
  ASSUME TypeOK, FileInv, NEW p \in Ctl, Script(p)
  PROVE  Progress(p)'
<1>1. /\ pc'[p] = "changed" /\ disk = saved /\ UNCHANGED <<saved, cmd>>
  BY DEF Script, Go, Change, FileInv, Progress, TypeOK
<1>2. CASE cmd[p].verb = "init"
  BY <1>1, <1>2 DEF Script, Change, Progress, Effect, InitEffect, Fresh
<1>3. CASE cmd[p].verb = "statsreset"
  BY <1>1, <1>3 DEF Script, Change, Progress, Effect, ResetEffect
<1> QED  BY <1>2, <1>3 DEF Script

(* A counter is raised, and nothing else in the file changes.              *)
LEMMA RaiseFields ==
  ASSUME TypeOK, NEW s \in Spey, Raise(s)
  PROVE  /\ disk'.schema = disk.schema /\ disk'.settings = disk.settings
         /\ disk'.rows = disk.rows /\ disk'.users = disk.users
         /\ IF counting[s] \in Counter
            THEN disk'.stats = [disk.stats EXCEPT ![counting[s]] = @ + 1]
            ELSE disk'.stats = disk.stats
<1>1. CASE counting[s] \in Counter
  <2>1. disk' = [disk EXCEPT !.stats = [disk.stats EXCEPT ![counting[s]] = @ + 1]]
    BY <1>1 DEF Raise
  <2>2. [disk.stats EXCEPT ![counting[s]] = @ + 1] \in [Counter -> Nat]
    BY <1>1, FieldTypes DEF TypeOK
  <2> QED  BY <1>1, <2>1, <2>2, StatFields DEF TypeOK
<1>2. CASE counting[s] \notin Counter
  BY <1>2 DEF Raise
<1> QED  BY <1>1, <1>2

(* The file and its journal from one step to the next.                     *)
LEMMA FileStep ==
  ASSUME TypeOK, LockInv, FileInv, [Next]_vars
  PROVE  FileInv'
<1> USE ProcessAssumption
<1>1. CASE UNCHANGED vars
  <2>1. ASSUME NEW q \in Ctl  PROVE Progress(q)'
    BY <1>1, <2>1, Others DEF vars, FileInv
  <2> QED  BY <1>1, <2>1 DEF FileInv, JournalInv, vars, Blank
<1>2. ASSUME NEW p \in Ctl,
             \E place : pc' = [pc EXCEPT ![p] = place],
             \E c : cmd' = [cmd EXCEPT ![p] = c],
             UNCHANGED <<disk, saved>> \/ writer = p,
             JournalInv', Progress(p)'
      PROVE  FileInv'
  <2>1. ASSUME NEW q \in Ctl, q # p  PROVE Progress(q)'
    <3>1. UNCHANGED <<pc[q], cmd[q]>>
      BY <1>2, <2>1 DEF TypeOK
    <3>2. UNCHANGED <<disk, saved>> \/ pc[q] \notin Transacting
      BY <1>2, <2>1 DEF LockInv
    <3> QED  BY <3>1, <3>2, Others DEF FileInv
  <2> QED  BY <1>2, <2>1 DEF FileInv
<1>3. ASSUME NEW p \in Ctl,
             (\E c \in Command : Start(p, c)) \/ Refuse(p) \/ Busy(p) \/ Exit(p)
             \/ List(p) \/ ListEnds(p, "ok") \/ ListEnds(p, "failed")
      PROVE  FileInv'
  <2>1. /\ UNCHANGED <<disk, saved, writer>>
        /\ \E c : cmd' = [cmd EXCEPT ![p] = c]
        /\ \/ /\ cmd[p].verb = "list" /\ cmd' = cmd
              /\ pc' = [pc EXCEPT ![p] = "listing"]
           \/ \E place \in {"parsed", "ok", "failed"} : pc' = [pc EXCEPT ![p] = place]
    BY <1>3 DEF Start, Refuse, Busy, Exit, List, ListEnds, Go, End, file, TypeOK
  <2>2. JournalInv'
    BY <2>1 DEF FileInv, JournalInv, Blank
  <2>3. Progress(p)'
    BY <2>1 DEF Progress, TypeOK
  <2> QED  BY <1>2, <2>1, <2>2, <2>3
<1>4. ASSUME NEW p \in Ctl, Begin(p)
      PROVE  FileInv'
  <2>1. JournalInv' /\ Progress(p)'
    BY <1>4 DEF Begin, MayWrite, FileInv, JournalInv, Progress, Go, TypeOK, Blank
  <2>2. /\ UNCHANGED <<disk, saved>> /\ \E place : pc' = [pc EXCEPT ![p] = place]
        /\ \E c : cmd' = [cmd EXCEPT ![p] = c]
    <3>1. cmd' = [cmd EXCEPT ![p] = cmd[p]]
      BY <1>4 DEF Begin, TypeOK
    <3> QED  BY <1>4, <3>1 DEF Begin, Go
  <2> QED  BY <1>2, <2>1, <2>2
<1>5. ASSUME NEW p \in Ctl,
             Delete(p) \/ Insert(p) \/ CheckUser(p) \/ ChangeUser(p) \/ Script(p)
      PROVE  FileInv'
  <2>1. /\ UNCHANGED <<saved, writer, cmd>> /\ pc[p] \in Transacting
        /\ \E place : pc' = [pc EXCEPT ![p] = place]
    BY <1>5 DEF Delete, Insert, CheckUser, ChangeUser, Script, Change, Go, file,
                Transacting
  <2>2. writer = p
    BY <2>1 DEF LockInv
  <2>3. JournalInv'
    BY <2>1, <2>2 DEF FileInv, JournalInv, Blank
  <2>4. Progress(p)'
    BY <1>5, DeleteProgress, InsertProgress, UserProgress, ScriptProgress
  <2>5. \E c : cmd' = [cmd EXCEPT ![p] = c]
    BY <2>1 DEF TypeOK
  <2> QED  BY <1>2, <2>1, <2>2, <2>3, <2>4, <2>5
<1>6. ASSUME NEW p \in Ctl, Commit(p)
      PROVE  FileInv'
  <2>1. /\ pc[p] \in Transacting /\ pc' = [pc EXCEPT ![p] = "committed"]
        /\ saved' = disk /\ disk' = disk /\ cmd' = cmd
    BY <1>6 DEF Commit, Go, Transacting
  <2>2. writer = p
    BY <2>1 DEF LockInv
  <2>3. JournalInv'
    <3>1. Effect(cmd[p]) \/ (Deleted(cmd[p]) /\ ~Inserts(cmd[p]))
      BY <1>6 DEF Commit, Go, FileInv, Progress
    <3>2. disk.schema = "present"
      BY <3>1, Ready
    <3> QED  BY <2>1, <3>2 DEF JournalInv
  <2>4. Progress(p)' /\ \E c : cmd' = [cmd EXCEPT ![p] = c]
    BY <2>1 DEF Progress, TypeOK
  <2> QED  BY <1>2, <2>1, <2>2, <2>3, <2>4
<1>7. ASSUME NEW p \in Ctl, StatementFails(p) \/ Rollback(p) \/ Kill(p)
      PROVE  FileInv'
  <2>1. /\ \E place \in {"failing", "failed", "killed"} : pc' = [pc EXCEPT ![p] = place]
        /\ \E c : cmd' = [cmd EXCEPT ![p] = c]
        /\ saved' = saved
        /\ \/ UNCHANGED <<disk, writer>>
           \/ writer = p /\ disk' = saved /\ writer' = Nobody
    <3>1. CASE StatementFails(p)
      <4>1. writer = p
        BY <3>1 DEF StatementFails, LockInv, Transacting
      <4> QED  BY <3>1, <4>1 DEF StatementFails, TypeOK
    <3>2. CASE Rollback(p) \/ Kill(p)
      BY <3>2 DEF Rollback, Kill, Go, End
    <3> QED  BY <1>7, <3>1, <3>2
  <2>2. JournalInv'
    BY <2>1 DEF FileInv, JournalInv, Blank
  <2>3. Progress(p)'
    BY <2>1 DEF Progress, TypeOK
  <2> QED  BY <1>2, <2>1, <2>2, <2>3
<1>8. ASSUME NEW s \in Spey,
             Reload(s) \/ (\E n \in Counter \cup Missing : Counts(s, n))
             \/ Get(s) \/ GetFails(s) \/ RaiseFails(s)
      PROVE  FileInv'
  <2>1. UNCHANGED <<disk, saved, writer, pc, cmd>>
    BY <1>8 DEF Reload, Counts, Get, GetFails, Loaded, RaiseFails, file, ctl
  <2>2. ASSUME NEW q \in Ctl  PROVE Progress(q)'
    BY <2>1, <2>2, Others DEF FileInv
  <2> QED  BY <2>1, <2>2 DEF FileInv, JournalInv, Blank
<1>9. ASSUME NEW s \in Spey, Raise(s)
      PROVE  FileInv'
  <2>1. /\ writer = Nobody /\ disk.schema = "present" /\ saved' = disk'
        /\ UNCHANGED <<writer, pc, cmd>>
    BY <1>9 DEF Raise, MayWrite, ctl
  <2>2. ASSUME NEW q \in Ctl  PROVE Progress(q)'
    <3>1. pc[q] \notin Transacting
      BY <2>1, <2>2 DEF LockInv
    <3> QED  BY <2>1, <2>2, <3>1, Others DEF FileInv
  <2>3. disk'.schema = "present"
    BY <1>9, <2>1, RaiseFields
  <2> QED  BY <2>1, <2>2, <2>3 DEF FileInv, JournalInv
<1> QED
  BY <1>1, <1>3, <1>4, <1>5, <1>6, <1>7, <1>8, <1>9 DEF Next, Invocation, Process

(* Only a commit, or a counter, changes what a kill would leave.           *)
LEMMA SavedStep ==
  ASSUME TypeOK, FileInv, [Next]_vars
  PROVE  \/ saved' = saved
         \/ \E p \in Ctl : Commit(p) /\ Done(cmd[p])
         \/ \E s \in Spey : Raise(s)
<1>1. ASSUME NEW p \in Ctl, Commit(p)
      PROVE  Done(cmd[p])
  <2>1. Effect(cmd[p]) \/ (Deleted(cmd[p]) /\ ~Inserts(cmd[p]))
    BY <1>1 DEF Commit, Go, FileInv, Progress
  <2> QED  BY <2>1, Ready
<1> QED
  BY <1>1 DEF vars, Next, Invocation, Process, Start, Refuse, Begin, Busy, Delete,
     Insert, CheckUser, ChangeUser, Script, Change, StatementFails, Rollback, Exit,
     List, ListEnds, Kill, Reload, Counts, Get, GetFails, Loaded, RaiseFails, file

(* No row comes twice.                                                     *)
LEMMA DuplicatesStep ==
  ASSUME TypeOK, FileInv, NoDuplicates, [Next]_vars
  PROVE  NoDuplicates'
<1>1. CASE saved' = saved
  BY <1>1 DEF NoDuplicates
<1>2. ASSUME NEW p \in Ctl, Commit(p), Done(cmd[p])
      PROVE  NoDuplicates'
  <2>1. saved' = disk
    BY <1>2 DEF Commit
  <2>2. /\ saved.rows \in [Row -> Nat] /\ saved.users \in [Users -> Nat]
        /\ disk.rows \in [Row -> Nat] /\ disk.users \in [Users -> Nat]
    BY FieldTypes DEF TypeOK
  <2>3. \A r \in Row : disk.rows[r] <= 1
    <3>1. CASE disk.rows = saved.rows
      BY <3>1 DEF NoDuplicates
    <3>2. CASE \E n \in {0, 1} : disk.rows = [saved.rows EXCEPT ![cmd[p].row] = n]
      BY <2>2, <3>2 DEF NoDuplicates
    <3>3. CASE disk = Fresh
      BY <3>3, FreshFields
    <3> QED
      BY <1>2, <3>1, <3>2, <3>3 DEF Done, SetDone, RowsDone, UsersDone, StatsDone,
         OnlySettings, OnlyRows, OnlyUsers, OnlyStats, InitEffect
  <2>4. \A u \in Users : disk.users[u] <= 1
    <3>1. CASE disk.users = saved.users
      BY <3>1 DEF NoDuplicates
    <3>2. CASE \E n \in {0, 1} : disk.users = [saved.users EXCEPT ![cmd[p].user] = n]
      BY <2>2, <3>2 DEF NoDuplicates
    <3>3. CASE disk = Fresh
      BY <3>3, FreshFields
    <3> QED
      BY <1>2, <3>1, <3>2, <3>3 DEF Done, SetDone, RowsDone, UsersDone, StatsDone,
         OnlySettings, OnlyRows, OnlyUsers, OnlyStats, InitEffect
  <2> QED  BY <2>1, <2>3, <2>4 DEF NoDuplicates
<1>3. ASSUME NEW s \in Spey, Raise(s)
      PROVE  NoDuplicates'
  <2>1. saved' = disk' /\ disk = saved
    BY <1>3 DEF Raise, MayWrite, FileInv, JournalInv
  <2>2. saved'.rows = saved.rows /\ saved'.users = saved.users
    BY <1>3, <2>1, RaiseFields
  <2> QED  BY <2>2 DEF NoDuplicates
<1> QED  BY <1>1, <1>2, <1>3, SavedStep

(* The invariant holds in the beginning and in every step.                 *)
LEMMA InitInv == Init => Inv
<1> SUFFICES ASSUME Init PROVE Inv  OBVIOUS
<1>1. TypeOK
  BY ContentType, ProcessAssumption, ValueAssumption DEF Init, TypeOK
<1>2. LockInv /\ FileInv
  BY ProcessAssumption, FreshFields
  DEF Init, LockInv, FileInv, JournalInv, Progress, Transacting
<1>3. NoDuplicates
  BY FreshFields DEF Init, NoDuplicates
<1> QED  BY <1>1, <1>2, <1>3 DEF Inv

LEMMA NextInv == Inv /\ [Next]_vars => Inv'
  BY TypeStep, LockStep, FileStep, DuplicatesStep DEF Inv

LEMMA AlwaysInv == Spec => []Inv
  BY InitInv, NextInv, PTL DEF Spec

(* The database, the invocations of speyctl and what spey has loaded are   *)
(* always of their types.                                                  *)
THEOREM DatabaseTypes == Spec => []TypeOK
  BY AlwaysInv, PTL DEF Inv

(* However many commands run at the same time, fail or are killed, no      *)
(* network, address or user is ever in a table twice: what cmd_trust,      *)
(* cmd_Xlist and cmd_user look for or delete first and insert afterwards is*)
(* inside the transaction.                                                 *)
THEOREM TablesHaveNoDuplicates == Spec => []NoDuplicates
  BY AlwaysInv, PTL DEF Inv

-----------------------------------------------------------------------------
(* What Tables sees of the tables and of the commands.                     *)
RowsSeen == {r \in Row : saved.rows[r] > 0}
UsersSeen == {u \in Users : saved.users[u] > 0}
Status == [p \in Ctl |-> Outcome(p)]

(* The outcome of the command whose place changes is the only one that may.*)
LEMMA StatusStep ==
  ASSUME TypeOK, NEW p \in Ctl, NEW place, pc' = [pc EXCEPT ![p] = place],
         NEW outcome, Outcome(p)' = outcome
  PROVE  Status' = [Status EXCEPT ![p] = outcome]
<1>1. ASSUME NEW q \in Ctl, q # p  PROVE Outcome(q)' = Outcome(q)
  <2>1. pc'[q] = pc[q]
    BY <1>1 DEF TypeOK
  <2> QED  BY <2>1 DEF Outcome
<1>2. Status' = [q \in Ctl |-> Outcome(q)']
  BY DEF Status
<1>3. [Status EXCEPT ![p] = outcome] = [q \in Ctl |-> IF q = p THEN outcome ELSE Status[q]]
  BY DEF Status
<1>4. \A q \in Ctl : Outcome(q)' = IF q = p THEN outcome ELSE Status[q]
  BY <1>1 DEF Status
<1> QED  BY <1>2, <1>3, <1>4

(* A place in a command that Tables does not tell apart.                   *)
LEMMA StillRunning ==
  ASSUME TypeOK, NEW p \in Ctl, NEW place,
         pc[p] \in Transacting \cup {"parsed"},
         place \in Transacting \cup {"failing", "listing"},
         pc' = [pc EXCEPT ![p] = place],
         UNCHANGED <<saved, cmd, loaded, lost>>
  PROVE  UNCHANGED Promise!vars
<1>1. pc'[p] = place
  BY DEF TypeOK
<1>2. Outcome(p) = "running"
  BY DEF Outcome, Transacting
<1>3. Outcome(p)' = "running"
  BY <1>1 DEF Outcome, Transacting
<1>4. Status' = [Status EXCEPT ![p] = "running"]
  BY <1>3, StatusStep
<1>5. Status' = Status
  BY <1>2, <1>4 DEF Status
<1> QED  BY <1>5 DEF Promise!vars, Status

(* The end of a command, and of a list, is a report.                       *)
LEMMA EndReported ==
  ASSUME TypeOK, NEW p \in Ctl, NEW here, NEW there, End(p, here, there),
         UNCHANGED <<saved, loaded, lost>>,
         \/ Outcome(p) = "running" /\ there = "failed"
         \/ Outcome(p) = "running" /\ there = "ok" /\ cmd[p].verb = "list"
         \/ Outcome(p) = "applied" /\ there = "ok"
         \/ Outcome(p) \in {"running", "applied"} /\ there = "killed"
  PROVE  Promise!Report(p) \/ Promise!Kill(p)
<1>1. pc' = [pc EXCEPT ![p] = there] /\ cmd' = [cmd EXCEPT ![p] = None]
  BY DEF End, Go
<1>2. Outcome(p)' = there
  <2>1. pc'[p] = there
    BY <1>1 DEF TypeOK
  <2> QED  BY <2>1 DEF Outcome
<1>3. Status' = [Status EXCEPT ![p] = there]
  BY <1>1, <1>2, StatusStep
<1>4. Status[p] = Outcome(p)
  BY DEF Status
<1>5. \E c \in Command : c.verb = "mistaken" /\ cmd' = [cmd EXCEPT ![p] = c]
  BY <1>1, ContentType DEF None
<1>6. UNCHANGED <<saved.schema, saved.settings, RowsSeen, UsersSeen, saved.stats,
                  loaded, lost>>
  BY DEF RowsSeen, UsersSeen
<1> QED
  BY <1>3, <1>4, <1>5, <1>6
  DEF Promise!Report, Promise!Kill, Promise!End, Promise!Become, Status,
      RowsSeen, UsersSeen

(* Tables sees a user who has a row.                                       *)
LEMMA UserSeen ==
  ASSUME TypeOK, NEW u \in Users
  PROVE  u \in UsersSeen <=> saved.users[u] # 0
<1>1. saved.users[u] \in Nat
  BY FieldTypes DEF TypeOK
<1> QED  BY <1>1 DEF UsersSeen

(* What a commit does to the tables is what its command is to do.          *)
LEMMA CommitChanges ==
  ASSUME TypeOK, FileInv, NEW c \in Command, Done(c), saved' = disk
  PROVE  \/ Promise!Create(c) \/ Promise!SetKey(c) \/ Promise!EditRows(c)
         \/ Promise!EditUsers(c) \/ Promise!ResetStats(c)
<1>1. /\ saved.rows \in [Row -> Nat] /\ saved.users \in [Users -> Nat]
      /\ c.verb \in {"add", "sub"} => c.row \in Row
      /\ c.verb \in {"user add", "user sub"} => c.user \in Users
  BY FieldTypes, CommandFields DEF TypeOK
<1>2. ASSUME saved.schema = "present", SetDone(c)
      PROVE  Promise!SetKey(c)
  BY <1>2 DEF SetDone, OnlySettings, Promise!SetKey
<1>3. ASSUME saved.schema = "present", RowsDone(c)
      PROVE  Promise!EditRows(c)
  <2>1. UNCHANGED <<saved.schema, saved.settings, UsersSeen, saved.stats>>
    BY <1>3 DEF RowsDone, OnlyRows, UsersSeen
  <2>2. CASE c.verb = "add" /\ disk.rows = [saved.rows EXCEPT ![c.row] = 1]
    <3>1. RowsSeen' = RowsSeen \cup {c.row}
      BY <1>1, <2>2 DEF RowsSeen
    <3> QED  BY <1>3, <2>1, <2>2, <3>1 DEF Promise!EditRows, RowsSeen, UsersSeen
  <2>3. CASE c.verb = "sub" /\ disk.rows = [saved.rows EXCEPT ![c.row] = 0]
    <3>1. RowsSeen' = RowsSeen \ {c.row}
      BY <1>1, <2>3 DEF RowsSeen
    <3> QED  BY <1>3, <2>1, <2>3, <3>1 DEF Promise!EditRows, RowsSeen, UsersSeen
  <2> QED  BY <1>3, <2>2, <2>3 DEF RowsDone
<1>4. ASSUME saved.schema = "present", UsersDone(c)
      PROVE  Promise!EditUsers(c)
  <2>1. UNCHANGED <<saved.schema, saved.settings, RowsSeen, saved.stats>>
    BY <1>4 DEF UsersDone, OnlyUsers, RowsSeen
  <2>2. CASE /\ c.verb = "user add" /\ saved.users[c.user] = 0
             /\ disk.users = [saved.users EXCEPT ![c.user] = 1]
    <3>1. c.user \in Users /\ saved.users \in [Users -> Nat]
      BY <1>1, <2>2
    <3>2. saved'.users = [saved.users EXCEPT ![c.user] = 1]
      BY <2>2
    <3>3. UsersSeen' = UsersSeen \cup {c.user}
      BY <3>1, <3>2 DEF UsersSeen
    <3>4. c.user \notin UsersSeen
      BY <2>2, <3>1, UserSeen
    <3> QED  BY <1>4, <2>1, <2>2, <3>3, <3>4 DEF Promise!EditUsers, RowsSeen, UsersSeen
  <2>3. CASE /\ c.verb = "user sub" /\ saved.users[c.user] # 0
             /\ disk.users = [saved.users EXCEPT ![c.user] = 0]
    <3>1. c.user \in Users /\ saved.users \in [Users -> Nat]
      BY <1>1, <2>3
    <3>2. saved'.users = [saved.users EXCEPT ![c.user] = 0]
      BY <2>3
    <3>3. UsersSeen' = UsersSeen \ {c.user}
      BY <3>1, <3>2 DEF UsersSeen
    <3>4. c.user \in UsersSeen
      BY <2>3, <3>1, UserSeen
    <3> QED  BY <1>4, <2>1, <2>3, <3>3, <3>4 DEF Promise!EditUsers, RowsSeen, UsersSeen
  <2> QED  BY <1>4, <2>2, <2>3 DEF UsersDone
<1>5. ASSUME saved.schema = "present", StatsDone(c)
      PROVE  Promise!ResetStats(c)
  BY <1>5 DEF StatsDone, OnlyStats, Promise!ResetStats
<1>6. ASSUME InitEffect(c)
      PROVE  Promise!Create(c)
  <2>1. saved = Blank /\ saved' = Fresh
    BY <1>6 DEF InitEffect, FileInv, JournalInv
  <2>2. RowsSeen' = {Loopback}
    BY <2>1, FreshFields, RowAssumption DEF RowsSeen, Row, Loopback
  <2>3. UsersSeen = {} /\ UsersSeen' = {}
    BY <2>1, FreshFields DEF UsersSeen
  <2>4. saved'.stats = saved.stats /\ saved'.settings = FirstSettings
        /\ saved.schema = "absent" /\ saved'.schema = "present"
    BY <2>1, FreshFields
  <2> QED  BY <1>6, <2>2, <2>3, <2>4 DEF InitEffect, Promise!Create, RowsSeen, UsersSeen
<1> QED  BY <1>2, <1>3, <1>4, <1>5, <1>6 DEF Done

LEMMA CommitApplies ==
  ASSUME TypeOK, LockInv, FileInv, NEW p \in Ctl, Commit(p)
  PROVE  Promise!Apply(p)
<1>1. /\ pc[p] \in Transacting /\ pc' = [pc EXCEPT ![p] = "committed"]
      /\ saved' = disk /\ UNCHANGED <<cmd, loaded, lost>>
  BY DEF Commit, Go, Transacting, spey
<1>2. Outcome(p)' = "applied"
  <2>1. pc'[p] = "committed"
    BY <1>1 DEF TypeOK
  <2> QED  BY <2>1 DEF Outcome
<1>3. Status' = [Status EXCEPT ![p] = "applied"]
  BY <1>1, <1>2, StatusStep
<1>4. Status[p] = "running"
  BY <1>1 DEF Status, Outcome, Transacting
<1>5. Done(cmd[p])
  <2>1. Effect(cmd[p]) \/ (Deleted(cmd[p]) /\ ~Inserts(cmd[p]))
    BY DEF Commit, Go, FileInv, Progress
  <2> QED  BY <2>1, Ready
<1>6. PICK c \in Command : c = cmd[p]
  BY DEF TypeOK
<1>7. \/ Promise!Create(c) \/ Promise!SetKey(c) \/ Promise!EditRows(c)
      \/ Promise!EditUsers(c) \/ Promise!ResetStats(c)
  <2>1. Done(c)
    BY <1>5, <1>6
  <2> QED  BY <1>1, <2>1, CommitChanges
<1>8. UNCHANGED <<cmd, loaded, lost>>
  BY <1>1
<1> QED
  BY <1>3, <1>4, <1>6, <1>7, <1>8
  DEF Promise!Apply, Promise!Become, Status, Promise!Create, Promise!SetKey,
      Promise!EditRows, Promise!EditUsers, Promise!ResetStats

(* Every step of an invocation of speyctl is one of Tables or a stutter.   *)
LEMMA CtlKept ==
  ASSUME Inv, NEW p \in Ctl,
         (\E c \in Command : Start(p, c)) \/ Invocation(p) \/ Kill(p)
  PROVE  [Promise!Next]_(Promise!vars)
<1>1. TypeOK /\ LockInv /\ FileInv
  BY DEF Inv
<1>2. ASSUME NEW c \in Command, Start(p, c)
      PROVE  Promise!Run(p, c)
  <2>1. /\ pc' = [pc EXCEPT ![p] = "parsed"] /\ pc[p] = "idle"
        /\ cmd' = [cmd EXCEPT ![p] = c] /\ UNCHANGED <<saved, loaded, lost>>
    BY <1>2 DEF Start, Go, file, spey
  <2>2. Outcome(p)' = "running"
    <3>1. pc'[p] = "parsed"
      BY <1>1, <2>1 DEF TypeOK
    <3> QED  BY <3>1 DEF Outcome
  <2>3. Status' = [Status EXCEPT ![p] = "running"]
    BY <1>1, <2>1, <2>2, StatusStep
  <2>4. Status[p] = "idle"
    BY <2>1 DEF Status, Outcome
  <2> QED  BY <2>1, <2>3, <2>4 DEF Promise!Run, Promise!Become, Status
<1>3. ASSUME Refuse(p) \/ Busy(p) \/ Rollback(p) \/ Exit(p)
             \/ ListEnds(p, "ok") \/ ListEnds(p, "failed") \/ Kill(p)
      PROVE  Promise!Report(p) \/ Promise!Kill(p)
  <2>1. UNCHANGED <<saved, loaded, lost>>
    BY <1>3 DEF Refuse, Busy, Rollback, Exit, ListEnds, Kill, file, spey
  <2>2. CASE Refuse(p) \/ Busy(p)
    <3>1. End(p, "parsed", "failed") /\ Outcome(p) = "running"
      BY <2>2 DEF Refuse, Busy, End, Go, Outcome
    <3> QED  BY <1>1, <2>1, <3>1, EndReported
  <2>3. CASE Rollback(p)
    <3>1. End(p, "failing", "failed") /\ Outcome(p) = "running"
      BY <2>3 DEF Rollback, End, Go, Outcome
    <3> QED  BY <1>1, <2>1, <3>1, EndReported
  <2>4. CASE Exit(p)
    <3>1. End(p, "committed", "ok") /\ Outcome(p) = "applied"
      BY <2>4 DEF Exit, End, Go, Outcome
    <3> QED  BY <1>1, <2>1, <3>1, EndReported
  <2>5. ASSUME NEW end \in {"ok", "failed"}, ListEnds(p, end)
        PROVE  Promise!Report(p) \/ Promise!Kill(p)
    <3>1. End(p, "listing", end) /\ pc[p] = "listing"
      BY <2>5 DEF ListEnds, End, Go
    <3>2. Outcome(p) = "running" /\ cmd[p].verb = "list"
      BY <1>1, <3>1 DEF Outcome, FileInv, Progress
    <3> QED  BY <1>1, <2>1, <2>5, <3>1, <3>2, EndReported
  <2>6. CASE Kill(p)
    <3>1. End(p, pc[p], "killed")
      BY <2>6 DEF Kill
    <3>2. Outcome(p) \in {"running", "applied"}
      BY <2>6 DEF Kill, Outcome
    <3> QED  BY <1>1, <2>1, <3>1, <3>2, EndReported
  <2> QED  BY <1>3, <2>2, <2>3, <2>4, <2>5, <2>6
<1>4. ASSUME Begin(p) \/ Delete(p) \/ Insert(p) \/ CheckUser(p) \/ ChangeUser(p)
             \/ Script(p) \/ StatementFails(p) \/ List(p)
      PROVE  UNCHANGED Promise!vars
  <2>1. /\ UNCHANGED <<saved, cmd, loaded, lost>>
        /\ pc[p] \in Transacting \cup {"parsed"}
        /\ \E place \in Transacting \cup {"failing", "listing"} :
             pc' = [pc EXCEPT ![p] = place]
    BY <1>4 DEF Begin, Delete, Insert, CheckUser, ChangeUser, Script,
                StatementFails, List, Change, Go, file, spey, Transacting
  <2> QED  BY <1>1, <2>1, StillRunning
<1>5. Commit(p) => Promise!Apply(p)
  BY <1>1, CommitApplies
<1> QED  BY <1>2, <1>3, <1>4, <1>5 DEF Invocation, Promise!Next

(* Every step of spey is one of Tables or a stutter.                       *)
LEMMA SpeyKept ==
  ASSUME Inv, NEW s \in Spey,
         Reload(s) \/ (\E n \in Counter \cup Missing : Counts(s, n)) \/ Process(s)
  PROVE  [Promise!Next]_(Promise!vars)
<1>1. TypeOK /\ LockInv /\ FileInv
  BY DEF Inv
<1>2. ASSUME Reload(s) \/ (\E n \in Counter \cup Missing : Counts(s, n)) \/ RaiseFails(s)
      PROVE  UNCHANGED Promise!vars
  <2>1. UNCHANGED <<saved, pc, cmd, loaded, lost>>
    BY <1>2 DEF Reload, Counts, RaiseFails, file, ctl
  <2>2. Status' = Status
    BY <2>1 DEF Status, Outcome
  <2> QED  BY <2>1, <2>2 DEF Promise!vars, Status
<1>3. ASSUME Get(s) \/ GetFails(s)
      PROVE  Promise!Load(s, reading[s]) /\ reading[s] \in Key
  <2>1. UNCHANGED <<saved, pc, cmd>>
    BY <1>3 DEF Get, GetFails, Loaded, file, ctl
  <2>2. Status' = Status
    BY <2>1 DEF Status, Outcome
  <2>3. reading[s] \in Key
    BY <1>1, <1>3 DEF Get, GetFails, TypeOK, Key
  <2>4. CASE Get(s)
    <3>1. disk = saved
      BY <1>1, <2>4 DEF Get, MayRead, FileInv, JournalInv
    <3>2. /\ loaded' = [loaded EXCEPT ![s][reading[s]] = saved.settings[reading[s]]]
          /\ lost' = lost \ {<<s, reading[s]>>}
      BY <2>4, <3>1 DEF Get, Loaded
    <3> QED  BY <2>1, <2>2, <2>3, <3>2 DEF Promise!Load, Status
  <2>5. CASE GetFails(s)
    <3>1. /\ loaded' = [loaded EXCEPT ![s][reading[s]] = Unset]
          /\ lost' = lost \cup {<<s, reading[s]>>}
      BY <2>5 DEF GetFails, Loaded
    <3> QED  BY <2>1, <2>2, <2>3, <3>1 DEF Promise!Load, Status
  <2> QED  BY <1>3, <2>4, <2>5
<1>4. ASSUME Raise(s)
      PROVE  UNCHANGED Promise!vars \/ \E n \in Counter : Promise!Count(n)
  <2>1. /\ disk = saved /\ saved' = disk' /\ disk.schema = "present"
        /\ UNCHANGED <<pc, cmd, loaded, lost>>
    BY <1>1, <1>4 DEF Raise, MayWrite, FileInv, JournalInv, ctl
  <2>2. Status' = Status
    BY <2>1 DEF Status, Outcome
  <2>3. UNCHANGED <<saved.schema, saved.settings, saved.rows, saved.users>>
    BY <1>1, <1>4, <2>1, RaiseFields
  <2>4. RowsSeen' = RowsSeen /\ UsersSeen' = UsersSeen
    BY <2>3 DEF RowsSeen, UsersSeen
  <2>5. CASE counting[s] \in Counter
    <3>1. saved'.stats = [saved.stats EXCEPT ![counting[s]] = @ + 1]
      BY <1>1, <1>4, <2>1, <2>5, RaiseFields
    <3>2. Promise!Count(counting[s])
      BY <2>1, <2>2, <2>3, <2>4, <3>1 DEF Promise!Count, Status, RowsSeen, UsersSeen
    <3> QED  BY <2>5, <3>2
  <2>6. CASE counting[s] \notin Counter
    <3>1. saved'.stats = saved.stats
      BY <1>1, <1>4, <2>1, <2>6, RaiseFields
    <3> QED
      BY <2>1, <2>2, <2>3, <2>4, <3>1 DEF Promise!vars, Status, RowsSeen, UsersSeen
  <2> QED  BY <2>5, <2>6
<1> QED  BY <1>2, <1>3, <1>4 DEF Process, Promise!Next

(* The tables start as Tables has them.                                    *)
LEMMA InitKept == Init => Promise!Init
<1> SUFFICES ASSUME Init PROVE Promise!Init  OBVIOUS
<1>1. saved \in {Blank, Fresh}
  BY DEF Init
<1>2. Status = [p \in Ctl |-> "idle"]
  BY DEF Init, Status, Outcome
<1>3. UsersSeen = {}
  BY <1>1, FreshFields DEF UsersSeen
<1>4. saved.schema = "present" => RowsSeen = {Loopback}
  <2>1. Loopback \in Row
    BY RowAssumption DEF Row, Loopback
  <2>2. saved.schema = "present" => saved.rows = [r \in Row |-> IF r = Loopback THEN 1 ELSE 0]
    BY <1>1, FreshFields
  <2> QED  BY <2>1, <2>2 DEF RowsSeen
<1>5. saved.schema = "absent" => RowsSeen = {}
  BY <1>1, FreshFields DEF RowsSeen
<1>6. saved.settings = [k \in Key |-> IF saved.schema = "present" THEN FirstSettings[k]
                                                                ELSE Unset]
  BY <1>1, FreshFields DEF FirstSettings
<1>7. cmd \in [Ctl -> Command]
  BY ContentType DEF Init
<1>8. saved.stats = [n \in Counter |-> 0] /\ saved.schema \in {"absent", "present"}
  BY <1>1, FreshFields
<1> QED
  BY <1>2, <1>3, <1>4, <1>5, <1>6, <1>7, <1>8
  DEF Init, Promise!Init, Status, RowsSeen, UsersSeen

LEMMA StepKept == Inv /\ [Next]_vars => [Promise!Next]_(Promise!vars)
<1> SUFFICES ASSUME Inv, [Next]_vars PROVE [Promise!Next]_(Promise!vars)  OBVIOUS
<1>1. CASE UNCHANGED vars
  BY <1>1 DEF vars, Promise!vars, Outcome
<1> QED  BY <1>1, CtlKept, SpeyKept DEF Next

(* Under kills, failing statements and any number of processes, a command  *)
(* of speyctl is atomic and reports success only if it took effect, and    *)
(* what spey loads has been committed: every behaviour of the database is  *)
(* one of Tables, as far as its safety goes (that commands end is checked).*)
THEOREM TablesKeptSafe == Spec => Promise!Init /\ [][Promise!Next]_(Promise!vars)
  BY AlwaysInv, InitKept, StepKept, PTL DEF Spec
=============================================================================
