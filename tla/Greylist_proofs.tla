--------------------------- MODULE Greylist_proofs ---------------------------
(***************************************************************************)
(* Proofs about Greylist, for any number of workers and triples, any       *)
(* settings and any stretch of time.  The quarantine is proved for both    *)
(* modes, the rest for daemon mode, where the argument rests on the lock:  *)
(* between the SELECT of an attempt and its UPDATE or INSERT nobody but    *)
(* speyctl touches the table, and what speyctl purges is not alive.        *)
(***************************************************************************)
EXTENDS Greylist, TLAPS

(* Before 2038 a time fits an int.                                         *)
BeforeOverflow == MaxTime <= IntMax

(* The types, and the bound under which SelectFound lets an attempt go on. *)
TypeInv ==
  /\ TypeOK
  /\ \A p \in Workers : w[p].pc = "update" => w[p].timesseen < MaxSeen

(* A triple was first refused no later than its rows, and what a worker    *)
(* has selected from them, say.                                            *)
QuarantineInv ==
  /\ \A r \in triples : firstRefused[r.triple] <= r.firstseen
  /\ \A p \in Workers :
       w[p].pc = "update" => firstRefused[w[p].triple] <= w[p].firstseen
  /\ QuarantineServed

(* The CPU lock.                                                           *)
OneAtATime ==
  \A p, q \in Workers : p # q /\ w[p].pc # "idle" => w[q].pc = "idle"

(* The row of a streak that is alive.                                      *)
Backs(r, t) ==
  /\ r.triple = t
  /\ r.firstseen = streak[t].first /\ r.lastseen = streak[t].last
  /\ streak[t].safe <= IF r.timesseen > 1 THEN ValidExpiry ELSE InvalidExpiry

StreakBacked == \A t \in Triples : Alive(t) => \E r \in triples : Backs(r, t)

(* What a worker carries from its SELECT to its UPDATE or INSERT.          *)
Carries(p) ==
  /\ w[p].pc = "insert" => Matching(w[p].triple) = {} /\ p \notin earned
  /\ w[p].pc = "update" =>
       /\ p \in earned => w[p].start - w[p].firstseen > Quarantine
       /\ Alive(w[p].triple) => 
            streak[w[p].triple].safe <= IF w[p].timesseen > 1 THEN ValidExpiry
                                                             ELSE InvalidExpiry
  /\ w[p].pc = "answered" /\ p \in earned => w[p].verdict = "Accepted"

DaemonInv ==
  daemon => OneAtATime /\ OneRowPerTriple /\ StreakBacked /\ \A p \in Workers : Carries(p)

-----------------------------------------------------------------------------
(* The idle worker is one.                                                 *)
LEMMA IdleWorkerType == IdleWorker \in Worker /\ IdleWorker.pc = "idle"
<1>1. (CHOOSE t \in Triples : TRUE) \in Triples  BY ModeAssumption
<1> QED  BY <1>1, TimeAssumption, MaxSeenAssumption DEF IdleWorker, Worker, Time

(* A step that replaces the locals of one worker keeps them typed.         *)
LEMMA StepType ==
  ASSUME TypeInv, NEW p \in Workers, NEW v \in Worker, Step(p, v),
         v.pc = "update" => v.timesseen < MaxSeen
  PROVE  /\ w' \in [Workers -> Worker]
         /\ \A q \in Workers : w'[q].pc = "update" => w'[q].timesseen < MaxSeen
         /\ now' \in Time /\ daemon' \in BOOLEAN
         /\ whitelist' \subseteq Triples /\ blacklist' \subseteq Triples
BY DEF TypeInv, TypeOK, Step, lists

(* The history stays typed when an attempt is refused or extends a streak. *)
LEMMA RefuseType ==
  ASSUME TypeInv, NEW p \in Workers, Refuse(p)
  PROVE  firstRefused' \in [Triples -> Epoch .. Never]
<1>1. w[p].triple \in Triples /\ w[p].start \in Epoch .. Never
  BY TimeAssumption DEF TypeInv, TypeOK, Worker, Time, Never
<1>2. Earlier(firstRefused[w[p].triple], w[p].start) \in Epoch .. Never
  BY <1>1 DEF Earlier, TypeInv, TypeOK
<1> QED  BY <1>1, <1>2 DEF Refuse, TypeInv, TypeOK

(* Likewise for the streak.                                                *)
LEMMA ExtendType ==
  ASSUME TypeInv, NEW p \in Workers, NEW e \in {InvalidExpiry, ValidExpiry},
         Extend(p, e)
  PROVE  streak' \in [Triples -> Streak] /\ earned' \subseteq Workers
<1> DEFINE t == w[p].triple
           s == [first |-> streak[t].first, last |-> w[p].start, safe |-> e]
<1>1. t \in Triples /\ w[p].start \in Epoch .. Never
  BY TimeAssumption DEF TypeInv, TypeOK, Worker, Time, Never
<1>2. NoStreak \in Streak  BY TimeAssumption DEF NoStreak, Streak, Never
<1>3. s \in Streak  BY <1>1 DEF Streak, TypeInv, TypeOK
<1>4. streak' = [streak EXCEPT ![t] = IF Alive(t) THEN s ELSE NoStreak] /\ earned' = earned
  BY DEF Extend
<1> HIDE DEF s, t
<1> QED  BY <1>2, <1>3, <1>4 DEF TypeInv, TypeOK

(* UPDATE keeps the rows typed.                                            *)
LEMMA UpdateRowsType ==
  ASSUME TypeInv, NEW p \in Workers, NEW n \in 1 .. MaxSeen, NEW time \in Time,
         UpdateRows(p, n, time)
  PROVE  triples' \subseteq Row
<1>1. triples \subseteq Row
  BY DEF TypeInv, TypeOK
<1>2. ASSUME NEW r \in triples
      PROVE  [r EXCEPT !.timesseen = n, !.lastseen = time] \in Row
  <2>1. r \in [triple : Triples, timesseen : 1 .. MaxSeen,
               firstseen : Time, lastseen : Time]
    BY <1>1 DEF Row
  <2> QED BY <2>1 DEF Row
<1>3. triples' = {r \in triples : r.triple # w[p].triple}
        \cup {[r EXCEPT !.timesseen = n, !.lastseen = time] :
               r \in {s \in triples : s.triple = w[p].triple}}
  BY DEF UpdateRows, Matching
<1> QED BY <1>1, <1>2, <1>3

(* TypeInv holds at the start.                                             *)
LEMMA InitType == Init => TypeInv
<1> SUFFICES ASSUME Init PROVE TypeInv  OBVIOUS
<1>1. NoStreak \in Streak  BY TimeAssumption DEF NoStreak, Streak, Never
<1> QED
  BY <1>1, IdleWorkerType, TimeAssumption, ModeAssumption
  DEF Init, TypeInv, TypeOK, Time, Never

(* Every step keeps TypeInv.                                               *)
LEMMA NextType == TypeInv /\ [Next]_vars => TypeInv'
<1> SUFFICES ASSUME TypeInv, [Next]_vars PROVE TypeInv'  OBVIOUS
<1>1. ASSUME NEW p \in Workers, NEW t \in Triples, CheckWhitelist(p, t) PROVE TypeInv'
  <2>1. /\ [w[p] EXCEPT !.pc = "listed", !.triple = t, !.start = now,
                        !.verdict = "Accepted"] \in Worker
        /\ [w[p] EXCEPT !.pc = "black", !.triple = t, !.start = now] \in Worker
    BY DEF Worker, TypeInv, TypeOK
  <2>2. PICK v \in Worker : v.pc # "update" /\ Step(p, v)
    <3>1. CASE t \in whitelist
      BY <1>1, <2>1, <3>1 DEF CheckWhitelist, Looked, TypeInv, TypeOK, Worker
    <3>2. CASE t \notin whitelist
      BY <1>1, <2>1, <3>2 DEF CheckWhitelist, Looked, TypeInv, TypeOK, Worker
    <3> QED  BY <3>1, <3>2
  <2>3. UNCHANGED <<triples, history>>  BY <1>1 DEF CheckWhitelist, Looked
  <2> QED  BY <2>2, <2>3, StepType DEF TypeInv, TypeOK, history
<1>2. ASSUME NEW p \in Workers, CheckBlacklist(p) PROVE TypeInv'
  <2>1. [w[p] EXCEPT !.pc = "listed", !.verdict = "BlackListed"] \in Worker
        /\ [w[p] EXCEPT !.pc = "select"] \in Worker
    BY DEF Worker, TypeInv, TypeOK
  <2>2. PICK v \in Worker : v.pc # "update" /\ Step(p, v)
    BY <1>2, <2>1 DEF CheckBlacklist, Worker, TypeInv, TypeOK
  <2>3. UNCHANGED <<triples, history>>  BY <1>2 DEF CheckBlacklist
  <2> QED  BY <2>2, <2>3, StepType DEF TypeInv, TypeOK, history
<1>3. ASSUME NEW p \in Workers, NEW r \in triples, SelectFound(p, r) PROVE TypeInv'
  <2> DEFINE v == [w[p] EXCEPT !.pc = "update",
                !.firstseen = GetInt(r.firstseen), !.timesseen = r.timesseen]
  <2>1. r.firstseen \in Nat /\ r.timesseen \in 1 .. MaxSeen
    BY TimeAssumption DEF TypeInv, TypeOK, Row, Time
  <2>2. GetInt(r.firstseen) \in Int  BY <2>1, TimeAssumption DEF GetInt
  <2>3. v \in Worker  BY <2>1, <2>2 DEF Worker, TypeInv, TypeOK
  <2>4. v.timesseen < MaxSeen
    BY <1>3 DEF SelectFound, TypeInv, TypeOK, Worker
  <2>5. Step(p, v) /\ Note(p) /\ UNCHANGED triples  BY <1>3 DEF SelectFound
  <2> HIDE DEF v
  <2>6. earned' \subseteq Workers /\ UNCHANGED <<firstRefused, streak>>
    BY <2>5 DEF Note, TypeInv, TypeOK
  <2> QED  BY <2>3, <2>4, <2>5, <2>6, StepType DEF TypeInv, TypeOK
<1>4. ASSUME NEW p \in Workers, SelectNone(p) PROVE TypeInv'
  <2> DEFINE v == [w[p] EXCEPT !.pc = "insert"]
  <2>1. v \in Worker /\ v.pc # "update"  BY DEF Worker, TypeInv, TypeOK
  <2>2. Step(p, v) /\ Note(p) /\ UNCHANGED triples  BY <1>4 DEF SelectNone
  <2> HIDE DEF v
  <2>3. earned' \subseteq Workers /\ UNCHANGED <<firstRefused, streak>>
    BY <2>2 DEF Note, TypeInv, TypeOK
  <2> QED  BY <2>1, <2>2, <2>3, StepType DEF TypeInv, TypeOK
<1>5. ASSUME NEW p \in Workers, NEW verdict \in {"Accepted", "GreyListed"},
             Answer(p, verdict)
      PROVE  /\ w' \in [Workers -> Worker]
             /\ \A q \in Workers : w'[q].pc = "update" => w'[q].timesseen < MaxSeen
             /\ now' \in Time /\ daemon' \in BOOLEAN
             /\ whitelist' \subseteq Triples /\ blacklist' \subseteq Triples
  <2>1. [w[p] EXCEPT !.pc = "answered", !.verdict = verdict] \in Worker
    BY DEF Worker, TypeInv, TypeOK
  <2>2. [w[p] EXCEPT !.pc = "answered", !.verdict = verdict].pc # "update"
    BY DEF Worker, TypeInv, TypeOK
  <2> QED  BY <1>5, <2>1, <2>2, StepType DEF Answer
<1>6. ASSUME NEW p \in Workers, Update(p) PROVE TypeInv'
  <2>1. /\ w[p].timesseen \in 1 .. MaxSeen /\ w[p].timesseen + 1 \in 1 .. MaxSeen
        /\ w[p].start \in Time /\ w[p].triple \in Triples
    BY <1>6, MaxSeenAssumption DEF Update, Worker, TypeInv, TypeOK
  <2>2. CASE Accept(p)
    <3>1. triples' \subseteq Row  BY <2>1, <2>2, UpdateRowsType DEF Accept
    <3>2. streak' \in [Triples -> Streak] /\ earned' \subseteq Workers
      BY <2>2, ExtendType DEF Accept
    <3> QED  BY <1>5, <2>2, <3>1, <3>2 DEF Accept, TypeInv, TypeOK
  <2>3. CASE RefuseAgain(p)
    <3>1. triples' \subseteq Row  BY <2>1, <2>3, UpdateRowsType DEF RefuseAgain
    <3>2. streak[w[p].triple].safe \in {InvalidExpiry, ValidExpiry}
      BY <2>1 DEF TypeInv, TypeOK, Streak
    <3>3. streak' \in [Triples -> Streak] /\ earned' \subseteq Workers
      BY <2>3, <3>2, ExtendType DEF RefuseAgain
    <3>4. firstRefused' \in [Triples -> Epoch .. Never] /\ Answer(p, "GreyListed")
      BY <2>3, RefuseType DEF RefuseAgain, Refuse
    <3> QED  BY <1>5, <3>1, <3>3, <3>4 DEF TypeInv, TypeOK
  <2> QED  BY <1>6, <2>2, <2>3 DEF Update
<1>7. ASSUME NEW p \in Workers, Insert(p) PROVE TypeInv'
  <2>1. /\ w[p].triple \in Triples /\ w[p].start \in Time
        /\ w[p].start \in Epoch .. Never
    BY TimeAssumption DEF Worker, TypeInv, TypeOK, Time, Never
  <2>2. NewRow(p, 1) \in Row  BY <2>1, MaxSeenAssumption DEF NewRow, Row
  <2>3. triples' \subseteq Row  BY <1>7, <2>2 DEF Insert, InsertRow, TypeInv, TypeOK
  <2>4. [first |-> w[p].start, last |-> w[p].start, safe |-> InvalidExpiry] \in Streak
    BY <2>1 DEF Streak
  <2>5. streak' \in [Triples -> Streak] /\ earned' = earned
    BY <1>7, <2>4 DEF Insert, InsertRow, TypeInv, TypeOK
  <2>6. firstRefused' \in [Triples -> Epoch .. Never] /\ Answer(p, "GreyListed")
    BY <1>7, RefuseType DEF Insert, InsertRow, Refuse
  <2> QED  BY <1>5, <2>3, <2>5, <2>6 DEF TypeInv, TypeOK
<1>8. ASSUME NEW p \in Workers, Finish(p) PROVE TypeInv'
  BY <1>8, IdleWorkerType, StepType DEF Finish, TypeInv, TypeOK
<1>9. CASE Purge  BY <1>9 DEF Purge, TypeInv, TypeOK, lists, history
<1>10. CASE EditLists  BY <1>10 DEF EditLists, TypeInv, TypeOK, history
<1>11. CASE Tick
  BY <1>11, TimeAssumption DEF Tick, TypeInv, TypeOK, Time, lists, history
<1>12. CASE UNCHANGED vars  BY <1>12 DEF vars, TypeInv, TypeOK
<1> QED
  BY <1>1, <1>2, <1>3, <1>4, <1>6, <1>7, <1>8, <1>9, <1>10, <1>11, <1>12
  DEF Next, Attempt, Return, Abort

(* TypeInv holds for ever.                                                 *)
LEMMA AlwaysTyped == Spec => []TypeInv
BY InitType, NextType, PTL DEF Spec

(* The greylister's variables keep their types.                            *)
THEOREM GreylistTypes == Spec => []TypeOK
<1>1. TypeInv => TypeOK  BY DEF TypeInv
<1> QED  BY AlwaysTyped, <1>1, PTL

-----------------------------------------------------------------------------
(* The quarantine.                                                         *)

(* A time that fits an int is read back as it was stored.                  *)
LEMMA GetIntExact ==
  ASSUME BeforeOverflow, NEW n \in Time
  PROVE  GetInt(n) = n
BY TimeAssumption DEF BeforeOverflow, Time, GetInt

(* A step changes the locals of the worker that takes it, and no others.   *)
LEMMA StepLocals ==
  ASSUME TypeInv, NEW p \in Workers, NEW v, Step(p, v)
  PROVE  /\ w'[p] = v
         /\ \A q \in Workers : q # p => w'[q] = w[q]
BY DEF Step, TypeInv, TypeOK

(* The whitelist is looked at for the triple and at the time of the call.  *)
LEMMA LookedLocals ==
  ASSUME TypeInv, NEW p \in Workers, NEW t \in Triples, Looked(p, t)
  PROVE  /\ w'[p].pc \in {"listed", "black"}
         /\ \A q \in Workers : q # p => w'[q] = w[q]
         /\ UNCHANGED <<now, lists, triples, history>>
<1> DEFINE hit == [w[p] EXCEPT !.pc = "listed", !.triple = t, !.start = now,
                                !.verdict = "Accepted"]
           miss == [w[p] EXCEPT !.pc = "black", !.triple = t, !.start = now]
<1>1. hit.pc = "listed" /\ miss.pc = "black"  BY DEF TypeInv, TypeOK, Worker
<1>2. /\ IF t \in whitelist THEN Step(p, hit) ELSE Step(p, miss)
      /\ UNCHANGED <<triples, history>>
  BY DEF Looked
<1> HIDE DEF hit, miss
<1>3. CASE t \in whitelist  BY <1>1, <1>2, <1>3, StepLocals DEF Step
<1>4. CASE t \notin whitelist  BY <1>1, <1>2, <1>4, StepLocals DEF Step
<1> QED  BY <1>3, <1>4

(* Likewise for the blacklist.                                             *)
LEMMA CheckedLocals ==
  ASSUME TypeInv, NEW p \in Workers, CheckBlacklist(p)
  PROVE  /\ w'[p].pc \in {"listed", "select"}
         /\ \A q \in Workers : q # p => w'[q] = w[q]
         /\ UNCHANGED <<now, lists, triples, history>>
<1> DEFINE hit == [w[p] EXCEPT !.pc = "listed", !.verdict = "BlackListed"]
           miss == [w[p] EXCEPT !.pc = "select"]
<1>1. hit.pc = "listed" /\ miss.pc = "select"  BY DEF TypeInv, TypeOK, Worker
<1>2. /\ IF w[p].triple \in blacklist THEN Step(p, hit) ELSE Step(p, miss)
      /\ UNCHANGED <<triples, history>>
  BY DEF CheckBlacklist
<1> HIDE DEF hit, miss
<1>3. CASE w[p].triple \in blacklist  BY <1>1, <1>2, <1>3, StepLocals DEF Step
<1>4. CASE w[p].triple \notin blacklist  BY <1>1, <1>2, <1>4, StepLocals DEF Step
<1> QED  BY <1>3, <1>4

(* An answer is for the triple that was asked about.                       *)
LEMMA AnswerLocals ==
  ASSUME TypeInv, NEW p \in Workers, NEW verdict, Answer(p, verdict)
  PROVE  /\ w'[p].pc = "answered" /\ w'[p].verdict = verdict
         /\ w'[p].triple = w[p].triple /\ w'[p].start = w[p].start
         /\ \A q \in Workers : q # p => w'[q] = w[q]
<1>1. /\ w'[p] = [w[p] EXCEPT !.pc = "answered", !.verdict = verdict]
      /\ \A q \in Workers : q # p => w'[q] = w[q]
  BY StepLocals DEF Answer
<1> QED  BY <1>1 DEF TypeInv, TypeOK, Worker

(* A refusal moves firstRefused only backwards, to the refused attempt.    *)
LEMMA RefuseEarlier ==
  ASSUME TypeInv, NEW p \in Workers, Refuse(p)
  PROVE  /\ \A t \in Triples : firstRefused'[t] <= firstRefused[t]
         /\ firstRefused'[w[p].triple] <= w[p].start
         /\ \A t \in Triples : firstRefused'[t] \in Int
BY TimeAssumption DEF Refuse, Earlier, TypeInv, TypeOK, Worker, Time, Never

(* Steps that leave the rows, the history and what the others know alone.  *)
LEMMA QuietQuarantine ==
  ASSUME TypeInv, QuarantineInv, NEW p \in Workers, firstRefused' = firstRefused,
         triples' = triples, \A q \in Workers : q # p => w'[q] = w[q],
         w'[p].pc \notin {"update", "answered"}
  PROVE  QuarantineInv'
BY DEF QuarantineInv, QuarantineServed

(* Every step keeps QuarantineInv.                                         *)
LEMMA QuarantineStep ==
  ASSUME BeforeOverflow, TypeInv, QuarantineInv, [Next]_vars
  PROVE  QuarantineInv'
<1>1. ASSUME NEW p \in Workers, NEW t \in Triples, CheckWhitelist(p, t)
      PROVE  QuarantineInv'
  BY <1>1, LookedLocals, QuietQuarantine DEF CheckWhitelist, history
<1>2. ASSUME NEW p \in Workers, CheckBlacklist(p) PROVE QuarantineInv'
  BY <1>2, CheckedLocals, QuietQuarantine DEF history
<1>3. ASSUME NEW p \in Workers, NEW r \in triples, SelectFound(p, r)
      PROVE  QuarantineInv'
  <2> DEFINE v == [w[p] EXCEPT !.pc = "update",
                !.firstseen = GetInt(r.firstseen), !.timesseen = r.timesseen]
  <2>1. GetInt(r.firstseen) = r.firstseen
    BY GetIntExact DEF TypeInv, TypeOK, Row
  <2>2. Step(p, v) /\ triples' = triples /\ firstRefused' = firstRefused
    BY <1>3 DEF SelectFound, Note
  <2>3. v.pc = "update" /\ v.firstseen = r.firstseen /\ v.triple = r.triple
    BY <1>3, <2>1 DEF SelectFound, TypeInv, TypeOK, Worker
  <2> HIDE DEF v
  <2>4. w'[p] = v /\ \A q \in Workers : q # p => w'[q] = w[q]
    BY <2>2, StepLocals
  <2> QED  BY <2>2, <2>3, <2>4 DEF QuarantineInv, QuarantineServed
<1>4. ASSUME NEW p \in Workers, SelectNone(p) PROVE QuarantineInv'
  <2>1. PICK v : Step(p, v) /\ v.pc = "insert"
    BY <1>4 DEF SelectNone, TypeInv, TypeOK, Worker
  <2>2. triples' = triples /\ firstRefused' = firstRefused
    BY <1>4 DEF SelectNone, Note
  <2> QED  BY <2>1, <2>2, StepLocals, QuietQuarantine
<1>5. ASSUME NEW p \in Workers, Update(p) PROVE QuarantineInv'
  <2> DEFINE t == w[p].triple
  <2>1. /\ t \in Triples /\ w[p].start \in Int /\ w[p].firstseen \in Int
        /\ firstRefused \in [Triples -> Int] /\ Quarantine \in Int
    BY TimeAssumption, SettingAssumption
    DEF TypeInv, TypeOK, Worker, Time, Never
  <2>2. \A r \in triples : r.triple \in Triples /\ r.firstseen \in Int
    BY TimeAssumption DEF TypeInv, TypeOK, Row, Time
  <2>3. \A q \in Workers : w[q].triple \in Triples /\ w[q].firstseen \in Int
                           /\ w[q].start \in Int
    BY TimeAssumption DEF TypeInv, TypeOK, Worker, Time
  <2>4. firstRefused[t] <= w[p].firstseen  BY <1>5 DEF Update, QuarantineInv
  <2>5. ASSUME NEW n, UpdateRows(p, n, w[p].start)
        PROVE  \A r \in triples' : \E s \in triples :
                 r.triple = s.triple /\ r.firstseen = s.firstseen
    <3>1. triples \subseteq Row
      BY DEF TypeInv, TypeOK
    <3>2. ASSUME NEW s \in triples
          PROVE  LET r == [s EXCEPT !.timesseen = n, !.lastseen = w[p].start]
                 IN  r.triple = s.triple /\ r.firstseen = s.firstseen
      BY <3>1 DEF Row
    <3>3. triples' = {s \in triples : s.triple # w[p].triple}
            \cup {[s EXCEPT !.timesseen = n, !.lastseen = w[p].start] :
                   s \in Matching(w[p].triple)}
      BY <2>5 DEF UpdateRows
    <3> QED BY <3>2, <3>3 DEF Matching
  <2>6. CASE /\ w[p].start - w[p].firstseen > Quarantine
             /\ Accept(p)
    <3>1. Answer(p, "Accepted") /\ firstRefused' = firstRefused
      BY <2>6 DEF Accept
    <3>2. \A r \in triples' : \E s \in triples :
                 r.triple = s.triple /\ r.firstseen = s.firstseen
      BY <2>5, <2>6 DEF Accept
    <3>3. \A r \in triples' : firstRefused'[r.triple] <= r.firstseen
      BY <3>1, <3>2 DEF QuarantineInv
    <3>4. w[p].start - firstRefused[t] > Quarantine
      BY <2>1, <2>4, <2>6
    <3> QED
      BY <3>1, <3>3, <3>4, AnswerLocals DEF QuarantineInv, QuarantineServed
  <2>7. CASE RefuseAgain(p)
    <3>1. Refuse(p) /\ Answer(p, "GreyListed")  BY <2>7 DEF RefuseAgain, Refuse
    <3>2. \A r \in triples' : \E s \in triples :
                 r.triple = s.triple /\ r.firstseen = s.firstseen
      BY <2>5, <2>7 DEF RefuseAgain
    <3>3. \A u \in Triples : firstRefused'[u] <= firstRefused[u]
                             /\ firstRefused'[u] \in Int
      BY <3>1, RefuseEarlier
    <3>4. \A r \in triples' : firstRefused'[r.triple] <= r.firstseen
      <4> SUFFICES ASSUME NEW r \in triples' 
                   PROVE  firstRefused'[r.triple] <= r.firstseen
        OBVIOUS
      <4>1. PICK s \in triples : r.triple = s.triple /\ r.firstseen = s.firstseen
        BY <3>2
      <4>2. firstRefused[s.triple] <= s.firstseen  BY DEF QuarantineInv
      <4> QED  BY <2>1, <2>2, <3>3, <4>1, <4>2
    <3>5. ASSUME NEW q \in Workers, q # p, w'[q].pc = "update"
          PROVE  firstRefused'[w'[q].triple] <= w'[q].firstseen
      <4>1. w'[q] = w[q]  BY <3>1, <3>5, AnswerLocals
      <4>2. firstRefused[w[q].triple] <= w[q].firstseen
        BY <3>5, <4>1 DEF QuarantineInv
      <4> QED  BY <2>1, <2>3, <3>3, <4>1, <4>2
    <3>6. ASSUME NEW q \in Workers, q # p, w'[q].pc = "answered",
                 w'[q].verdict = "Accepted"
          PROVE  w'[q].start - firstRefused'[w'[q].triple] > Quarantine
      <4>1. w'[q] = w[q]  BY <3>1, <3>6, AnswerLocals
      <4>2. w[q].start - firstRefused[w[q].triple] > Quarantine
        BY <3>6, <4>1 DEF QuarantineInv, QuarantineServed
      <4> QED  BY <2>1, <2>3, <3>3, <4>1, <4>2
    <3>7. w'[p].pc = "answered" /\ w'[p].verdict = "GreyListed"
      BY <3>1, AnswerLocals
    <3> QED  BY <3>4, <3>5, <3>6, <3>7 DEF QuarantineInv, QuarantineServed
  <2> QED  BY <1>5, <2>6, <2>7 DEF Update
<1>6. ASSUME NEW p \in Workers, Insert(p) PROVE QuarantineInv'
  <2> DEFINE t == w[p].triple
  <2>1. /\ t \in Triples /\ w[p].start \in Int
        /\ firstRefused \in [Triples -> Int] /\ Quarantine \in Int
    BY TimeAssumption, SettingAssumption
    DEF TypeInv, TypeOK, Worker, Time, Never
  <2>2. \A r \in triples : r.triple \in Triples /\ r.firstseen \in Int
    BY TimeAssumption DEF TypeInv, TypeOK, Row, Time
  <2>3. \A q \in Workers : w[q].triple \in Triples /\ w[q].firstseen \in Int
                           /\ w[q].start \in Int
    BY TimeAssumption DEF TypeInv, TypeOK, Worker, Time
  <2>4. /\ Refuse(p) /\ Answer(p, "GreyListed")
        /\ triples' = triples \cup {NewRow(p, 1)}
    BY <1>6 DEF Insert, InsertRow, Refuse
  <2>5. \A u \in Triples : firstRefused'[u] <= firstRefused[u]
                           /\ firstRefused'[u] \in Int
    BY <2>4, RefuseEarlier
  <2>6. \A r \in triples' : firstRefused'[r.triple] <= r.firstseen
    <3>1. ASSUME NEW r \in triples PROVE firstRefused'[r.triple] <= r.firstseen
      <4>1. firstRefused[r.triple] <= r.firstseen  BY DEF QuarantineInv
      <4> QED  BY <2>1, <2>2, <2>5, <4>1
    <3>2. NewRow(p, 1).triple = t /\ NewRow(p, 1).firstseen = w[p].start
      BY DEF NewRow
    <3>3. firstRefused'[t] <= w[p].start  BY <2>4, RefuseEarlier
    <3> QED  BY <2>4, <3>1, <3>2, <3>3
  <2>7. ASSUME NEW q \in Workers, q # p, w'[q].pc = "update"
        PROVE  firstRefused'[w'[q].triple] <= w'[q].firstseen
    <3>1. w'[q] = w[q]  BY <2>4, <2>7, AnswerLocals
    <3>2. firstRefused[w[q].triple] <= w[q].firstseen
      BY <2>7, <3>1 DEF QuarantineInv
    <3> QED  BY <2>1, <2>3, <2>5, <3>1, <3>2
  <2>8. ASSUME NEW q \in Workers, q # p, w'[q].pc = "answered",
               w'[q].verdict = "Accepted"
        PROVE  w'[q].start - firstRefused'[w'[q].triple] > Quarantine
    <3>1. w'[q] = w[q]  BY <2>4, <2>8, AnswerLocals
    <3>2. w[q].start - firstRefused[w[q].triple] > Quarantine
      BY <2>8, <3>1 DEF QuarantineInv, QuarantineServed
    <3> QED  BY <2>1, <2>3, <2>5, <3>1, <3>2
  <2>9. w'[p].pc = "answered" /\ w'[p].verdict = "GreyListed"
    BY <2>4, AnswerLocals
  <2> QED  BY <2>6, <2>7, <2>8, <2>9 DEF QuarantineInv, QuarantineServed
<1>7. ASSUME NEW p \in Workers, Finish(p) PROVE QuarantineInv'
  BY <1>7, IdleWorkerType, StepLocals, QuietQuarantine DEF Finish
<1>8. CASE Purge
  BY <1>8 DEF Purge, QuarantineInv, QuarantineServed, lists, history
<1>9. CASE EditLists \/ Tick \/ UNCHANGED vars
  BY <1>9 DEF EditLists, Tick, vars, QuarantineInv, QuarantineServed, lists, history
<1> QED
  BY <1>1, <1>2, <1>3, <1>4, <1>5, <1>6, <1>7, <1>8, <1>9
  DEF Next, Attempt, Return, Abort

(* The quarantine in both modes, as long as a time fits an int: what the   *)
(* greylister accepts it has refused more than quarantine-time before.     *)
THEOREM QuarantineAlwaysServed ==
  ASSUME BeforeOverflow PROVE Spec => []QuarantineServed
<1>1. Init => QuarantineInv
  BY IdleWorkerType DEF Init, QuarantineInv, QuarantineServed
<1>2. TypeInv /\ QuarantineInv /\ [Next]_vars => QuarantineInv'
  BY QuarantineStep
<1>3. QuarantineInv => QuarantineServed  BY DEF QuarantineInv
<1> QED  BY <1>1, <1>2, <1>3, AlwaysTyped, PTL DEF Spec

-----------------------------------------------------------------------------
(* Daemon mode.                                                            *)

Alone(p) == \A q \in Workers : q # p => w[q].pc = "idle"

(* Whoever is in the middle of an attempt is alone.                        *)
LEMMA LockHeld ==
  ASSUME OneAtATime, NEW p \in Workers, w[p].pc # "idle"
  PROVE  Alone(p)
BY DEF OneAtATime, Alone

(* A step of a worker that is alone leaves it alone, and nobody else       *)
(* carries anything.                                                       *)
LEMMA AloneStep ==
  ASSUME NEW p \in Workers, Alone(p), \A q \in Workers : q # p => w'[q] = w[q],
         Carries(p)'
  PROVE  OneAtATime' /\ \A q \in Workers : Carries(q)'
BY DEF Alone, OneAtATime, Carries

(* A step that touches neither rows nor streaks nor the clock keeps them   *)
(* in agreement.                                                           *)
LEMMA SameRows ==
  ASSUME OneRowPerTriple, StreakBacked,
         UNCHANGED <<now, daemon, triples, streak>>
  PROVE  OneRowPerTriple' /\ StreakBacked'
BY DEF OneRowPerTriple, StreakBacked, Alive, Backs

(* After its UPDATE a triple still has one row, with the new values.       *)
LEMMA UpdatedRows ==
  ASSUME TypeInv, daemon, OneRowPerTriple, NEW p \in Workers, NEW n \in Int,
         UpdateRows(p, n, w[p].start), daemon' = daemon
  PROVE  /\ OneRowPerTriple'
         /\ \A r \in triples : r.triple # w[p].triple => r \in triples'
         /\ \A r \in Matching(w[p].triple) : \E s \in triples' :
              /\ s.triple = r.triple /\ s.firstseen = r.firstseen
              /\ s.timesseen = n /\ s.lastseen = w[p].start
<1> DEFINE t == w[p].triple
           New(r) == [r EXCEPT !.timesseen = n, !.lastseen = w[p].start]
<1>1. triples' = {r \in triples : r.triple # t} \cup {New(r) : r \in Matching(t)}
  BY DEF UpdateRows
<1>2. \A r \in Matching(t) :
        /\ r \in triples /\ r.triple = t /\ New(r).triple = r.triple
        /\ New(r).firstseen = r.firstseen
        /\ New(r).timesseen = n /\ New(r).lastseen = w[p].start
  BY DEF Matching, TypeInv, TypeOK, Row
<1>3. \A r, s \in triples : r.triple = s.triple => r = s  BY DEF OneRowPerTriple
<1> HIDE DEF New, t
<1>4. \A r, s \in triples' : r.triple = s.triple => r = s
  <2> SUFFICES ASSUME NEW r \in triples', NEW s \in triples', r.triple = s.triple
               PROVE  r = s
    OBVIOUS
  <2>1. CASE r.triple # t  BY <1>1, <1>2, <1>3, <2>1
  <2>2. CASE r.triple = t
    <3>1. PICK a \in Matching(t) : r = New(a)  BY <1>1, <2>2
    <3>2. PICK b \in Matching(t) : s = New(b)  BY <1>1, <2>2
    <3>3. a = b  BY <1>2, <1>3
    <3> QED  BY <3>1, <3>2, <3>3
  <2> QED  BY <2>1, <2>2
<1>5. \A r \in triples : r.triple # t => r \in triples'  BY <1>1
<1>6. \A r \in Matching(t) : New(r) \in triples'  BY <1>1
<1> QED  BY <1>2, <1>4, <1>5, <1>6 DEF OneRowPerTriple, t

(* A recorded attempt and its row agree.                                   *)
LEMMA ExtendBacked ==
  ASSUME TypeInv, daemon, OneRowPerTriple, StreakBacked, NEW p \in Workers,
         NEW n \in Int, NEW e \in {InvalidExpiry, ValidExpiry},
         UpdateRows(p, n, w[p].start), Extend(p, e), daemon' = daemon, now' = now,
         Alive(w[p].triple) => e <= IF n > 1 THEN ValidExpiry ELSE InvalidExpiry
  PROVE  StreakBacked'
<1> DEFINE t == w[p].triple
<1>1. t \in Triples  BY DEF TypeInv, TypeOK, Worker
<1> SUFFICES ASSUME NEW u \in Triples, Alive(u)'
             PROVE  \E r \in triples' : Backs(r, u)'
  BY DEF StreakBacked
<1>2. CASE u # t
  <2>1. streak'[u] = streak[u]  BY <1>2 DEF Extend, TypeInv, TypeOK
  <2>2. Alive(u)  BY <2>1 DEF Alive
  <2>3. PICK r \in triples : Backs(r, u)  BY <2>2 DEF StreakBacked
  <2>4. r \in triples'  BY <1>2, <2>3, UpdatedRows DEF Backs
  <2> QED  BY <2>1, <2>3, <2>4 DEF Backs
<1>3. CASE u = t
  <2>1. streak'[t] = IF Alive(t) THEN [first |-> streak[t].first,
                                       last |-> w[p].start, safe |-> e]
                     ELSE NoStreak
    BY <1>1 DEF Extend, TypeInv, TypeOK
  <2>2. Alive(t)
    <3>1. streak'[t].last # Never  BY <1>3 DEF Alive
    <3> QED  BY <2>1, <3>1 DEF NoStreak
  <2>3. /\ streak'[t].first = streak[t].first
        /\ streak'[t].last = w[p].start /\ streak'[t].safe = e
    BY <2>1, <2>2
  <2>4. PICK r \in triples : Backs(r, t)  BY <1>1, <2>2 DEF StreakBacked
  <2>5. r \in Matching(t)  BY <2>4 DEF Backs, Matching
  <2>6. PICK s \in triples' :
          /\ s.triple = r.triple /\ s.firstseen = r.firstseen
          /\ s.timesseen = n /\ s.lastseen = w[p].start
    BY <2>5, UpdatedRows
  <2> QED  BY <1>3, <2>2, <2>3, <2>4, <2>6 DEF Backs
<1> QED  BY <1>2, <1>3

(* Every step keeps DaemonInv.                                             *)
LEMMA DaemonStep ==
  ASSUME BeforeOverflow, TypeInv, DaemonInv, [Next]_vars
  PROVE  DaemonInv'
<1> SUFFICES ASSUME daemon'
             PROVE  /\ OneAtATime' /\ OneRowPerTriple' /\ StreakBacked'
                    /\ \A p \in Workers : Carries(p)'
  BY DEF DaemonInv
<1>d. daemon /\ daemon' = daemon
  BY DEF Next, Attempt, CheckWhitelist, Looked, CheckBlacklist, SelectFound,
         SelectNone, Update, Accept, RefuseAgain, Refuse, Answer, Insert,
         InsertRow, Return, Abort, Finish, Purge, EditLists, Tick, Step, lists, vars
<1>i. /\ OneAtATime /\ OneRowPerTriple /\ StreakBacked
      /\ \A p \in Workers : Carries(p)
  BY <1>d DEF DaemonInv
<1>1. ASSUME NEW p \in Workers, NEW t \in Triples, CheckWhitelist(p, t)
      PROVE  /\ OneAtATime' /\ OneRowPerTriple' /\ StreakBacked'
             /\ \A q \in Workers : Carries(q)'
  <2>1. Alone(p)  BY <1>1, <1>d DEF CheckWhitelist, Alone
  <2>2. /\ w'[p].pc \in {"listed", "black"}
        /\ \A q \in Workers : q # p => w'[q] = w[q]
        /\ UNCHANGED <<now, lists, triples, history>>
    BY <1>1, LookedLocals DEF CheckWhitelist
  <2>3. Carries(p)'  BY <2>2 DEF Carries
  <2> QED  BY <1>d, <1>i, <2>1, <2>2, <2>3, AloneStep, SameRows DEF history
<1>2. ASSUME NEW p \in Workers, CheckBlacklist(p)
      PROVE  /\ OneAtATime' /\ OneRowPerTriple' /\ StreakBacked'
             /\ \A q \in Workers : Carries(q)'
  <2>1. Alone(p)  BY <1>2, <1>i, LockHeld DEF CheckBlacklist
  <2>2. /\ w'[p].pc \in {"listed", "select"}
        /\ \A q \in Workers : q # p => w'[q] = w[q]
        /\ UNCHANGED <<now, lists, triples, history>>
    BY <1>2, CheckedLocals
  <2>3. Carries(p)'  BY <2>2 DEF Carries
  <2> QED  BY <1>d, <1>i, <2>1, <2>2, <2>3, AloneStep, SameRows DEF history
<1>3. ASSUME NEW p \in Workers, NEW r \in triples, SelectFound(p, r)
      PROVE  /\ OneAtATime' /\ OneRowPerTriple' /\ StreakBacked'
             /\ \A q \in Workers : Carries(q)'
  <2> DEFINE v == [w[p] EXCEPT !.pc = "update",
                !.firstseen = GetInt(r.firstseen), !.timesseen = r.timesseen]
             t == w[p].triple
  <2>1. Alone(p)  BY <1>3, <1>i, LockHeld DEF SelectFound
  <2>2. GetInt(r.firstseen) = r.firstseen
    BY GetIntExact DEF TypeInv, TypeOK, Row
  <2>3. Step(p, v) /\ Note(p) /\ triples' = triples /\ r.triple = t
    BY <1>3 DEF SelectFound
  <2>4. /\ v.pc = "update" /\ v.firstseen = r.firstseen /\ v.triple = t
        /\ v.timesseen = r.timesseen /\ v.start = w[p].start
    BY <2>2 DEF TypeInv, TypeOK, Worker
  <2> HIDE DEF v, t
  <2>5. w'[p] = v /\ (\A q \in Workers : q # p => w'[q] = w[q]) /\ now' = now
    BY <2>3, StepLocals DEF Step
  <2>6. streak' = streak /\ (p \in earned' =>
           Alive(t) /\ w[p].start - streak[t].first > Quarantine)
    BY <2>3 DEF Note, t
  <2>7. Alive(t) => Backs(r, t)
    <3>1. t \in Triples  BY DEF t, TypeInv, TypeOK, Worker
    <3>2. ASSUME Alive(t) PROVE Backs(r, t)
      <4>1. PICK s \in triples : Backs(s, t)  BY <1>i, <3>1, <3>2 DEF StreakBacked
      <4>2. s = r  BY <1>d, <1>i, <2>3, <4>1 DEF Backs, OneRowPerTriple
      <4> QED  BY <4>1, <4>2
    <3> QED  BY <3>2
  <2>8. p \in earned' => v.start - v.firstseen > Quarantine
    BY <2>4, <2>6, <2>7 DEF Backs
  <2>9. w'[p].triple = t  BY <2>4, <2>5
  <2>10. Alive(w[p].triple)' => Alive(t)  BY <2>5, <2>6, <2>9 DEF Alive
  <2>11. Alive(w[p].triple)' =>
           streak'[w'[p].triple].safe <= IF w'[p].timesseen > 1 THEN ValidExpiry
                                                                ELSE InvalidExpiry
    BY <2>4, <2>5, <2>6, <2>7, <2>9, <2>10 DEF Backs
  <2>12. Carries(p)'  BY <2>4, <2>5, <2>8, <2>11 DEF Carries
  <2> QED  BY <1>d, <1>i, <2>1, <2>3, <2>5, <2>6, <2>12, AloneStep, SameRows
<1>4. ASSUME NEW p \in Workers, SelectNone(p)
      PROVE  /\ OneAtATime' /\ OneRowPerTriple' /\ StreakBacked'
             /\ \A q \in Workers : Carries(q)'
  <2> DEFINE v == [w[p] EXCEPT !.pc = "insert"]
             t == w[p].triple
  <2>1. Alone(p)  BY <1>4, <1>i, LockHeld DEF SelectNone
  <2>2. Step(p, v) /\ Note(p) /\ triples' = triples /\ Matching(t) = {}
    BY <1>4 DEF SelectNone
  <2>3. v.pc = "insert" /\ v.triple = t  BY DEF TypeInv, TypeOK, Worker
  <2>4. t \in Triples  BY DEF TypeInv, TypeOK, Worker
  <2> HIDE DEF v, t
  <2>5. w'[p] = v /\ (\A q \in Workers : q # p => w'[q] = w[q]) /\ now' = now
    BY <2>2, StepLocals DEF Step
  <2>6. streak' = streak /\ (p \in earned' => Alive(t))  BY <2>2 DEF Note, t
  <2>7. ~Alive(t)  BY <1>i, <2>2, <2>4 DEF StreakBacked, Backs, Matching
  <2>8. Matching(t)' = {}  BY <2>2, <2>3, <2>5 DEF Matching, t
  <2>9. Carries(p)'
    <3>1. Matching(w[p].triple)' = {}  BY <2>2, <2>3, <2>5 DEF Matching
    <3> QED  BY <2>3, <2>5, <2>6, <2>7, <3>1 DEF Carries
  <2> QED  BY <1>d, <1>i, <2>1, <2>2, <2>5, <2>6, <2>9, AloneStep, SameRows
<1>5. ASSUME NEW p \in Workers, Update(p)
      PROVE  /\ OneAtATime' /\ OneRowPerTriple' /\ StreakBacked'
             /\ \A q \in Workers : Carries(q)'
  <2>1. Alone(p) /\ Carries(p) /\ w[p].pc = "update"
    BY <1>5, <1>i, LockHeld DEF Update
  <2>2. w[p].timesseen \in 1 .. MaxSeen /\ w[p].triple \in Triples
    BY DEF TypeInv, TypeOK, Worker
  <2>3. CASE w[p].start - w[p].firstseen > Quarantine
    <3>1. Accept(p)  BY <1>5, <2>3 DEF Update
    <3>2. /\ UpdateRows(p, w[p].timesseen + 1, w[p].start)
          /\ Answer(p, "Accepted") /\ Extend(p, ValidExpiry) /\ now' = now
      BY <3>1 DEF Accept, Answer, Step
    <3>3. /\ w'[p].pc = "answered" /\ w'[p].verdict = "Accepted"
          /\ \A q \in Workers : q # p => w'[q] = w[q]
      BY <3>2, AnswerLocals
    <3>4. w[p].timesseen + 1 \in Int /\ w[p].timesseen + 1 > 1  BY <2>2, MaxSeenAssumption
    <3>5. OneRowPerTriple' /\ StreakBacked'
      BY <1>d, <1>i, <3>2, <3>4, UpdatedRows, ExtendBacked, SettingAssumption
    <3>6. Carries(p)'  BY <3>3 DEF Carries
    <3> QED  BY <2>1, <3>3, <3>5, <3>6, AloneStep
  <2>4. CASE ~(w[p].start - w[p].firstseen > Quarantine)
    <3> DEFINE e == streak[w[p].triple].safe
    <3>1. RefuseAgain(p)  BY <1>5, <2>4 DEF Update
    <3>2. /\ UpdateRows(p, w[p].timesseen, w[p].start)
          /\ Answer(p, "GreyListed") /\ Extend(p, e) /\ now' = now
          /\ earned' = earned
      BY <3>1 DEF RefuseAgain, Refuse, Answer, Step, Extend
    <3>3. /\ w'[p].pc = "answered"
          /\ \A q \in Workers : q # p => w'[q] = w[q]
      BY <3>2, AnswerLocals
    <3>4. w[p].timesseen \in Int /\ e \in {InvalidExpiry, ValidExpiry}
      BY <2>2 DEF TypeInv, TypeOK, Streak
    <3>5. Alive(w[p].triple) =>
            e <= IF w[p].timesseen > 1 THEN ValidExpiry ELSE InvalidExpiry
      BY <2>1 DEF Carries
    <3>6. OneRowPerTriple' /\ StreakBacked'
      BY <1>d, <1>i, <3>2, <3>4, <3>5, UpdatedRows, ExtendBacked
    <3>7. p \notin earned'  BY <2>1, <2>4, <3>2 DEF Carries
    <3>8. Carries(p)'  BY <3>3, <3>7 DEF Carries
    <3> QED  BY <2>1, <3>3, <3>6, <3>8, AloneStep
  <2> QED  BY <2>3, <2>4
<1>6. ASSUME NEW p \in Workers, Insert(p)
      PROVE  /\ OneAtATime' /\ OneRowPerTriple' /\ StreakBacked'
             /\ \A q \in Workers : Carries(q)'
  <2> DEFINE t == w[p].triple
             row == NewRow(p, 1)
  <2>1. Alone(p) /\ Matching(t) = {} /\ p \notin earned
    BY <1>6, <1>i, LockHeld DEF Insert, InsertRow, Carries
  <2>2. /\ Answer(p, "GreyListed") /\ now' = now /\ earned' = earned
        /\ triples' = triples \cup {row}
        /\ streak' = [streak EXCEPT ![t] = [first |-> w[p].start,
                        last |-> w[p].start, safe |-> InvalidExpiry]]
    BY <1>6 DEF Insert, InsertRow, Refuse, Answer, Step
  <2>3. /\ row.triple = t /\ row.timesseen = 1
        /\ row.firstseen = w[p].start /\ row.lastseen = w[p].start
    BY DEF NewRow
  <2>4. t \in Triples  BY DEF TypeInv, TypeOK, Worker
  <2> HIDE DEF row
  <2>5. \A r \in triples : r.triple # t  BY <2>1 DEF Matching
  <2>6. OneRowPerTriple'
    BY <1>d, <1>i, <2>2, <2>3, <2>5 DEF OneRowPerTriple
  <2>7. StreakBacked'
    <3> SUFFICES ASSUME NEW u \in Triples, Alive(u)'
                 PROVE  \E r \in triples' : Backs(r, u)'
      BY DEF StreakBacked
    <3>1. CASE u # t
      <4>1. streak'[u] = streak[u]  BY <2>2, <3>1 DEF TypeInv, TypeOK
      <4>2. Alive(u)  BY <2>2, <4>1 DEF Alive
      <4>3. PICK r \in triples : Backs(r, u)  BY <1>i, <4>2 DEF StreakBacked
      <4> QED  BY <2>2, <4>1, <4>3 DEF Backs
    <3>2. CASE u = t
      <4>1. streak'[t] = [first |-> w[p].start, last |-> w[p].start,
                          safe |-> InvalidExpiry]
        BY <2>2, <2>4 DEF TypeInv, TypeOK
      <4> QED  BY <2>2, <2>3, <3>2, <4>1, SettingAssumption DEF Backs
    <3> QED  BY <3>1, <3>2
  <2>8. /\ w'[p].pc = "answered"
        /\ \A q \in Workers : q # p => w'[q] = w[q]
    BY <2>2, AnswerLocals
  <2>9. Carries(p)'  BY <2>1, <2>2, <2>8 DEF Carries
  <2> QED  BY <2>1, <2>6, <2>7, <2>8, <2>9, AloneStep
<1>7. ASSUME NEW p \in Workers, Return(p) \/ Abort(p)
      PROVE  /\ OneAtATime' /\ OneRowPerTriple' /\ StreakBacked'
             /\ \A q \in Workers : Carries(q)'
  <2>1. Alone(p)  BY <1>7, <1>i, LockHeld DEF Return, Abort
  <2>2. Step(p, IdleWorker) /\ UNCHANGED <<now, triples, streak>>
    BY <1>7 DEF Return, Abort, Finish, Step
  <2>3. w'[p].pc = "idle" /\ \A q \in Workers : q # p => w'[q] = w[q]
    BY <2>2, StepLocals, IdleWorkerType
  <2>4. Carries(p)'  BY <2>3 DEF Carries
  <2> QED  BY <1>d, <1>i, <2>1, <2>2, <2>3, <2>4, AloneStep, SameRows
<1>8. CASE Purge
  <2>1. UNCHANGED <<now, w, earned, streak>> /\ triples' = {r \in triples : ~Expired(r)}
    BY <1>8 DEF Purge, history
  <2>2. OneAtATime'  BY <1>i, <2>1 DEF OneAtATime
  <2>3. OneRowPerTriple'  BY <1>d, <1>i, <2>1 DEF OneRowPerTriple
  <2>4. StreakBacked'
    <3> SUFFICES ASSUME NEW t \in Triples, Alive(t)'
                 PROVE  \E r \in triples' : Backs(r, t)'
      BY DEF StreakBacked
    <3>1. Alive(t)  BY <2>1 DEF Alive
    <3>2. PICK r \in triples : Backs(r, t)  BY <1>i, <3>1 DEF StreakBacked
    <3>3. /\ r.lastseen \in Int /\ now \in Int /\ streak[t].safe \in Int
          /\ InvalidExpiry \in Int /\ ValidExpiry \in Int
      BY SettingAssumption, TimeAssumption
      DEF TypeInv, TypeOK, Row, Time, Streak
    <3>4. ~Expired(r)  BY <3>1, <3>2, <3>3 DEF Expired, Alive, Backs
    <3> QED  BY <2>1, <3>2, <3>4 DEF Backs
  <2>5. ASSUME NEW p \in Workers PROVE Carries(p)'
    <3>1. Matching(w[p].triple) = {} => Matching(w[p].triple)' = {}
      BY <2>1 DEF Matching
    <3>2. Alive(w[p].triple)' = Alive(w[p].triple)  BY <2>1 DEF Alive
    <3> QED  BY <1>i, <2>1, <3>1, <3>2 DEF Carries
  <2> QED  BY <2>2, <2>3, <2>4, <2>5
<1>9. CASE Tick
  <2>1. UNCHANGED <<w, earned, streak, triples>> /\ now' = now + 1
    BY <1>9 DEF Tick, history
  <2>2. OneAtATime'  BY <1>i, <2>1 DEF OneAtATime
  <2>3. OneRowPerTriple'  BY <1>d, <1>i, <2>1 DEF OneRowPerTriple
  <2>4. ASSUME NEW t \in Triples, Alive(t)' PROVE Alive(t)
    <3>1. now \in Int /\ streak[t].last \in Int /\ streak[t].safe \in Int
      BY SettingAssumption, TimeAssumption
      DEF TypeInv, TypeOK, Time, Streak, Never
    <3> QED  BY <2>1, <2>4, <3>1 DEF Alive
  <2>5. StreakBacked'  BY <1>i, <2>1, <2>4 DEF StreakBacked, Backs
  <2>6. ASSUME NEW p \in Workers PROVE Carries(p)'
    <3>1. Alive(w[p].triple)' => Alive(w[p].triple)
      <4>1. w[p].triple \in Triples  BY DEF TypeInv, TypeOK, Worker
      <4>2. Alive(w[p].triple)' => streak'[w[p].triple].last # Never
                                /\ now' - streak'[w[p].triple].last <= streak'[w[p].triple].safe
        BY <2>1 DEF Alive
      <4>3. /\ now \in Int /\ streak[w[p].triple].last \in Int
            /\ streak[w[p].triple].safe \in Int
        BY <4>1, SettingAssumption, TimeAssumption
        DEF TypeInv, TypeOK, Time, Streak, Never
      <4> QED  BY <2>1, <4>2, <4>3 DEF Alive
    <3>2. Matching(w[p].triple)' = Matching(w[p].triple)  BY <2>1 DEF Matching
    <3> QED  BY <1>i, <2>1, <3>1, <3>2 DEF Carries
  <2> QED  BY <2>2, <2>3, <2>5, <2>6
<1>10. CASE EditLists \/ UNCHANGED vars
  <2>1. UNCHANGED <<now, daemon, triples, w, history>>
    BY <1>10 DEF EditLists, vars, history
  <2>2. OneAtATime' /\ OneRowPerTriple' /\ StreakBacked'
    BY <1>i, <2>1, SameRows DEF OneAtATime, history
  <2>3. ASSUME NEW p \in Workers PROVE Carries(p)'
    BY <1>i, <2>1 DEF Carries, Alive, Matching, history
  <2> QED  BY <2>2, <2>3
<1> QED
  BY <1>1, <1>2, <1>3, <1>4, <1>5, <1>6, <1>7, <1>8, <1>9, <1>10
  DEF Next, Attempt

(* DaemonInv holds for ever.                                               *)
LEMMA AlwaysDaemonInv == ASSUME BeforeOverflow PROVE Spec => []DaemonInv
<1>1. Init => DaemonInv
  <2> SUFFICES ASSUME Init PROVE DaemonInv  OBVIOUS
  <2>1. \A p \in Workers : w[p].pc = "idle"  BY IdleWorkerType DEF Init
  <2>2. \A t \in Triples : ~Alive(t)  BY DEF Init, Alive, NoStreak
  <2>3. \A p \in Workers : Carries(p)  BY <2>1 DEF Carries
  <2> QED
    BY <2>1, <2>2, <2>3 DEF Init, DaemonInv, OneAtATime, OneRowPerTriple, StreakBacked
<1>2. TypeInv /\ DaemonInv /\ [Next]_vars => DaemonInv'  BY DaemonStep
<1> QED  BY <1>1, <1>2, AlwaysTyped, PTL DEF Spec

(* In daemon mode the lock keeps one row for a triple.                     *)
THEOREM DaemonOneRow == ASSUME BeforeOverflow PROVE Spec => []OneRowPerTriple
<1>1. DaemonInv => OneRowPerTriple  BY DEF DaemonInv, OneRowPerTriple
<1> QED  BY <1>1, AlwaysDaemonInv, PTL

(* In daemon mode a client that comes back often enough gets through once  *)
(* the quarantine is over, and stays accepted, whatever else happens.      *)
THEOREM DaemonRetryGetsThrough ==
  ASSUME BeforeOverflow PROVE Spec => []RetryGetsThrough
<1>1. TypeInv /\ DaemonInv => RetryGetsThrough
  BY DEF DaemonInv, Carries, RetryGetsThrough, TypeInv, TypeOK
<1> QED  BY <1>1, AlwaysTyped, AlwaysDaemonInv, PTL
=============================================================================
