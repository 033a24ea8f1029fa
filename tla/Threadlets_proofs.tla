-------------------------- MODULE Threadlets_proofs --------------------------
(***************************************************************************)
(* Proofs about Threadlets, for any number of connections: the lock is in  *)
(* the right hands, no connection is forgotten, and every step is one that *)
(* Service allows.  That connections are closed in the end is liveness and *)
(* is left to TLC.                                                         *)
(***************************************************************************)
EXTENDS Threadlets, TLAPS

(* The inductive invariant: no thread exists for a connection before it is *)
(* spawned, and in inetd mode there is one connection and no server.       *)
Unspawned ==
  /\ \A c \in Connections :
       /\ conn[c] = "queued" \/ fresh = c => pc[c] = "absent"
       /\ conn[c] = "absent" /\ pc[Server] # "done" => pc[c] = "absent"
  /\ pc[Server] = "absent" =>
       fresh = Nobody /\ \A c \in Connections : conn[c] # "queued"
  /\ inetd => pc[Server] \in {"absent", "done"}
  /\ inetd => \A c, d \in Connections : conn[c] = "open" /\ conn[d] = "open" => c = d

Inv == TypeOK /\ LockDiscipline /\ NoConnectionForgotten /\ Unspawned

(* Every step keeps the types.                                             *)
LEMMA TypeStep == Inv /\ [Next]_vars => TypeOK'
<1> SUFFICES ASSUME Inv, [Next]_vars PROVE TypeOK'  OBVIOUS
<1> USE ThreadAssumption, ConnectionAssumption, MaxTurnsAssumption
<1> USE DEF Inv, TypeOK, Threads, PC, Holding, Asking, Go
<1>1. ASSUME StartServer
      PROVE  TypeOK'
  BY <1>1 DEF StartServer
<1>2. ASSUME NEW c \in Connections, StartSession(c)
      PROVE  TypeOK'
  BY <1>2 DEF StartSession
<1>3. ASSUME StartFails
      PROVE  TypeOK'
  BY <1>3 DEF StartFails
<1>4. ASSUME Halt
      PROVE  TypeOK'
  BY <1>4 DEF Halt
<1>5. ASSUME NEW t \in Threads, TakeCPUlock(t)
      PROVE  TypeOK'
  BY <1>5 DEF TakeCPUlock, Granted
<1>6. ASSUME Accept
      PROVE  TypeOK'
  BY <1>6 DEF Accept, ReleaseCPUlock
<1>7. ASSUME NEW c \in Connections, Arrive(c)
      PROVE  TypeOK'
  BY <1>7 DEF Arrive
<1>8. ASSUME NEW c \in Connections, AcceptReturns(c)
      PROVE  TypeOK'
  BY <1>8 DEF AcceptReturns
<1>9. ASSUME AcceptFails
      PROVE  TypeOK'
  BY <1>9 DEF AcceptFails
<1>10. ASSUME Spawn
      PROVE  TypeOK'
  BY <1>10 DEF Spawn
<1>11. ASSUME SpawnFails
      PROVE  TypeOK'
  BY <1>11 DEF SpawnFails, Close
<1>12. ASSUME ServerEnds
      PROVE  TypeOK'
  BY <1>12 DEF ServerEnds, ReleaseCPUlock
<1>13. ASSUME NEW c \in Connections, Poll(c) \/ Send(c) \/ Makesecure(c)
      PROVE  TypeOK'
  BY <1>13 DEF Poll, Send, Makesecure, Wait, ReleaseCPUlock
<1>14. ASSUME NEW c \in Connections, Readable(c) \/ Timeout(c) \/ Sent(c) \/ HandshakeEnds(c)
             \/ RecordCompletes(c) \/ ConnectEnds(c)
      PROVE  TypeOK'
  BY <1>14 DEF Readable, Timeout, Sent, HandshakeEnds, RecordCompletes, ConnectEnds, Wake
<1>15. ASSUME NEW c \in Connections, Read(c)
      PROVE  TypeOK'
  BY <1>15 DEF Read
<1>16. ASSUME NEW c \in Connections, End(c)
      PROVE  TypeOK'
  BY <1>16 DEF End, Close, ReleaseCPUlock
<1>17. ASSUME NEW c \in Connections, CountingFails(c)
      PROVE  TypeOK'
  BY <1>17 DEF CountingFails
<1>18. ASSUME NEW c \in Connections, Connect(c)
       PROVE  TypeOK'
  BY <1>18 DEF Connect
<1>19. CASE UNCHANGED vars  BY <1>19 DEF vars
<1> QED
  BY <1>1, <1>2, <1>3, <1>4, <1>5, <1>6, <1>7, <1>8, <1>9, <1>10,
     <1>11, <1>12, <1>13, <1>14, <1>15, <1>16, <1>17, <1>18, <1>19
  DEF Next, ServerStep, Session, Waiting

(* Every step keeps the lock in the right hands.                           *)
LEMMA LockStep == Inv /\ [Next]_vars => LockDiscipline'
<1> SUFFICES ASSUME Inv, [Next]_vars PROVE LockDiscipline'  OBVIOUS
<1> USE ThreadAssumption, ConnectionAssumption, MaxTurnsAssumption
<1> USE DEF Inv, TypeOK, Threads, PC, Holding, Asking, Go, LockDiscipline
<1>1. ASSUME StartServer
      PROVE  LockDiscipline'
  BY <1>1 DEF StartServer
<1>2. ASSUME NEW c \in Connections, StartSession(c)
      PROVE  LockDiscipline'
  BY <1>2 DEF StartSession
<1>3. ASSUME StartFails
      PROVE  LockDiscipline'
  BY <1>3 DEF StartFails
<1>4. ASSUME Halt
      PROVE  LockDiscipline'
  BY <1>4 DEF Halt
<1>5. ASSUME NEW t \in Threads, TakeCPUlock(t)
      PROVE  LockDiscipline'
  BY <1>5 DEF TakeCPUlock, Granted
<1>6. ASSUME Accept
      PROVE  LockDiscipline'
  BY <1>6 DEF Accept, ReleaseCPUlock
<1>7. ASSUME NEW c \in Connections, Arrive(c)
      PROVE  LockDiscipline'
  BY <1>7 DEF Arrive
<1>8. ASSUME NEW c \in Connections, AcceptReturns(c)
      PROVE  LockDiscipline'
  BY <1>8 DEF AcceptReturns
<1>9. ASSUME AcceptFails
      PROVE  LockDiscipline'
  BY <1>9 DEF AcceptFails
<1>10. ASSUME Spawn
      PROVE  LockDiscipline'
  BY <1>10 DEF Spawn
<1>11. ASSUME SpawnFails
      PROVE  LockDiscipline'
  BY <1>11 DEF SpawnFails, Close
<1>12. ASSUME ServerEnds
      PROVE  LockDiscipline'
  BY <1>12 DEF ServerEnds, ReleaseCPUlock
<1>13. ASSUME NEW c \in Connections, Poll(c) \/ Send(c) \/ Makesecure(c)
      PROVE  LockDiscipline'
  BY <1>13 DEF Poll, Send, Makesecure, Wait, ReleaseCPUlock
<1>14. ASSUME NEW c \in Connections, Readable(c) \/ Timeout(c) \/ Sent(c) \/ HandshakeEnds(c)
             \/ RecordCompletes(c) \/ ConnectEnds(c)
      PROVE  LockDiscipline'
  BY <1>14 DEF Readable, Timeout, Sent, HandshakeEnds, RecordCompletes, ConnectEnds, Wake
<1>15. ASSUME NEW c \in Connections, Read(c)
      PROVE  LockDiscipline'
  BY <1>15 DEF Read
<1>16. ASSUME NEW c \in Connections, End(c)
      PROVE  LockDiscipline'
  BY <1>16 DEF End, Close, ReleaseCPUlock
<1>17. ASSUME NEW c \in Connections, CountingFails(c)
      PROVE  LockDiscipline'
  BY <1>17 DEF CountingFails
<1>18. ASSUME NEW c \in Connections, Connect(c)
       PROVE  LockDiscipline'
  BY <1>18 DEF Connect
<1>19. CASE UNCHANGED vars  BY <1>19 DEF vars
<1> QED
  BY <1>1, <1>2, <1>3, <1>4, <1>5, <1>6, <1>7, <1>8, <1>9, <1>10,
     <1>11, <1>12, <1>13, <1>14, <1>15, <1>16, <1>17, <1>18, <1>19
  DEF Next, ServerStep, Session, Waiting

(* Every step keeps somebody in charge.                                    *)
LEMMA ChargeStep == Inv /\ [Next]_vars => NoConnectionForgotten'
<1> SUFFICES ASSUME Inv, [Next]_vars PROVE NoConnectionForgotten'  OBVIOUS
<1> USE ThreadAssumption, ConnectionAssumption, MaxTurnsAssumption
<1> USE DEF Inv, TypeOK, Threads, PC, Holding, Asking, Go,
            LockDiscipline, NoConnectionForgotten, Serving, Unspawned
<1>1. ASSUME StartServer
      PROVE  NoConnectionForgotten'
  BY <1>1 DEF StartServer
<1>2. ASSUME NEW c \in Connections, StartSession(c)
      PROVE  NoConnectionForgotten'
  BY <1>2 DEF StartSession
<1>3. ASSUME StartFails
      PROVE  NoConnectionForgotten'
  BY <1>3 DEF StartFails
<1>4. ASSUME Halt
      PROVE  NoConnectionForgotten'
  BY <1>4 DEF Halt
<1>5. ASSUME NEW t \in Threads, TakeCPUlock(t)
      PROVE  NoConnectionForgotten'
  BY <1>5 DEF TakeCPUlock, Granted
<1>6. ASSUME Accept
      PROVE  NoConnectionForgotten'
  BY <1>6 DEF Accept, ReleaseCPUlock
<1>7. ASSUME NEW c \in Connections, Arrive(c)
      PROVE  NoConnectionForgotten'
  BY <1>7 DEF Arrive
<1>8. ASSUME NEW c \in Connections, AcceptReturns(c)
      PROVE  NoConnectionForgotten'
  BY <1>8 DEF AcceptReturns
<1>9. ASSUME AcceptFails
      PROVE  NoConnectionForgotten'
  BY <1>9 DEF AcceptFails
<1>10. ASSUME Spawn
      PROVE  NoConnectionForgotten'
  BY <1>10 DEF Spawn
<1>11. ASSUME SpawnFails
      PROVE  NoConnectionForgotten'
  BY <1>11 DEF SpawnFails, Close
<1>12. ASSUME ServerEnds
      PROVE  NoConnectionForgotten'
  BY <1>12 DEF ServerEnds, ReleaseCPUlock
<1>13. ASSUME NEW c \in Connections, Poll(c) \/ Send(c) \/ Makesecure(c)
      PROVE  NoConnectionForgotten'
  BY <1>13 DEF Poll, Send, Makesecure, Wait, ReleaseCPUlock
<1>14. ASSUME NEW c \in Connections, Readable(c) \/ Timeout(c) \/ Sent(c) \/ HandshakeEnds(c)
             \/ RecordCompletes(c) \/ ConnectEnds(c)
      PROVE  NoConnectionForgotten'
  BY <1>14 DEF Readable, Timeout, Sent, HandshakeEnds, RecordCompletes, ConnectEnds, Wake
<1>15. ASSUME NEW c \in Connections, Read(c)
      PROVE  NoConnectionForgotten'
  BY <1>15 DEF Read
<1>16. ASSUME NEW c \in Connections, End(c)
      PROVE  NoConnectionForgotten'
  BY <1>16 DEF End, Close, ReleaseCPUlock
<1>17. ASSUME NEW c \in Connections, CountingFails(c)
      PROVE  NoConnectionForgotten'
  BY <1>17 DEF CountingFails
<1>18. ASSUME NEW c \in Connections, Connect(c)
       PROVE  NoConnectionForgotten'
  BY <1>18 DEF Connect
<1>19. CASE UNCHANGED vars  BY <1>19 DEF vars
<1> QED
  BY <1>1, <1>2, <1>3, <1>4, <1>5, <1>6, <1>7, <1>8, <1>9, <1>10,
     <1>11, <1>12, <1>13, <1>14, <1>15, <1>16, <1>17, <1>18, <1>19
  DEF Next, ServerStep, Session, Waiting

(* Every step keeps the rest of the invariant.                             *)
LEMMA UnspawnedStep == Inv /\ [Next]_vars => Unspawned'
<1> SUFFICES ASSUME Inv, [Next]_vars PROVE Unspawned'  OBVIOUS
<1> USE ThreadAssumption, ConnectionAssumption, MaxTurnsAssumption
<1> USE DEF Inv, TypeOK, Threads, PC, Holding, Asking, Go,
            LockDiscipline, NoConnectionForgotten, Serving, Unspawned
<1>1. ASSUME StartServer
      PROVE  Unspawned'
  BY <1>1 DEF StartServer
<1>2. ASSUME NEW c \in Connections, StartSession(c)
      PROVE  Unspawned'
  BY <1>2 DEF StartSession
<1>3. ASSUME StartFails
      PROVE  Unspawned'
  BY <1>3 DEF StartFails
<1>4. ASSUME Halt
      PROVE  Unspawned'
  BY <1>4 DEF Halt
<1>5. ASSUME NEW t \in Threads, TakeCPUlock(t)
      PROVE  Unspawned'
  BY <1>5 DEF TakeCPUlock, Granted
<1>6. ASSUME Accept
      PROVE  Unspawned'
  BY <1>6 DEF Accept, ReleaseCPUlock
<1>7. ASSUME NEW c \in Connections, Arrive(c)
      PROVE  Unspawned'
  BY <1>7 DEF Arrive
<1>8. ASSUME NEW c \in Connections, AcceptReturns(c)
      PROVE  Unspawned'
  BY <1>8 DEF AcceptReturns
<1>9. ASSUME AcceptFails
      PROVE  Unspawned'
  BY <1>9 DEF AcceptFails
<1>10. ASSUME Spawn
      PROVE  Unspawned'
  BY <1>10 DEF Spawn
<1>11. ASSUME SpawnFails
      PROVE  Unspawned'
  BY <1>11 DEF SpawnFails, Close
<1>12. ASSUME ServerEnds
      PROVE  Unspawned'
  BY <1>12 DEF ServerEnds, ReleaseCPUlock
<1>13. ASSUME NEW c \in Connections, Poll(c) \/ Send(c) \/ Makesecure(c)
      PROVE  Unspawned'
  BY <1>13 DEF Poll, Send, Makesecure, Wait, ReleaseCPUlock
<1>14. ASSUME NEW c \in Connections, Readable(c) \/ Timeout(c) \/ Sent(c) \/ HandshakeEnds(c)
             \/ RecordCompletes(c) \/ ConnectEnds(c)
      PROVE  Unspawned'
  BY <1>14 DEF Readable, Timeout, Sent, HandshakeEnds, RecordCompletes, ConnectEnds, Wake
<1>15. ASSUME NEW c \in Connections, Read(c)
      PROVE  Unspawned'
  BY <1>15 DEF Read
<1>16. ASSUME NEW c \in Connections, End(c)
      PROVE  Unspawned'
  BY <1>16 DEF End, Close, ReleaseCPUlock
<1>17. ASSUME NEW c \in Connections, CountingFails(c)
      PROVE  Unspawned'
  BY <1>17 DEF CountingFails
<1>18. ASSUME NEW c \in Connections, Connect(c)
       PROVE  Unspawned'
  BY <1>18 DEF Connect
<1>19. CASE UNCHANGED vars  BY <1>19 DEF vars
<1> QED
  BY <1>1, <1>2, <1>3, <1>4, <1>5, <1>6, <1>7, <1>8, <1>9, <1>10,
     <1>11, <1>12, <1>13, <1>14, <1>15, <1>16, <1>17, <1>18, <1>19
  DEF Next, ServerStep, Session, Waiting

(* The invariant holds at the start.                                       *)
LEMMA InitInv == Init => Inv
<1> SUFFICES ASSUME Init PROVE Inv  OBVIOUS
<1> USE ThreadAssumption, ConnectionAssumption, MaxTurnsAssumption
<1> USE DEF Init, Threads
<1>1. PICK open \in SUBSET Connections :
        /\ conn = [c \in Connections |-> IF c \in open THEN "open" ELSE "absent"]
        /\ inetd => \A c, d \in open : c = d
        /\ ~inetd => open = {}
  <2>1. CASE inetd
    <3>1. PICK c \in Connections :
            conn = [d \in Connections |-> IF d = c THEN "open" ELSE "absent"]
      BY <2>1
    <3> WITNESS {c} \in SUBSET Connections
    <3> QED  BY <2>1, <3>1
  <2>2. CASE ~inetd
    <3> WITNESS {} \in SUBSET Connections
    <3> QED  BY <2>2
  <2> QED  BY <2>1, <2>2
<1>2. TypeOK  BY <1>1 DEF TypeOK, PC, Holding, Asking
<1>3. LockDiscipline  BY DEF LockDiscipline, Holding
<1>4. NoConnectionForgotten
  BY <1>1 DEF NoConnectionForgotten, Serving, Holding, Asking
<1>5. Unspawned  BY <1>1 DEF Unspawned
<1> QED  BY <1>2, <1>3, <1>4, <1>5 DEF Inv

(* The invariant holds for ever.                                           *)
LEMMA AlwaysInv == Init /\ [][Next]_vars => []Inv
<1>1. Inv /\ [Next]_vars => Inv'
  BY TypeStep, LockStep, ChargeStep, UnspawnedStep DEF Inv
<1> QED  BY InitInv, <1>1, PTL

(* The variables keep their types.                                         *)
THEOREM ThreadTypes == Spec => []TypeOK
<1>1. Inv => TypeOK  BY DEF Inv
<1> QED  BY AlwaysInv, <1>1, PTL DEF Spec

(* A thread is in code that needs the CPU lock exactly while it holds it.  *)
THEOREM LockAlwaysHeld == Spec => []LockDiscipline
<1>1. Inv => LockDiscipline  BY DEF Inv
<1> QED  BY AlwaysInv, <1>1, PTL DEF Spec

(* Somebody is always in charge of an open connection, and of no other.    *)
THEOREM NeverForgotten == Spec => []NoConnectionForgotten
<1>1. Inv => NoConnectionForgotten  BY DEF Inv
<1> QED  BY AlwaysInv, <1>1, PTL DEF Spec

-----------------------------------------------------------------------------
(* A step of the threads is a step of the service, or none.                *)
LEMMA ServiceStep == Inv /\ [Next]_vars => [Promise!Next]_conn
<1> SUFFICES ASSUME Inv, [Next]_vars PROVE [Promise!Next]_conn  OBVIOUS
<1> USE DEF Promise!Next, Promise!Move
<1>1. CASE StartFails
  <2>1. \A c \in Connections : conn[c] # "queued"
    BY <1>1, ThreadAssumption
    DEF StartFails, Inv, TypeOK, Unspawned, NoConnectionForgotten, Threads
  <2> QED  BY <1>1, <2>1 DEF StartFails, Promise!Die, Inv, TypeOK
<1>2. ASSUME NEW c \in Connections, Arrive(c) PROVE Promise!Next
  BY <1>2 DEF Arrive, Promise!Arrive
<1>3. ASSUME NEW c \in Connections, AcceptReturns(c) PROVE Promise!Next
  BY <1>3 DEF AcceptReturns, Promise!Take
<1>4. CASE SpawnFails
  <2>1. fresh \in Connections /\ conn[fresh] = "open"
    BY <1>4 DEF SpawnFails, Inv, TypeOK, NoConnectionForgotten, Serving
  <2> QED  BY <1>4, <2>1 DEF SpawnFails, Close, Promise!Close
<1>5. CASE ServerEnds  BY <1>5 DEF ServerEnds, Promise!Drop
<1>6. ASSUME NEW c \in Connections, End(c) PROVE Promise!Next
  <2>1. conn[c] = "open"
    BY <1>6 DEF End, Inv, NoConnectionForgotten, Serving, Holding
  <2> QED  BY <1>6, <2>1 DEF End, Close, Promise!Close
<1>7. ASSUME NEW c \in Connections, CountingFails(c) PROVE Promise!Next
  BY <1>7 DEF CountingFails, Promise!Die
<1>8. ASSUME NEW c \in Connections,
             StartSession(c) \/ Poll(c) \/ Send(c) \/ Makesecure(c) \/ Connect(c)
             \/ Waiting(c) \/ Read(c) \/ HandshakeEnds(c) \/ ConnectEnds(c)
             \/ RecordCompletes(c)
      PROVE  conn' = conn
  BY <1>8 DEF StartSession, Poll, Send, Makesecure, Connect, Wait, Waiting,
              Readable, Timeout, Sent, Wake, Read, HandshakeEnds, ConnectEnds,
              RecordCompletes
<1>9. ASSUME NEW t \in Threads, TakeCPUlock(t) PROVE conn' = conn
  BY <1>9 DEF TakeCPUlock
<1>10. CASE StartServer \/ Halt \/ Accept \/ AcceptFails \/ Spawn \/ UNCHANGED vars
  BY <1>10 DEF StartServer, Halt, Accept, AcceptFails, Spawn, vars
<1> QED
  BY <1>1, <1>2, <1>3, <1>4, <1>5, <1>6, <1>7, <1>8, <1>9, <1>10
  DEF Next, ServerStep, Session

(* Every behaviour of the threads, seen through the states of the          *)
(* connections, is one of the service, as far as safety goes.              *)
THEOREM ThreadsImplementService ==
  Spec => Promise!Init /\ [][Promise!Next]_conn
<1>1. Init => Promise!Init
  <2> SUFFICES ASSUME Init PROVE conn \in [Connections -> {"absent", "open"}]
    BY DEF Promise!Init
  <2>1. CASE inetd
    <3>1. PICK c \in Connections :
            conn = [d \in Connections |-> IF d = c THEN "open" ELSE "absent"]
      BY <2>1 DEF Init
    <3> QED  BY <3>1
  <2>2. CASE ~inetd  BY <2>2 DEF Init
  <2> QED  BY <2>1, <2>2
<1> QED  BY <1>1, AlwaysInv, ServiceStep, PTL DEF Spec
=============================================================================
