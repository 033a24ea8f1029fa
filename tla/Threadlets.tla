----------------------------- MODULE Threadlets -----------------------------
(***************************************************************************)
(* The threads of spey.  A threadlet is a pthread that holds one mutex,    *)
(* the CPU lock, whenever it runs, and gives it up only inside a           *)
(* Concurrent scope, around a system call that may take long.  The main    *)
(* thread takes the lock before anything else and gives it up when it goes *)
(* to sleep; the server threadlet accepts connections and starts a session *)
(* threadlet for each; in inetd mode there is one session, on descriptor 0.*)
(*                                                                         *)
(* The promise to the clients is module Service.  What stands in its way:  *)
(* a lock that an exception leaves in the wrong hands, a connection that   *)
(* is dropped between accept() and the new thread, a thread that waits for *)
(* its client while it holds the lock.                                     *)
(*                                                                         *)
(* The key for the current threadlet is one of the process's first, so     *)
(* that pthread_setspecific() does not fail in trampoline().               *)
(***************************************************************************)
EXTENDS Integers

CONSTANTS
  Connections,   \* connections that clients make; also their sessions
  Main, Server,  \* the other threads
  Nobody,        \* the lock is free
  Modes,         \* TRUE for inetd mode, FALSE for daemon mode
  Tls,           \* the connections that use TLS
  Stalling,      \* those whose client may stop in a read or a handshake
  MaxTurns       \* bound: how often a session waits

ASSUME ThreadAssumption ==
  /\ Main # Server /\ {Main, Server} \cap Connections = {}
  /\ Nobody \notin Connections \cup {Main, Server}
ASSUME ConnectionAssumption ==
  /\ Modes \subseteq BOOLEAN
  /\ Stalling \subseteq Connections /\ Tls \subseteq Connections
ASSUME MaxTurnsAssumption == MaxTurns \in Nat

VARIABLES
  inetd,   \* the mode
  pc,      \* where every thread is, see PC
  lock,    \* cpulock
  conn,    \* the state of every connection
  fresh,   \* the connection that accept() has returned, or Nobody
  turns    \* how often every session has waited

vars == <<inetd, pc, lock, conn, fresh, turns>>

Threads == Connections \cup {Main, Server}

(* Places where a thread has the lock, where it asks for it, and the rest. *)
Holding == {"starting", "running", "spawning", "reading", "blocked", "connecting",
            "failing"}
Asking == {"created", "accepted", "acceptfailed", "received", "sent", "timedout"}
PC == Holding \cup Asking \cup
      {"absent", "accepting", "polling", "sending", "handshaking", "halted", "exited",
       "done"}

(* Where the thread is when it has been given the lock.                    *)
Granted(place) ==
  CASE place \in {"created", "sent"} -> "running"
    [] place = "accepted" -> "spawning"
    [] place = "received" -> "reading"
    [] place \in {"acceptfailed", "timedout"} -> "failing"

Init ==
  /\ inetd \in Modes
  /\ pc = [t \in Threads |-> IF t = Main THEN "starting" ELSE "absent"]
  /\ lock = Main
  /\ IF inetd
     THEN \E c \in Connections :
            conn = [d \in Connections |-> IF d = c THEN "open" ELSE "absent"]
     ELSE conn = [c \in Connections |-> "absent"]
  /\ fresh = Nobody
  /\ turns = [c \in Connections |-> 0]

Go(t, place) == pc' = [pc EXCEPT ![t] = place]
Close(c) == conn' = [conn EXCEPT ![c] = "closed"]

-----------------------------------------------------------------------------
(* The main thread creates the first threadlet, lock in hand.              *)
StartServer ==
  /\ ~inetd /\ pc[Main] = "starting" /\ pc[Server] = "absent"
  /\ Go(Server, "created")
  /\ UNCHANGED <<inetd, lock, conn, fresh, turns>>

StartSession(c) ==
  /\ inetd /\ pc[Main] = "starting" /\ conn[c] = "open" /\ pc[c] = "absent"
  /\ Go(c, "created")
  /\ UNCHANGED <<inetd, lock, conn, fresh, turns>>

(* Before that an exception ends the process: the database or the address  *)
(* is not to be had, the privileges cannot be dropped, the private key     *)
(* cannot be read, the thread cannot be made.                              *)
StartFails ==
  /\ pc[Main] = "starting" /\ \A t \in Threads \ {Main} : pc[t] = "absent"
  /\ Go(Main, "exited")
  /\ lock' = Nobody
  /\ conn' = [c \in Connections |-> IF conn[c] = "open" THEN "closed" ELSE conn[c]]
  /\ UNCHANGED <<inetd, fresh, turns>>

(* It never does anything again.                                           *)
Halt ==
  /\ pc[Main] = "starting" /\ \E t \in Threads \ {Main} : pc[t] = "created"
  /\ Go(Main, "halted")
  /\ lock' = Nobody
  /\ UNCHANGED <<inetd, conn, fresh, turns>>

TakeCPUlock(t) ==
  /\ pc[t] \in Asking /\ lock = Nobody
  /\ lock' = t
  /\ Go(t, Granted(pc[t]))
  /\ UNCHANGED <<inetd, conn, fresh, turns>>

(* Entering a Concurrent scope, or the end of the trampoline.              *)
ReleaseCPUlock(t, place) == lock' = Nobody /\ Go(t, place)

-----------------------------------------------------------------------------
(* The server threadlet: settings are reloaded, then accept() waits.       *)
Accept ==
  /\ pc[Server] = "running"
  /\ ReleaseCPUlock(Server, "accepting")
  /\ UNCHANGED <<inetd, conn, fresh, turns>>

(* A client connects: the kernel queues it, as long as anybody listens.    *)
Arrive(c) ==
  /\ conn[c] = "absent" /\ ~inetd /\ pc[Server] \notin {"absent", "done"}
  /\ conn' = [conn EXCEPT ![c] = "queued"]
  /\ UNCHANGED <<inetd, pc, lock, fresh, turns>>

AcceptReturns(c) ==
  /\ pc[Server] = "accepting" /\ conn[c] = "queued"
  /\ conn' = [conn EXCEPT ![c] = "open"]
  /\ fresh' = c
  /\ Go(Server, "accepted")
  /\ UNCHANGED <<inetd, lock, turns>>

AcceptFails ==
  /\ pc[Server] = "accepting"
  /\ Go(Server, "acceptfailed")
  /\ UNCHANGED <<inetd, lock, conn, fresh, turns>>

Spawn ==
  /\ pc[Server] = "spawning"
  /\ pc' = [pc EXCEPT ![Server] = "running", ![fresh] = "created"]
  /\ fresh' = Nobody
  /\ UNCHANGED <<inetd, lock, conn, turns>>

(* A slip: the exception is logged and the descriptor forgotten.           *)
SpawnFailsOpen ==
  /\ pc[Server] = "spawning"
  /\ Go(Server, "running")
  /\ fresh' = Nobody
  /\ UNCHANGED <<inetd, lock, conn, turns>>

(* No thread to be had: the client is told 421.                            *)
SpawnFails ==
  /\ pc[Server] = "spawning"
  /\ Go(Server, "running")
  /\ Close(fresh)
  /\ fresh' = Nobody
  /\ UNCHANGED <<inetd, lock, turns>>

(* The exception of accept() ends the server threadlet, and closes the     *)
(* master socket with it; the process stays.                               *)
ServerEnds ==
  /\ pc[Server] = "failing"
  /\ ReleaseCPUlock(Server, "done")
  /\ conn' = [c \in Connections |-> IF conn[c] = "queued" THEN "closed" ELSE conn[c]]
  /\ UNCHANGED <<inetd, fresh, turns>>

-----------------------------------------------------------------------------
(* A session threadlet.  It waits in poll(), with a timeout, or in write() *)
(* or a lookup, or for the client's part of a TLS handshake, without one;  *)
(* if a key cannot be read, makesecure() ends the session instead, by End. *)
Wait(c, place) ==
  /\ pc[c] = "running" /\ turns[c] < MaxTurns
  /\ turns' = [turns EXCEPT ![c] = @ + 1]
  /\ ReleaseCPUlock(c, place)
  /\ UNCHANGED <<inetd, conn, fresh>>

Poll(c) == Wait(c, "polling")
Send(c) == Wait(c, "sending")
Makesecure(c) == c \in Tls /\ Wait(c, "handshaking")

(* connect() to the downstream server, and the lookup of the client's name *)
(* for the log, are called without a Concurrent scope.                     *)
Connect(c) ==
  /\ pc[c] = "running" /\ turns[c] < MaxTurns
  /\ turns' = [turns EXCEPT ![c] = @ + 1]
  /\ Go(c, "connecting")
  /\ UNCHANGED <<inetd, lock, conn, fresh>>

Wake(c, here, there) ==
  /\ pc[c] = here
  /\ Go(c, there)
  /\ UNCHANGED <<inetd, lock, conn, fresh, turns>>

Readable(c) == Wake(c, "polling", "received")
Sent(c) == Wake(c, "sending", "sent")

(* The handshake is over, or has failed, which ends the session.           *)
HandshakeEnds(c) == Wake(c, "handshaking", "sent")

ConnectEnds(c) ==
  Wake(c, "connecting", "running") \/ Wake(c, "connecting", "failing")

(* A slip: the exception passes the end of the scope by.                   *)
TimeoutUnlocked(c) == Wake(c, "polling", "failing")

(* The exception leaves the Concurrent scope, which takes the lock back.   *)
Timeout(c) == Wake(c, "polling", "timedout")

(* What poll() has announced is read after the scope, under the lock.  If  *)
(* it is only a part of a TLS record, or if poll() has failed, more is     *)
(* waited for, without a timeout.                                          *)
Read(c) ==
  /\ pc[c] = "reading"
  /\ Go(c, "running") \/ Go(c, "blocked")
  /\ UNCHANGED <<inetd, lock, conn, fresh, turns>>

(* It has come, or the client has closed its end.                          *)
RecordCompletes(c) == Wake(c, "blocked", "running")

(* A slip: the lock is not given back.                                     *)
EndLocked(c) ==
  /\ pc[c] \in {"running", "failing"}
  /\ Close(c)
  /\ Go(c, "done")
  /\ UNCHANGED <<inetd, lock, fresh, turns>>

(* process() returns, or an exception is caught in the trampoline: the     *)
(* session is deleted and its sockets are closed.                          *)
End(c) ==
  /\ pc[c] \in {"running", "failing"}
  /\ Close(c)
  /\ ReleaseCPUlock(c, "done")
  /\ UNCHANGED <<inetd, fresh, turns>>

(* A slip: the other threads die, but not the main thread.                 *)
CountingFailsHere(c) ==
  /\ pc[c] = "failing"
  /\ pc' = [t \in Threads |-> "done"]
  /\ lock' = Nobody
  /\ fresh' = Nobody
  /\ conn' = [d \in Connections |-> IF conn[d] = "absent" THEN "absent" ELSE "closed"]
  /\ UNCHANGED <<inetd, turns>>

(* A timeout is counted in the statistics table inside the handler: if the *)
(* database fails there, the exception has no handler and the process      *)
(* aborts.                                                                 *)
CountingFails(c) ==
  /\ pc[c] = "failing"
  /\ pc' = [t \in Threads |-> IF t = Main THEN "exited" ELSE "done"]
  /\ lock' = Nobody
  /\ fresh' = Nobody
  /\ conn' = [d \in Connections |-> IF conn[d] = "absent" THEN "absent" ELSE "closed"]
  /\ UNCHANGED <<inetd, turns>>

ServerStep ==
  Accept \/ AcceptFails \/ Spawn \/ SpawnFails \/ ServerEnds

Waiting(c) == Readable(c) \/ Timeout(c) \/ Sent(c)

Session(c) ==
  Poll(c) \/ Send(c) \/ Makesecure(c) \/ Connect(c) \/ Waiting(c) \/ ConnectEnds(c)
  \/ HandshakeEnds(c) \/ Read(c) \/ RecordCompletes(c) \/ End(c) \/ CountingFails(c)

Next ==
  \/ StartServer \/ StartFails \/ Halt
  \/ ServerStep
  \/ \E t \in Threads : TakeCPUlock(t)
  \/ \E c \in Connections :
       StartSession(c) \/ Arrive(c) \/ AcceptReturns(c) \/ Session(c)

(* The main thread and every threadlet that has the lock go on.  A wait    *)
(* ends: poll() by its timeout, connect() by the kernel's, the rest because*)
(* the peer takes what is written.  A client finishes its handshake and    *)
(* what a read waits for, or closes its end, unless it is a Stalling one.  *)
(* The mutex is strongly fair: it is free again and again, and everybody   *)
(* who asks gets it some time.                                             *)
Fairness ==
  /\ WF_vars(StartServer \/ StartFails \/ Halt
             \/ \E c \in Connections : StartSession(c))
  /\ WF_vars(Accept \/ Spawn \/ SpawnFails \/ ServerEnds)
  /\ \A t \in Threads : SF_vars(TakeCPUlock(t))
  /\ \A c \in Connections :
       /\ WF_vars(Waiting(c)) /\ WF_vars(ConnectEnds(c))
       /\ WF_vars(Poll(c) \/ Send(c) \/ Makesecure(c) \/ Connect(c) \/ Read(c)
                  \/ End(c) \/ CountingFails(c))
  /\ \A c \in Connections \ Stalling :
       WF_vars(RecordCompletes(c)) /\ WF_vars(HandshakeEnds(c))

Spec == Init /\ [][Next]_vars /\ Fairness

-----------------------------------------------------------------------------
(* Types of the variables.                                                 *)
TypeOK ==
  /\ inetd \in BOOLEAN
  /\ pc \in [Threads -> PC]
  /\ pc[Main] \in {"starting", "halted", "exited"}
  /\ pc[Server] \in {"absent", "created", "running", "accepting", "accepted",
                    "spawning", "acceptfailed", "failing", "done"}
  /\ \A c \in Connections :
       pc[c] \in {"absent", "created", "running", "polling", "received", "reading",
                 "blocked", "timedout", "sending", "sent", "connecting",
                 "handshaking", "failing", "done"}
  /\ lock \in Threads \cup {Nobody}
  /\ conn \in [Connections -> {"absent", "queued", "open", "closed"}]
  /\ fresh \in Connections \cup {Nobody}
  /\ turns \in [Connections -> 0 .. MaxTurns]

(* A thread is in code that needs the CPU lock exactly while it holds it,  *)
(* whether it got there by a return, an error or an exception; a thread    *)
(* that has ended or waits for its peer has left the lock behind.          *)
LockDiscipline == \A t \in Threads : lock = t <=> pc[t] \in Holding

(* Between accept() and the end of its session exactly somebody is in      *)
(* charge of an open connection: the session, or the server threadlet that *)
(* is about to start it, or the main thread in inetd mode.                 *)
Serving(c) ==
  \/ pc[c] \in Holding \cup Asking \cup {"polling", "sending", "handshaking"}
  \/ fresh = c

NoConnectionForgotten ==
  /\ \A c \in Connections :
       /\ Serving(c) => conn[c] = "open"
       /\ conn[c] = "open" => Serving(c) \/ (inetd /\ pc[Main] = "starting")
  /\ fresh # Nobody <=> pc[Server] \in {"accepted", "spawning"}

(* The promise to the clients, with the connections as they are.           *)
Promise == INSTANCE Service WITH Connections <- Connections, conn <- conn
ServiceKept == Promise!Spec

(* Whatever the sessions do, the server comes back to accept(), or has     *)
(* ended.                                                                  *)
ServerReturns ==
  pc[Server] # "absent" ~> pc[Server] \in {"accepting", "done"}

-----------------------------------------------------------------------------
(* Statements of the manual that the code does not keep.                   *)

(* socket-timeout "controls how long spey will wait on a socket when there *)
(* is no traffic": no wait for a client lasts for ever.                    *)
SilenceEnds ==
  \A c \in Connections :
    pc[c] \in {"polling", "blocked", "handshaking"}
      ~> pc[c] \notin {"polling", "blocked", "handshaking"}

(* "When running like this, spey will process a single message and exit":  *)
(* in inetd mode the process ends.                                         *)
InetdExits == inetd ~> pc[Main] = "exited"
=============================================================================
