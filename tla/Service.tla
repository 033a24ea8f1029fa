------------------------------ MODULE Service ------------------------------
(* What spey promises the clients that connect: a connection is taken at   *)
(* most once, and every connection that was taken is closed in the end,    *)
(* whatever becomes of its session or of the listener.                     *)
CONSTANT Connections
VARIABLE conn

States == {"absent", "queued", "open", "closed"}

Init == conn \in [Connections -> {"absent", "open"}]

Move(c, here, there) ==
  /\ conn[c] = here
  /\ conn' = [conn EXCEPT ![c] = there]

Arrive(c) == Move(c, "absent", "queued")
Take(c) == Move(c, "queued", "open")
Close(c) == Move(c, "open", "closed")

(* The listener is gone: nobody will take what is queued.                  *)
Drop == conn' = [c \in Connections |->
                   IF conn[c] = "queued" THEN "closed" ELSE conn[c]]

Die == conn' = [c \in Connections |->
                  IF conn[c] = "absent" THEN "absent" ELSE "closed"]

Next == Drop \/ Die \/ \E c \in Connections : Arrive(c) \/ Take(c) \/ Close(c)

Spec == Init /\ [][Next]_conn /\ \A c \in Connections : WF_conn(Close(c))
=============================================================================
