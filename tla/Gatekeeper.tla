----------------------------- MODULE Gatekeeper -----------------------------
(***************************************************************************)
(* What a session promises the owner of the mail server behind it, in      *)
(* terms of that server's transaction alone: a recipient is added only     *)
(* with a verdict that was made for the sender of the transaction, or      *)
(* unchecked while the client is exempt; a body is let in only when none   *)
(* of its recipients was refused; and an exemption ends together with what *)
(* was passed on the strength of it.                                       *)
(***************************************************************************)
CONSTANTS
  Envelopes,  \* senders
  Nobody,     \* no transaction is open
  Refusals,   \* verdicts that keep a message out
  Passes      \* the others that were made by checking

VARIABLES
  sender,    \* of the transaction, or Nobody
  admitted,  \* its recipients: each a verdict and the sender it was made for
  copying,   \* a body is on its way
  exempt     \* the client is not checked

vars == <<sender, admitted, copying, exempt>>

Init ==
  /\ sender = Nobody /\ admitted = {} /\ copying = FALSE
  /\ exempt \in BOOLEAN

Open ==
  /\ sender = Nobody /\ ~copying
  /\ sender' \in Envelopes
  /\ UNCHANGED <<admitted, copying, exempt>>

Admit(verdict, for) ==
  /\ sender # Nobody /\ ~copying
  /\ \/ verdict \in Refusals \cup Passes /\ for = sender
     \/ verdict = "Unchecked" /\ exempt
  /\ admitted' = admitted \cup {[verdict |-> verdict, sender |-> for]}
  /\ UNCHANGED <<sender, copying, exempt>>

Copy ==
  /\ ~copying /\ admitted # {}
  /\ \A r \in admitted : r.verdict \notin Refusals
  /\ copying' = TRUE
  /\ UNCHANGED <<sender, admitted, exempt>>

(* The client has shown who it is.                                         *)
Excuse ==
  /\ ~copying /\ exempt' = TRUE
  /\ UNCHANGED <<sender, admitted, copying>>

(* The transaction is over, with the exemption or without.                 *)
Finish ==
  /\ sender' = Nobody /\ admitted' = {} /\ copying' = FALSE
  /\ exempt' \in BOOLEAN /\ (exempt' => exempt)

Next ==
  \/ Open \/ Copy \/ Excuse \/ Finish
  \/ \E verdict \in Refusals \cup Passes \cup {"Unchecked"}, for \in Envelopes :
       Admit(verdict, for)

Spec == Init /\ [][Next]_vars
=============================================================================
