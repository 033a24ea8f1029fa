--------------------------- MODULE Socket_proofs ---------------------------
(***************************************************************************)
(* What module Socket keeps for every timeout, width of an int and delay of*)
(* poll(): reads are not given up early, nothing sent in the clear is read *)
(* as if it had come by TLS, and what gnutls allocated for a handshake is  *)
(* freed when the connection is closed.                                    *)
(***************************************************************************)
EXTENDS Socket, TLAPS

-----------------------------------------------------------------------------
(* A number below the modulus is its own remainder.                        *)
LEMMA RemainderOfSmall ==
  ASSUME NEW m \in Nat \ {0}, NEW k \in 0 .. m - 1
  PROVE  k % m = k
  BY SMT

(* A remainder is below the modulus, of negative numbers too.              *)
LEMMA RemainderRange ==
  ASSUME NEW m \in Nat \ {0}, NEW k \in Int
  PROVE  k % m \in 0 .. m - 1
  BY SMT

(* An int keeps what fits,                                                 *)
LEMMA IntKeepsWhatFits ==
  ASSUME NEW n \in -IntMax - 1 .. IntMax
  PROVE  Int32(n) = n
<1> DEFINE m == 2 * IntMax + 2
           k == n + IntMax + 1
<1>1. m \in Nat \ {0} /\ k \in 0 .. m - 1
  BY BoundAssumption
<1>2. k % m = k
  BY <1>1, RemainderOfSmall
<1> QED BY <1>2, BoundAssumption DEF Int32

(* and nothing else is ever in it.                                         *)
LEMMA IntRange ==
  ASSUME NEW n \in Int
  PROVE  Int32(n) \in -IntMax - 1 .. IntMax
<1> DEFINE m == 2 * IntMax + 2
           k == n + IntMax + 1
<1>1. m \in Nat \ {0} /\ k \in Int
  BY BoundAssumption
<1>2. k % m \in 0 .. m - 1
  BY <1>1, RemainderRange
<1> QED BY <1>2, BoundAssumption DEF Int32

(* While less than the timeout has passed, the delay is not negative.      *)
LEMMA DelayTellsTheTime ==
  ASSUME NEW limit \in Int, limit <= IntMax, NEW e \in Nat,
         Int32(Int32(limit) - e) < 0
  PROVE  e >= limit
<1> SUFFICES ASSUME e < limit PROVE FALSE
  OBVIOUS
<1>1. limit \in -IntMax - 1 .. IntMax /\ limit - e \in -IntMax - 1 .. IntMax
  BY BoundAssumption
<1>2. Int32(limit) = limit /\ Int32(limit - e) = limit - e
  BY <1>1, IntKeepsWhatFits
<1> QED BY <1>2

-----------------------------------------------------------------------------
(* What a unit, and what is left of a record, is made of.                  *)
LEMMA UnitBody ==
  ASSUME NEW u \in Unit
  PROVE  /\ u.body \in Seq(Byte) /\ u.body # <<>>
         /\ Head(u.body) \in Byte /\ u.body[1] \in Byte
         /\ Tail(u.body) \in Seq(Byte)
<1>1. PICK s \in Seq(Byte) : s # <<>> /\ u.body = s
  <2>1. <<"hello">> \in Seq(Byte) /\ <<"x">> \in Seq(Byte) /\ <<"LF">> \in Seq(Byte)
        /\ <<"LF", "x">> \in Seq(Byte)
    BY DEF Byte
  <2>2. \A c \in Byte \ {"hello"} : <<c>> \in Seq(Byte) /\ <<c>> # <<>>
    OBVIOUS
  <2> QED BY <2>1, <2>2 DEF Unit, Clear, Record
<1> QED BY <1>1

-----------------------------------------------------------------------------
(* The end of a read is at the deadline that was computed when it began.   *)
DeadlineInv ==
  pc \in {"looping", "polling", "timed out"} => deadline = Int32(timeout * Millis)

(* Nothing is decrypted before the handshake, and what has been decrypted  *)
(* came by TLS; the handshake begins with an empty line, and from there on *)
(* the socket is marked as secure until it is closed.                      *)
TlsInv ==
  /\ ~secure => pending = Nothing
  /\ pending.tls
  /\ pc = "securing" => ~clear
  /\ shaken /\ pc # "closed" => secure

(* The inductive invariant.                                                *)
Inv == TypeOK /\ DeadlineInv /\ TlsInv /\ TimeoutNotEarly
       /\ ClearStaysOutside /\ TlsTornDown

(* It holds when the connection is new.                                    *)
LEMMA InitInv == Init => Inv
<1> SUFFICES ASSUME Init PROVE Inv
  OBVIOUS
<1>1. Nothing \in [tls : BOOLEAN, body : Seq(Byte)] /\ Nothing.tls
  BY DEF Nothing
<1>2. TypeOK
  <2>1. 0 \in -IntMax - 1 .. IntMax /\ 0 \in 0 .. IntMax + MaxLate /\ 0 \in 0 .. MaxUnits
    BY BoundAssumption
  <2>2. wire \in Seq(Unit) /\ line \in Seq(Byte)
    BY DEF Init
  <2> QED BY <1>1, <2>1, <2>2 DEF Init, TypeOK
<1> QED
  BY <1>1, <1>2 DEF Init, Inv, DeadlineInv, TlsInv, TimeoutNotEarly,
     ClearStaysOutside, TlsTornDown

(* A byte that is read leaves the line and the place of the session typed. *)
LEMMA FeedTypes ==
  ASSUME TypeOK, NEW c \in Byte, NEW byTls \in BOOLEAN, Feed(c, byTls)
  PROVE  /\ line' \in Seq(Byte) /\ pc' \in {"idle", "replying"}
         /\ clear' \in BOOLEAN /\ (byTls => clear' = clear)
<1>1. line' \in Seq(Byte) /\ pc' \in {"idle", "replying"}
  <2>1. line \in Seq(Byte)
    BY DEF TypeOK
  <2>2. \/ pc' = "replying" /\ line' = line
        \/ pc' = "idle" /\ line' = Append(line, c)
    BY DEF Feed
  <2> QED BY <2>1, <2>2
<1>2. clear' \in BOOLEAN
  BY DEF TypeOK, Feed
<1>3. byTls => clear' = clear
  BY DEF TypeOK, Feed
<1> QED BY <1>1, <1>2, <1>3

(* Every step keeps the types.                                             *)
LEMMA TypesKept == ASSUME Inv, [Next]_vars PROVE TypeOK'
<1> USE BoundAssumption, TimeoutAssumption DEF Inv, client, time, security
<1>1. CASE ReadPending
  <2>1. Head(pending.body) \in Byte /\ pending.tls \in BOOLEAN /\ Tail(pending.body) \in Seq(Byte)
    BY <1>1 DEF ReadPending, TypeOK
  <2>2. /\ line' \in Seq(Byte) /\ pc' \in {"idle", "replying"} /\ clear' \in BOOLEAN
    BY <1>1, <2>1, FeedTypes DEF ReadPending
  <2> QED BY <1>1, <2>1, <2>2 DEF ReadPending, TypeOK
<1>2. CASE Read
  <2>1. timeout * Millis \in Int
    <3>1. timeout \in Timeouts
      BY DEF TypeOK
    <3> QED BY <3>1, TimeoutAssumption
  <2>2. Int32(timeout * Millis) \in -IntMax - 1 .. IntMax
    BY <2>1, IntRange
  <2> QED BY <1>2, <2>2 DEF Read, TypeOK
<1>3. CASE Poll
  BY <1>3 DEF Poll, TypeOK
<1>4. CASE Timeout
  BY <1>4 DEF Timeout, TypeOK
<1>5. CASE PollReturns \/ PollFails
  <2>1. LeaveLoop
    BY <1>5 DEF PollReturns, PollFails
  <2>2. 0 \in -IntMax - 1 .. IntMax /\ 0 \in 0 .. IntMax + MaxLate
    OBVIOUS
  <2> QED BY <2>1, <2>2 DEF LeaveLoop, TypeOK
<1>6. CASE PollExpires
  BY <1>6 DEF PollExpires, TypeOK
<1>7. CASE Receive
  <2>1. Head(wire) \in Unit /\ Tail(wire) \in Seq(Unit)
    BY <1>7 DEF Receive, TypeOK
  <2>2. (IF Head(wire).tls THEN "x" ELSE Head(wire).body[1]) \in Byte
    BY <2>1, UnitBody DEF Byte
  <2>3. /\ line' \in Seq(Byte) /\ pc' \in {"idle", "replying"} /\ clear' \in BOOLEAN
    BY <1>7, <2>2, FeedTypes DEF Receive
  <2>4. half' \in BOOLEAN
    BY <1>7 DEF Receive, TypeOK
  <2> QED BY <1>7, <2>1, <2>3, <2>4 DEF Receive, TypeOK
<1>8. CASE ReceiveRecord
  <2>1. Head(wire) \in Unit /\ Tail(wire) \in Seq(Unit)
    BY <1>8 DEF ReceiveRecord, Arrived, TypeOK
  <2>2. Head(Head(wire).body) \in Byte /\ Tail(Head(wire).body) \in Seq(Byte)
    BY <2>1, UnitBody
  <2>3. pending' \in [tls : BOOLEAN, body : Seq(Byte)]
    BY <1>8, <2>1, <2>2 DEF ReceiveRecord, Unit, Clear, Record
  <2>4. /\ line' \in Seq(Byte) /\ pc' \in {"idle", "replying"} /\ clear' \in BOOLEAN
    BY <1>8, <2>2, FeedTypes DEF ReceiveRecord
  <2> QED BY <1>8, <2>1, <2>3, <2>4 DEF ReceiveRecord, TypeOK
<1>9. CASE ReceiveFails
  BY <1>9 DEF ReceiveFails, Fail, TypeOK
<1>10. CASE Reply
  <2>1. <<>> \in Seq(Byte)
    OBVIOUS
  <2>2. pc' \in {"securing", "idle"} /\ line' = <<>> /\ clear' = FALSE
    BY <1>10 DEF Reply
  <2> QED BY <1>10, <2>1, <2>2 DEF Reply, TypeOK
<1>11. CASE ReplyFails \/ Quit \/ HandshakeFails
  BY <1>11 DEF ReplyFails, Quit, HandshakeFails, Fail, TypeOK
<1>12. CASE Handshake
  <2>1. wire \in Seq(Unit) /\ wire # <<>> /\ wire' = Tail(wire)
    BY <1>12 DEF Handshake, Arrived, TypeOK
  <2>2. wire' \in Seq(Unit)
    BY <2>1
  <2> QED BY <1>12, <2>2 DEF Handshake, TypeOK
<1>13. CASE Makesecure \/ MakesecureThrows
  BY <1>13 DEF Makesecure, MakesecureThrows, TypeOK
<1>14. CASE Deinit
  <2>1. Nothing \in [tls : BOOLEAN, body : Seq(Byte)]
    BY DEF Nothing
  <2>2. session' \in BOOLEAN /\ secure' \in BOOLEAN
    BY <1>14 DEF Deinit, TypeOK
  <2> QED BY <1>14, <2>1, <2>2 DEF Deinit, TypeOK
<1>15. ASSUME NEW u \in Unit, NEW part \in BOOLEAN, Send(u, part)
       PROVE  TypeOK'
  <2>1. /\ wire \in Seq(Unit) /\ wire' = Append(wire, u)
        /\ sent \in 0 .. MaxUnits /\ sent < MaxUnits /\ sent' = sent + 1
    BY <1>15 DEF Send, TypeOK
  <2>2. wire' \in Seq(Unit) /\ sent' \in 0 .. MaxUnits
    BY <2>1
  <2> QED BY <1>15, <2>2 DEF Send, TypeOK
<1>16. CASE Client
  <2>1. CASE SendRest \/ HangUp
    BY <2>1 DEF SendRest, HangUp, TypeOK
  <2> QED BY <1>15, <1>16, <2>1 DEF Client, Unit
<1>17. CASE Tick
  <2>1. /\ elapsed \in 0 .. IntMax + MaxLate /\ deadline \in -IntMax - 1 .. IntMax
        /\ elapsed < deadline + MaxLate /\ elapsed' = elapsed + 1
    BY <1>17 DEF Tick, TypeOK
  <2>2. elapsed' \in 0 .. IntMax + MaxLate
    BY <2>1
  <2> QED BY <1>17, <2>2 DEF Tick, TypeOK
<1>18. CASE UNCHANGED vars
  BY <1>18 DEF vars, TypeOK
<1> QED
  BY <1>1, <1>2, <1>3, <1>4, <1>5, <1>6, <1>7, <1>8, <1>9, <1>10, <1>11,
     <1>12, <1>13, <1>14, <1>16, <1>17, <1>18 DEF Next, Spey

-----------------------------------------------------------------------------
(* The deadline is computed once for each read and not touched meanwhile.  *)
LEMMA DeadlineKept == ASSUME Inv, [Next]_vars PROVE DeadlineInv'
<1> USE DEF Inv, DeadlineInv, client, time, security
<1>1. CASE Read
  BY <1>1 DEF Read, Int32
<1>2. ASSUME NEW c, NEW byTls, Feed(c, byTls)
      PROVE  pc' \in {"idle", "replying"}
  BY <1>2 DEF Feed
<1>3. CASE ReadPending \/ Receive \/ ReceiveRecord
  BY <1>2, <1>3 DEF ReadPending, Receive, ReceiveRecord
<1>4. CASE Reply \/ Makesecure \/ MakesecureThrows \/ Handshake \/ Deinit
  <2>1. pc' \in {"idle", "securing", "shaking hands", "ended", "closed"}
    BY <1>4 DEF Reply, Makesecure, MakesecureThrows, Handshake, Deinit
  <2> QED BY <2>1
<1>5. CASE ReceiveFails \/ ReplyFails \/ Quit \/ HandshakeFails
  BY <1>5 DEF ReceiveFails, ReplyFails, Quit, HandshakeFails, Fail
<1>6. CASE Poll \/ Timeout \/ PollExpires
  BY <1>6 DEF Poll, Timeout, PollExpires, Int32
<1>7. CASE PollReturns \/ PollFails
  BY <1>7 DEF PollReturns, PollFails, LeaveLoop
<1>8. CASE Client \/ Tick \/ UNCHANGED vars
  BY <1>8 DEF Client, Send, SendRest, HangUp, Tick, vars, Int32
<1> QED
  BY <1>1, <1>3, <1>4, <1>5, <1>6, <1>7, <1>8 DEF Next, Spey

(* Only a timeout ends at "timed out", and nothing leaves it.              *)
LEMMA TimeoutKept == ASSUME Inv, [Next]_vars PROVE TimeoutNotEarly'
<1> USE DEF client, time, security
<1>1. timeout' = timeout
  BY DEF Next, Spey, Client, ReadPending, Read, Poll, Timeout, PollReturns,
     PollFails, LeaveLoop, PollExpires, Receive, ReceiveRecord, ReceiveFails,
     Reply, ReplyFails, Quit, Fail, Makesecure, MakesecureThrows, Handshake,
     HandshakeFails, Deinit, Send, SendRest, HangUp, Tick, vars
<1>2. CASE Timeout
  <2> SUFFICES ASSUME timeout * Millis <= IntMax PROVE elapsed >= timeout * Millis
    BY <1>2 DEF Timeout, TimeoutNotEarly
  <2>1. timeout \in Timeouts /\ elapsed \in 0 .. IntMax + MaxLate
    BY DEF Inv, TypeOK
  <2>2. timeout * Millis \in Int /\ elapsed \in Nat
    BY <2>1, TimeoutAssumption, BoundAssumption
  <2>3. Int32(Int32(timeout * Millis) - elapsed) < 0
    BY <1>2 DEF Timeout, Delay, Inv, DeadlineInv
  <2> QED BY <2>2, <2>3, DelayTellsTheTime
<1>3. CASE pc' = "timed out" /\ ~Timeout
  <2>1. pc = "timed out" /\ UNCHANGED elapsed
    <3>1. ASSUME NEW c, NEW byTls, Feed(c, byTls) PROVE pc' \in {"idle", "replying"}
      BY <3>1 DEF Feed
    <3>2. ~Spey
      BY <1>3, <3>1 DEF Spey, ReadPending, Read, Poll, PollReturns, PollFails,
         LeaveLoop, PollExpires, Receive, ReceiveRecord, ReceiveFails, Reply,
         ReplyFails, Quit, Fail, Makesecure, MakesecureThrows, Handshake,
         HandshakeFails, Deinit
    <3> QED BY <1>3, <3>2 DEF Next, Client, Send, SendRest, HangUp, Tick, vars
  <2> QED BY <1>1, <2>1 DEF Inv, TimeoutNotEarly
<1> QED BY <1>2, <1>3 DEF TimeoutNotEarly

(* What is decrypted after the handshake is the client's, the line is begun*)
(* anew before it, and only deinit() undoes what makesecure() does.        *)
LEMMA TlsKept ==
  ASSUME Inv, [Next]_vars PROVE TlsInv' /\ ClearStaysOutside' /\ TlsTornDown'
<1> DEFINE Still == /\ secure' = secure /\ pending' = pending /\ clear' = clear
                    /\ session' = session /\ shaken' = shaken
                    /\ pc' = "securing" => pc = "securing"
                    /\ pc = "closed" <=> pc' = "closed"
           Goal == TlsInv' /\ ClearStaysOutside' /\ TlsTornDown'
<1>0. ASSUME Still PROVE Goal
  BY <1>0 DEF Inv, TlsInv, ClearStaysOutside, TlsTornDown
<1> USE DEF client, time, security
<1>1. CASE ReadPending
  BY <1>1 DEF ReadPending, Feed, TypeOK, Inv, TlsInv, ClearStaysOutside, TlsTornDown
<1>2. CASE Receive
  BY <1>2 DEF Receive, Feed, Inv, TlsInv, ClearStaysOutside, TlsTornDown
<1>3. CASE ReceiveRecord
  <2>1. /\ secure /\ secure' = secure /\ clear' = clear
        /\ pc' \in {"idle", "replying"}
    BY <1>3 DEF ReceiveRecord, Feed, Inv, TypeOK
  <2>2. pending'.tls
    <3>1. Head(wire) \in Unit /\ Head(wire).tls
      BY <1>3 DEF ReceiveRecord, Arrived, Inv, TypeOK
    <3> QED BY <1>3, <3>1 DEF ReceiveRecord, Unit, Clear, Record
  <2> QED BY <2>1, <2>2 DEF Inv, TlsInv, ClearStaysOutside, TlsTornDown
<1>4. CASE Reply
  BY <1>4 DEF Reply, Inv, TlsInv, ClearStaysOutside, TlsTornDown
<1>5. CASE Makesecure
  BY <1>5 DEF Makesecure, Inv, TlsInv, ClearStaysOutside, TlsTornDown
<1>6. CASE MakesecureThrows
  BY <1>6 DEF MakesecureThrows, Inv, TlsInv, ClearStaysOutside, TlsTornDown
<1>7. CASE Deinit
  BY <1>7 DEF Deinit, Nothing, Inv, TlsInv, ClearStaysOutside, TlsTornDown
<1>8. CASE Read \/ Poll \/ Timeout \/ PollReturns \/ PollFails \/ PollExpires
  <2>1. Still
    BY <1>8 DEF Read, Poll, Timeout, PollReturns, PollFails, LeaveLoop, PollExpires
  <2> QED BY <1>0, <2>1
<1>9. CASE ReceiveFails \/ ReplyFails \/ Quit \/ Handshake \/ HandshakeFails
  <2>1. Still
    BY <1>9 DEF ReceiveFails, ReplyFails, Quit, Handshake, HandshakeFails, Fail
  <2> QED BY <1>0, <2>1
<1>10. CASE Client \/ Tick \/ UNCHANGED vars
  <2>1. Still
    BY <1>10 DEF Client, Send, SendRest, HangUp, Tick, vars
  <2> QED BY <1>0, <2>1
<1> HIDE DEF Goal
<1> QED
  BY <1>1, <1>2, <1>3, <1>4, <1>5, <1>6, <1>7, <1>8,
     <1>9, <1>10 DEF Next, Spey, Goal

(* Every step keeps the invariant.                                         *)
LEMMA InvKept == Inv /\ [Next]_vars => Inv'
  BY TypesKept, DeadlineKept, TimeoutKept, TlsKept DEF Inv

-----------------------------------------------------------------------------
(* The invariant holds throughout.                                         *)
LEMMA SocketInv == Spec => []Inv
  BY InitInv, InvKept, PTL DEF Spec

(* The variables of a connection keep their types: in particular a deadline*)
(* always fits the int that it is kept in.                                 *)
THEOREM SocketTypes == Spec => []TypeOK
  BY SocketInv, PTL DEF Inv

(* For every socket-timeout whose milliseconds fit an int, Socket::read()  *)
(* does not give up before it has passed.                                  *)
THEOREM NeverTimesOutEarly == Spec => []TimeoutNotEarly
  BY SocketInv, PTL DEF Inv

(* After STARTTLS no command has a part that was sent in the clear.        *)
THEOREM ClearAlwaysOutside == Spec => []ClearStaysOutside
  BY SocketInv, PTL DEF Inv

(* However a handshake ends, deinit() frees what gnutls allocated for it.  *)
THEOREM TlsAlwaysTornDown == Spec => []TlsTornDown
  BY SocketInv, PTL DEF Inv
=============================================================================
