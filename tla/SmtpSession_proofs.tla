------------------------- MODULE SmtpSession_proofs -------------------------
(* Theorems about SmtpSession, for every set of senders, every set of      *)
(* settings and every limit of the downstream server.                      *)
EXTENDS SmtpSession, TLAPS

(***************************************************************************)
(* Types.                                                                  *)
(***************************************************************************)
(* The command between two commands is a pending command.                  *)
LEMMA IdlePending == Idle \in Pending
  BY DEF Idle, Pending, Command, Plain

(* A session that is not connected has a downstream state of its type.     *)
LEMMA DisconnectedType == Disconnected \in Downstream
  BY DEF Disconnected, Downstream

(* The initial states are typed.                                           *)
LEMMA InitType == Init => TypeOK
  <1> SUFFICES ASSUME Init PROVE TypeOK
    OBVIOUS
  <1>1. pc \in PC /\ deferred \in Code /\ reply \in Code
    BY DEF Init, PC, Code
  <1>2. cmd \in Pending /\ down \in Downstream /\ from \in SenderArgs
    BY IdlePending, DisconnectedType DEF Init, SenderArgs
  <1>3. /\ settings \in SettingsChoices
        /\ errorstate \in BOOLEAN /\ connected \in BOOLEAN
        /\ authenticated \in BOOLEAN /\ trusted \in BOOLEAN
        /\ secure \in BOOLEAN /\ told \in BOOLEAN
    BY DEF Init
  <1>4. voucher \in {"nobody", "downstream", "users"}
    BY DEF Init
  <1> QED
    BY <1>1, <1>2, <1>3, <1>4 DEF TypeOK

(* What the end of a session leaves behind is typed.                       *)
LEMMA TerminateType ==
  ASSUME TypeOK, Terminate, reply' \in Code
  PROVE  TypeOK'
  <1>1. (pc \in PC /\ cmd \in Pending /\ from \in SenderArgs /\ deferred \in Code)'
    BY IdlePending DEF Terminate, PC, SenderArgs, Code
  <1>2. /\ errorstate' \in BOOLEAN /\ connected' \in BOOLEAN
        /\ authenticated' \in BOOLEAN /\ trusted' \in BOOLEAN
        /\ secure' \in BOOLEAN /\ told' \in BOOLEAN
    BY DEF Terminate, TypeOK
  <1>3. settings' \in SettingsChoices /\ down' \in Downstream
    BY DisconnectedType DEF Terminate, TypeOK
  <1>4. voucher' \in {"nobody", "downstream", "users"}
    BY DEF Terminate
  <1> QED
    BY <1>1, <1>2, <1>3, <1>4 DEF TypeOK

(* The arguments a command brings to the downstream server.                *)
LEMMA CommandPending ==
  ASSUME NEW c \in Command
  PROVE  /\ c.verb # "RCPT" => c \in Pending
         /\ c.verb = "RCPT" =>
              \A v \in Verdict : [c EXCEPT !.arg = v] \in Pending
         /\ c.verb = "MAIL" => c.arg \in SenderArgs
  <1>1. c.verb # "RCPT" => c \in Pending
    BY DEF Pending
  <1>2. ASSUME c.verb = "RCPT", NEW v \in Verdict
        PROVE  [c EXCEPT !.arg = v] \in Pending
    BY <1>2 DEF Pending, Command, Plain
  <1>3. c.verb = "MAIL" => c.arg \in SenderArgs
    BY DEF Command, Plain
  <1> QED
    BY <1>1, <1>2, <1>3

(* A pending RCPT carries a verdict in place of its address.               *)
LEMMA PendingArgument ==
  ASSUME NEW c \in Pending
  PROVE  /\ c.verb = "RCPT" => c.arg \in Verdict
         /\ c.verb = "MAIL" => c.arg \in SenderArgs
  BY DEF Pending, Command, Plain

(* Every step keeps the types.                                             *)
LEMMA NextType == TypeOK /\ [Next]_vars => TypeOK'
  <1> SUFFICES ASSUME TypeOK, [Next]_vars PROVE TypeOK'
    OBVIOUS
  <1> USE DEF session, transaction, inside, Say, Loop, Fail, Pass
  <1>1. CASE CheckRbl
    BY <1>1, IdlePending DEF CheckRbl, TypeOK, PC, Code
  <1>2. CASE GreetPause
    BY <1>2, IdlePending DEF GreetPause, TypeOK, PC, Code
  <1>3. CASE Banner
    BY <1>3, IdlePending DEF Banner, TypeOK, PC, Code
  <1>4. CASE Error
    <2>1. reply' \in Code
      BY <1>4 DEF Error, TypeOK
    <2>2. CASE settings.intolerant
      BY <1>4, <2>1, <2>2, TerminateType DEF Error
    <2>3. CASE ~settings.intolerant
      BY <1>4, <2>1, <2>3, IdlePending DEF Error, TypeOK, PC
    <2> QED
      BY <2>2, <2>3
  <1>5. CASE InvalidCommand
    <2>1. reply' \in Code
      BY <1>5 DEF InvalidCommand, Code
    <2>2. CASE settings.intolerant
      BY <1>5, <2>1, <2>2, TerminateType DEF InvalidCommand
    <2>3. CASE ~settings.intolerant
      BY <1>5, <2>1, <2>3, IdlePending DEF InvalidCommand, TypeOK, PC
    <2> QED
      BY <2>2, <2>3
  <1>6. CASE Help
    BY <1>6, IdlePending DEF Help, TypeOK, PC, Code
  <1>7. CASE Quit
    BY <1>7, TerminateType DEF Quit, TypeOK
  <1>8. CASE Starttls
    <2>1. pc' \in PC /\ cmd' \in Pending /\ reply' \in Code
      BY <1>8, IdlePending DEF Starttls, PC, Code
    <2>2. secure' \in BOOLEAN /\ connected' \in BOOLEAN /\ errorstate' \in BOOLEAN
      BY <1>8 DEF Starttls
    <2>3. /\ authenticated' \in BOOLEAN /\ down' \in Downstream
          /\ voucher' \in {"nobody", "downstream", "users"}
      BY <1>8, DisconnectedType DEF Starttls
    <2> QED
      BY <1>8, <2>1, <2>2, <2>3 DEF Starttls, TypeOK
  <1>9. CASE StarttlsRefused
    BY <1>9, IdlePending DEF StarttlsRefused, TypeOK, PC, Code
  <1>10. ASSUME NEW c \in Command, HandleCommand(c)
         PROVE  TypeOK'
    <2> USE CommandPending, IdlePending
    <2>1. CASE Ehlo(c)
      BY <2>1 DEF Ehlo, TypeOK, PC, Code
    <2>2. CASE Mail(c)
      BY <2>2 DEF Mail, TypeOK, PC, Code
    <2>3. CASE RcptRejected(c)
      BY <2>3 DEF RcptRejected, TypeOK, PC, Code
    <2>4. ASSUME NEW v \in GreylistResponse, RcptJudged(c, v)
          PROVE  TypeOK'
      <3>1. v \in Verdict
        BY DEF Verdict
      <3>2. deferred' \in Code
        BY <2>4 DEF RcptJudged, TypeOK, Code
      <3>3. errorstate' \in BOOLEAN /\ told' \in BOOLEAN
        BY <2>4 DEF RcptJudged, TypeOK
      <3>4. pc' \in PC /\ cmd' \in Pending
        BY <2>4, <3>1 DEF RcptJudged, PC
      <3> QED
        BY <2>4, <3>2, <3>3, <3>4 DEF RcptJudged, TypeOK
    <2>5. CASE RcptUnchecked(c)
      BY <2>5 DEF RcptUnchecked, TypeOK, PC, Verdict
    <2>6. CASE Rset(c)
      BY <2>6 DEF Rset, TypeOK, PC, SenderArgs
    <2>7. CASE Data(c)
      BY <2>7 DEF Data, TypeOK, PC
    <2>8. CASE OtherCommand(c)
      BY <2>8 DEF OtherCommand, TypeOK, PC
    <2> QED
      BY <1>10, <2>1, <2>2, <2>3, <2>4, <2>5, <2>6, <2>7, <2>8
         DEF HandleCommand
  <1>11. CASE Connect
    <2>1. down' \in Downstream
      BY <1>11, DisconnectedType DEF Connect, TypeOK, Downstream, Disconnected
    <2> QED
      BY <1>11, <2>1 DEF Connect, TypeOK
  <1>12. CASE ConnectFails
    BY <1>12, TerminateType DEF ConnectFails, Code
  <1>13. CASE Relay
    <2>1. down' \in Downstream
      <3>1. CASE cmd.verb \in {"EHLO", "RSET"} /\ down' = NoTransaction(down)
        BY <3>1 DEF NoTransaction, TypeOK, Downstream
      <3>2. CASE UNCHANGED down
        BY <3>2 DEF TypeOK
      <3>3. CASE /\ cmd.verb = "MAIL"
                 /\ down' = [down EXCEPT !.from = cmd.arg]
        BY <3>3, PendingArgument DEF TypeOK, Downstream
      <3>4. CASE /\ cmd.verb = "RCPT"
                 /\ down' = [down EXCEPT !.rcpts =
                               @ \cup {[verdict |-> cmd.arg, sender |-> from]}]
        <4>1. [verdict |-> cmd.arg, sender |-> from] \in Recipient
          BY <3>4, PendingArgument DEF TypeOK, Recipient
        <4> QED
          BY <3>4, <4>1 DEF TypeOK, Downstream
      <3> QED
        BY <1>13, <3>1, <3>2, <3>3, <3>4 DEF Relay, Obeys
    <2> QED
      BY <1>13, <2>1, IdlePending DEF Relay, TypeOK, PC, Code
  <1>14. ASSUME NEW code \in Code, RelayRefused(code)
         PROVE  TypeOK'
    <2>1. CASE IsError(code) /\ settings.intolerant
      BY <1>14, <2>1, TerminateType DEF RelayRefused
    <2>2. CASE ~(IsError(code) /\ settings.intolerant)
      BY <1>14, <2>2, IdlePending DEF RelayRefused, TypeOK, PC
    <2> QED
      BY <2>1, <2>2
  <1>15. CASE RelayData
    BY <1>15 DEF RelayData, TypeOK, PC, Code
  <1>16. ASSUME NEW code \in Code, Body(code)
         PROVE  TypeOK'
    <2>1. down' \in Downstream
      BY <1>16 DEF Body, NoTransaction, TypeOK, Downstream
    <2> QED
      BY <1>16, <2>1, IdlePending DEF Body, TypeOK, PC
  <1>17. CASE Authenticate
    <2>1. CASE AuthOff
      BY <2>1, IdlePending DEF AuthOff, TypeOK, PC, Code
    <2>2. ASSUME NEW code \in Code, ProxyAuth(code)
          PROVE  TypeOK'
      <3>1. Judges(code)
        BY <2>2 DEF ProxyAuth
      <3>2. down' \in Downstream
        BY <3>1 DEF Judges, TypeOK, Downstream
      <3>3. /\ reply' = code
            /\ \/ pc' = "proxyauth" /\ UNCHANGED cmd
               \/ pc' = "command" /\ cmd' = Idle
            /\ UNCHANGED <<transaction, connected, session, settings>>
        BY <2>2 DEF ProxyAuth
      <3>4. pc' \in PC /\ cmd' \in Pending
        BY <3>3, IdlePending DEF PC, TypeOK
      <3> QED
        BY <3>2, <3>3, <3>4 DEF TypeOK
    <2>3. ASSUME NEW code \in Code, ProxyAuthLine(code)
          PROVE  TypeOK'
      <3>1. Judges(code)
        BY <2>3 DEF ProxyAuthLine
      <3>2. down' \in Downstream
        BY <3>1 DEF Judges, TypeOK, Downstream
      <3> QED
        <4>1. pc' \in PC /\ cmd' \in Pending /\ reply' \in Code
          BY <2>3, IdlePending DEF ProxyAuthLine, TypeOK, PC
        <4>2. authenticated' \in BOOLEAN
          BY <2>3 DEF ProxyAuthLine, TypeOK
        <4>3. voucher' \in {"nobody", "downstream", "users"}
          BY <2>3 DEF ProxyAuthLine, TypeOK
        <4> QED
          BY <2>3, <3>2, <4>1, <4>2, <4>3 DEF ProxyAuthLine, TypeOK
    <2>4. CASE InternalAuth
      BY <2>4 DEF InternalAuth, TypeOK, PC, Code
    <2>5. CASE InternalAuthRefused
      BY <2>5, IdlePending DEF InternalAuthRefused, TypeOK, PC, Code
    <2>6. CASE Username
      BY <2>6, IdlePending DEF Username, TypeOK, PC, Code
    <2>7. ASSUME NEW code \in Code, Credentials(code)
          PROVE  TypeOK'
      <3>2. CASE code = 235
        <4>1. /\ pc' = "command" /\ cmd' = Idle /\ reply' = code
              /\ authenticated' = TRUE /\ voucher' = "users"
              /\ UNCHANGED <<deferred, from, errorstate, told, trusted, secure,
                             inside, settings>>
          BY <2>7, <3>2, ZenonT(40) DEF Credentials
        <4>2. pc' \in PC /\ cmd' \in Pending
          BY <4>1, IdlePending DEF PC
        <4> QED
          BY <4>1, <4>2 DEF TypeOK
      <3>3. CASE code # 235
        <4>1. /\ pc' = "error" /\ cmd' = Idle /\ deferred' = code
              /\ UNCHANGED <<reply, authenticated, voucher, from, errorstate, told,
                             trusted, secure, inside, settings>>
          BY <2>7, <3>3 DEF Credentials
        <4> QED
          BY <4>1, IdlePending DEF TypeOK, PC
      <3> QED
        BY <3>2, <3>3
    <2> QED
      BY <1>17, <2>1, <2>2, <2>3, <2>4, <2>5, <2>6, <2>7 DEF Authenticate
  <1>18. CASE Reload
    BY <1>18 DEF Reload, TypeOK
  <1>19. CASE Break
    BY <1>19, TerminateType DEF Break, TypeOK
  <1>20. CASE UNCHANGED vars
    BY <1>20 DEF vars, TypeOK
  <1> QED
    BY <1>1, <1>2, <1>3, <1>4, <1>5, <1>6, <1>7, <1>8, <1>9, <1>10, <1>11,
       <1>12, <1>13, <1>14, <1>15, <1>16, <1>17, <1>18, <1>19, <1>20 DEF Next

(* The variables have their types in every state of a session.             *)
THEOREM SessionTypes == Spec => []TypeOK
  BY InitType, NextType, PTL DEF Spec

(* A RCPT that was judged, or passed unchecked, is a pending command.      *)
LEMMA RcptWithVerdict ==
  ASSUME NEW c \in Command, c.verb = "RCPT", NEW v \in Verdict
  PROVE  [c EXCEPT !.arg = v].verb = "RCPT" /\ [c EXCEPT !.arg = v].arg = v
  BY DEF Command, Plain

(* What a verdict does to the deferred error.                              *)
LEMMA JudgedRecipient ==
  ASSUME errorstate \in BOOLEAN, told \in BOOLEAN,
         NEW c, NEW v \in GreylistResponse, RcptJudged(c, v)
  PROVE  /\ v \in Refused => errorstate' /\ deferred' \in {451, 554}
         /\ v \notin Refused => /\ errorstate' = errorstate /\ told' = told
                               /\ deferred' = deferred
<1>1. CASE v = "Accepted"
  BY <1>1 DEF RcptJudged, Refused
<1>2. CASE v = "GreyListed"
  BY <1>2, ZenonT(40) DEF RcptJudged, Refused
<1>3. CASE v = "BlackListed"
  BY <1>3, ZenonT(40) DEF RcptJudged, Refused
<1> QED BY <1>1, <1>2, <1>3 DEF GreylistResponse

(***************************************************************************)
(* What holds under any settings.  The downstream connection is the one    *)
(* spey believes it has, opened in the present state of TLS; nothing is    *)
(* authenticated on a connection that is not open; and a RCPT on its way   *)
(* has been passed unchecked, or refused, on grounds that still stand.     *)
(***************************************************************************)
AuthNeedsConnection == down.auth \/ pc = "proxyauth" => down.open

PendingExempt ==
  pc = "inside" /\ cmd.verb = "RCPT" /\ cmd.arg = "Unchecked" => Exempt

PendingRefusal ==
  pc = "inside" /\ cmd.verb = "RCPT" /\ cmd.arg \in Refused => errorstate

PromptsOnTls == pc \in {"plainauth", "username", "password"} => secure

SessionInv ==
  /\ TypeOK
  /\ PromptsOnTls
  /\ TlsStartsAfresh /\ AuthNeedsConnection
  /\ ExemptionBacked /\ PendingExempt
  /\ RefusalPendingOrTold /\ PendingRefusal
  /\ RefusalCodeStands

(* The end of a session re-establishes the invariant.                      *)
LEMMA TerminateInv ==
  ASSUME Terminate
  PROVE  /\ PromptsOnTls' /\ TlsStartsAfresh' /\ AuthNeedsConnection'
         /\ ExemptionBacked' /\ PendingExempt'
         /\ RefusalPendingOrTold' /\ PendingRefusal' /\ RefusalCodeStands'
  BY DEF Terminate, Disconnected, TlsStartsAfresh, AuthNeedsConnection,
         ExemptionBacked, PendingExempt, RefusalPendingOrTold, PendingRefusal,
         RefusalCodeStands, PromptsOnTls, Exempt

(* A step of an AUTH exchange: it leaves the refusals and the envelope as   *)
(* they are, and a client it authenticates has somebody to vouch for it.   *)
AuthStep ==
  /\ UNCHANGED <<connected, trusted, secure, errorstate, told>>
  /\ down'.open = down.open /\ down'.tls = down.tls
  /\ down'.rcpts = down.rcpts
  /\ down.auth => down'.auth
  /\ pc \notin {"error", "closed"} /\ pc' # "inside"
  /\ pc' \in {"plainauth", "username", "password"} => secure
  /\ deferred' = deferred \/ pc' \in {"error", "closed"}
  /\ \/ UNCHANGED <<authenticated, voucher>>
     \/ /\ authenticated' = TRUE
        /\ \/ voucher' = "downstream" /\ down'.auth
           \/ voucher' = "users" /\ secure

(* A step that touches neither the envelope nor errorstate keeps it.       *)
LEMMA AuthStepInv ==
  ASSUME SessionInv, AuthStep, AuthNeedsConnection'
  PROVE  /\ PromptsOnTls' /\ TlsStartsAfresh' /\ AuthNeedsConnection'
         /\ ExemptionBacked' /\ PendingExempt'
         /\ RefusalPendingOrTold' /\ PendingRefusal' /\ RefusalCodeStands'
  <1>1. TlsStartsAfresh'
    BY DEF AuthStep, SessionInv, TlsStartsAfresh
  <1>2. AuthNeedsConnection'
    OBVIOUS
  <1>3. PromptsOnTls' /\ PendingExempt' /\ PendingRefusal'
    BY DEF AuthStep, PromptsOnTls, PendingExempt, PendingRefusal
  <1>4. RefusalPendingOrTold' /\ RefusalCodeStands'
    BY DEF AuthStep, SessionInv, RefusalPendingOrTold, RefusalCodeStands
  <1>5. ExemptionBacked'
    <2>1. CASE UNCHANGED <<authenticated, voucher>>
      BY <2>1 DEF AuthStep, SessionInv, ExemptionBacked, Exempt
    <2>2. CASE /\ authenticated' = TRUE
               /\ \/ voucher' = "downstream" /\ down'.auth
                  \/ voucher' = "users" /\ secure
      BY <2>2 DEF AuthStep, ExemptionBacked, Exempt
    <2> QED
      BY <2>1, <2>2 DEF AuthStep
  <1> QED
    BY <1>1, <1>2, <1>3, <1>4, <1>5

(* Every step of an AUTH exchange keeps the invariant.                     *)
LEMMA AuthenticateStep ==
  ASSUME SessionInv, Authenticate
  PROVE  AuthStep /\ AuthNeedsConnection'
  <1> USE DEF session, transaction, inside, Loop, Fail, AuthStep,
              AuthNeedsConnection
  <1>1. TypeOK /\ (down.auth \/ pc = "proxyauth" => down.open)
    BY DEF SessionInv, AuthNeedsConnection
  <1>2. ASSUME NEW mode, AuthPending(mode)
        PROVE  pc = "inside" /\ down.open
    BY <1>2 DEF AuthPending, SessionInv, TlsStartsAfresh
  <1>3. CASE AuthOff
    BY <1>1, <1>2, <1>3 DEF AuthOff
  <1>4. ASSUME NEW code \in Code, Judges(code)
        PROVE  /\ down'.open = down.open /\ down'.tls = down.tls
               /\ down'.rcpts = down.rcpts /\ (down.auth => down'.auth)
               /\ code = 235 => down'.auth
    BY <1>1, <1>4 DEF Judges, TypeOK, Downstream
  <1>5. ASSUME NEW code \in Code, ProxyAuth(code)
        PROVE  AuthStep /\ AuthNeedsConnection'
    <2>1. Judges(code) /\ AuthPending("ProxyAuth")
      BY <1>5 DEF ProxyAuth
    <2>2. /\ UNCHANGED <<transaction, connected, session>>
          /\ pc' \in {"proxyauth", "command"}
      BY <1>5 DEF ProxyAuth
    <2> QED
      BY <1>2, <1>4, <2>1, <2>2
  <1>6. ASSUME NEW code \in Code, ProxyAuthLine(code)
        PROVE  AuthStep /\ AuthNeedsConnection'
    <2>1. Judges(code)
      BY <1>6 DEF ProxyAuthLine
    <2>2. /\ UNCHANGED <<transaction, connected, trusted, secure>>
          /\ pc = "proxyauth" /\ pc' \in {"proxyauth", "command"}
      BY <1>6 DEF ProxyAuthLine
    <2>3. \/ UNCHANGED <<authenticated, voucher>>
          \/ code = 235 /\ authenticated' = TRUE /\ voucher' = "downstream"
      BY <1>6 DEF ProxyAuthLine
    <2> QED
      BY <1>1, <1>4, <2>1, <2>2, <2>3
  <1>7. CASE InternalAuth
    BY <1>1, <1>2, <1>7 DEF InternalAuth
  <1>8. CASE InternalAuthRefused
    BY <1>1, <1>2, <1>8 DEF InternalAuthRefused
  <1>9. CASE Username
    BY <1>1, <1>9 DEF Username, SessionInv, PromptsOnTls
  <1>10. ASSUME NEW code \in Code, Credentials(code)
         PROVE  AuthStep /\ AuthNeedsConnection'
    <2>1. UNCHANGED <<errorstate, told, trusted, secure, inside>>
      BY <1>10 DEF Credentials
    <2>2. pc \in {"plainauth", "password", "inside"} /\ secure
      <3>1. pc \in {"plainauth", "password"} \/ (pc = "inside" /\ secure)
        BY <1>10 DEF Credentials, AuthPending
      <3> QED
        BY <3>1 DEF SessionInv, PromptsOnTls
    <2>3. CASE code = 235
      <3>1. /\ authenticated' = TRUE /\ voucher' = "users"
            /\ pc' = "command" /\ deferred' = deferred
        BY <1>10, <2>3, ZenonT(40) DEF Credentials
      <3> QED
        BY <1>1, <2>1, <2>2, <3>1
    <2>4. CASE code # 235
      <3>1. UNCHANGED <<authenticated, voucher>> /\ pc' = "error"
        BY <1>10, <2>4 DEF Credentials
      <3> QED
        BY <1>1, <2>1, <2>2, <3>1
    <2> QED
      BY <2>3, <2>4
  <1> QED
    BY <1>3, <1>5, <1>6, <1>7, <1>8, <1>9, <1>10 DEF Authenticate

(* The invariant holds at the start.                                       *)
LEMMA InitInv == Init => SessionInv
  <1> SUFFICES ASSUME Init PROVE SessionInv
    OBVIOUS
  <1>1. /\ PromptsOnTls /\ TlsStartsAfresh /\ AuthNeedsConnection
        /\ ExemptionBacked
    BY DEF Init, Disconnected, PromptsOnTls, TlsStartsAfresh,
           AuthNeedsConnection, ExemptionBacked
  <1>2. PendingExempt /\ RefusalPendingOrTold /\ PendingRefusal
    BY DEF Init, Disconnected, PendingExempt, RefusalPendingOrTold,
           PendingRefusal
  <1>3. RefusalCodeStands
    BY DEF Init, RefusalCodeStands
  <1> QED
    BY <1>1, <1>2, <1>3, InitType DEF SessionInv

(* Every step keeps the invariant.                                         *)
LEMMA NextInv == SessionInv /\ [Next]_vars => SessionInv'
  <1> SUFFICES ASSUME SessionInv, [Next]_vars PROVE SessionInv'
    OBVIOUS
  <1>0. TypeOK'
    BY NextType DEF SessionInv
  <1> DEFINE Goal == /\ PromptsOnTls /\ TlsStartsAfresh /\ AuthNeedsConnection
                     /\ ExemptionBacked /\ PendingExempt
                     /\ RefusalPendingOrTold /\ PendingRefusal
                     /\ RefusalCodeStands
  <1> SUFFICES Goal'
    BY <1>0 DEF SessionInv
  <1> USE DEF session, transaction, inside, Loop, Fail, Pass, Exempt,
              SessionInv, TypeOK, TlsStartsAfresh, AuthNeedsConnection,
              ExemptionBacked, PendingExempt, RefusalPendingOrTold,
              PendingRefusal, RefusalCodeStands, PromptsOnTls
  <1>1. CASE CheckRbl
    BY <1>1 DEF CheckRbl
  <1>2. CASE GreetPause
    BY <1>2 DEF GreetPause
  <1>3. CASE Banner
    BY <1>3 DEF Banner
  <1>4. CASE Error
    BY <1>4, TerminateInv DEF Error
  <1>5. CASE InvalidCommand
    BY <1>5, TerminateInv DEF InvalidCommand
  <1>6. CASE Help
    BY <1>6 DEF Help
  <1>7. CASE Quit
    BY <1>7, TerminateInv DEF Quit
  <1>8. CASE Starttls
    BY <1>8 DEF Starttls, Disconnected
  <1>9. CASE StarttlsRefused
    BY <1>9 DEF StarttlsRefused
  <1>10. ASSUME NEW c \in Command, HandleCommand(c)
         PROVE  Goal'
    <2>1. CASE Ehlo(c)
      BY <2>1 DEF Ehlo
    <2>2. CASE Mail(c)
      BY <2>2 DEF Mail
    <2>3. CASE RcptRejected(c)
      BY <2>3 DEF RcptRejected
    <2>4. ASSUME NEW v \in GreylistResponse, RcptJudged(c, v)
          PROVE  Goal'
      <3>1. cmd'.verb = "RCPT" /\ cmd'.arg = v /\ v # "Unchecked"
        BY <2>4, RcptWithVerdict DEF RcptJudged, GreylistResponse, Verdict
      <3>2. /\ v \in Refused => errorstate' /\ deferred' \in {451, 554}
            /\ v \notin Refused => /\ errorstate' = errorstate /\ told' = told
                                  /\ deferred' = deferred
        BY <2>4, JudgedRecipient
      <3> QED
        BY <2>4, <3>1, <3>2 DEF RcptJudged
    <2>5. CASE RcptUnchecked(c)
      <3>1. cmd'.verb = "RCPT" /\ cmd'.arg = "Unchecked"
        BY <2>5, RcptWithVerdict DEF RcptUnchecked, Verdict
      <3> QED
        BY <2>5, <3>1 DEF RcptUnchecked, Refused
    <2>6. CASE Rset(c)
      BY <2>6 DEF Rset
    <2>7. CASE Data(c)
      BY <2>7 DEF Data
    <2>8. CASE OtherCommand(c)
      BY <2>8 DEF OtherCommand
    <2> QED
      BY <1>10, <2>1, <2>2, <2>3, <2>4, <2>5, <2>6, <2>7, <2>8
         DEF HandleCommand
  <1>11. CASE Connect
    BY <1>11 DEF Connect, Disconnected
  <1>12. CASE ConnectFails
    BY <1>12, TerminateInv DEF ConnectFails
  <1>13. CASE Relay
    <2>1. /\ UNCHANGED <<transaction, connected, session>>
          /\ pc = "inside" /\ pc' = "command"
      BY <1>13 DEF Relay
    <2>2. /\ down'.open = down.open /\ down'.tls = down.tls
          /\ down'.auth = down.auth
          /\ \A r \in down'.rcpts :
               \/ r \in down.rcpts
               \/ cmd.verb = "RCPT" /\ r.verdict = cmd.arg
      <3>1. CASE down' = NoTransaction(down)
        BY <3>1 DEF NoTransaction, Downstream
      <3>2. CASE UNCHANGED down
        BY <3>2
      <3>3. CASE down' = [down EXCEPT !.from = cmd.arg]
        BY <3>3 DEF Downstream
      <3>4. CASE /\ cmd.verb = "RCPT"
                 /\ down' = [down EXCEPT !.rcpts =
                               @ \cup {[verdict |-> cmd.arg, sender |-> from]}]
        BY <3>4 DEF Downstream
      <3> QED
        BY <1>13, <3>1, <3>2, <3>3, <3>4 DEF Relay, Obeys
    <2> QED
      BY <2>1, <2>2
  <1>14. ASSUME NEW code \in Code, RelayRefused(code)
        PROVE  Goal'
    <2>1. CASE IsError(code) /\ settings.intolerant
      BY <1>14, <2>1, TerminateInv DEF RelayRefused
    <2>2. CASE ~(IsError(code) /\ settings.intolerant)
      <3>1. /\ pc = "inside" /\ pc' = "command"
            /\ UNCHANGED <<transaction, session, inside>>
        BY <1>14, <2>2 DEF RelayRefused
      <3> QED
        BY <3>1
    <2> QED
      BY <2>1, <2>2
  <1>15. CASE RelayData
    <2>1. /\ pc = "inside" /\ pc' = "body"
          /\ UNCHANGED <<transaction, session, inside>>
      BY <1>15 DEF RelayData
    <2> QED
      BY <2>1
  <1>16. ASSUME NEW code \in Code, Body(code)
        PROVE  Goal'
    BY <1>16 DEF Body, NoTransaction, Downstream
  <1>17. CASE Authenticate
    BY <1>17, AuthenticateStep, AuthStepInv
  <1>18. CASE Reload
    BY <1>18 DEF Reload
  <1>19. CASE Break
    BY <1>19, TerminateInv DEF Break
  <1>20. CASE UNCHANGED vars
    BY <1>20 DEF vars
  <1> QED
    BY <1>1, <1>2, <1>3, <1>4, <1>5, <1>6, <1>7, <1>8, <1>9, <1>10, <1>11,
       <1>12, <1>13, <1>14, <1>15, <1>16, <1>17, <1>18, <1>19, <1>20 DEF Next

(* The invariant holds for ever.                                           *)
LEMMA SessionInvariant == Spec => []SessionInv
  BY InitInv, NextInv, PTL DEF Spec

(* Under any settings, STARTTLS leaves nothing of the session before it on *)
(* the connection to the downstream server.                                *)
THEOREM TlsAlwaysStartsAfresh == Spec => []TlsStartsAfresh
  <1>1. SessionInv => TlsStartsAfresh
    BY DEF SessionInv
  <1> QED
    BY <1>1, SessionInvariant, PTL

(* Under any settings, however they change, a recipient passed unchecked   *)
(* is held downstream only for a client that is still trusted or           *)
(* authenticated, and with somebody to vouch for the authentication.       *)
THEOREM ExemptionAlwaysBacked == Spec => []ExemptionBacked
  <1>1. SessionInv => ExemptionBacked
    BY DEF SessionInv
  <1> QED
    BY <1>1, SessionInvariant, PTL

(* Under any settings, a refused recipient is not forgotten before the     *)
(* client has been answered with an error.                                 *)
THEOREM RefusalAlwaysPendingOrTold == Spec => []RefusalPendingOrTold
  <1>1. SessionInv => RefusalPendingOrTold
    BY DEF SessionInv
  <1> QED
    BY <1>1, SessionInvariant, PTL

(* Under any settings, DATA is refused with the code of a refusal.         *)
THEOREM RefusalCodeAlwaysStands == Spec => []RefusalCodeStands
  <1>1. SessionInv => RefusalCodeStands
    BY DEF SessionInv
  <1> QED
    BY <1>1, SessionInvariant, PTL

(***************************************************************************)
(* What holds when no choice of settings tolerates errors.  An error is    *)
(* then never survived, so a refusal stays pending; and _from is, whenever *)
(* it matters, the sender of the transaction the downstream server has     *)
(* open.                                                                   *)
(***************************************************************************)
AlwaysIntolerant == \A s \in SettingsChoices : s.intolerant

DataUnrefused ==
  pc = "body" \/ (pc = "inside" /\ cmd.verb = "DATA") => ~errorstate

EmptyWithoutSender == down.from = NoSender => down.rcpts = {}

(* The points at which from may differ from the sender downstream: while a *)
(* MAIL or a RSET is on its way, and when the session is about to end.     *)
FromSettled ==
  \/ pc \notin {"inside", "error", "closed"}
  \/ pc = "inside" /\ cmd.verb \notin {"MAIL", "RSET"}

FromAgrees ==
  ~Exempt => /\ FromSettled /\ down.from # NoSender => from = down.from
             /\ pc = "inside" /\ cmd.verb = "MAIL" => from = cmd.arg

PendingChecked ==
  pc = "inside" /\ cmd.verb = "RCPT" /\ cmd.arg # "Unchecked" => ~Exempt

IntolerantInv ==
  /\ ~told
  /\ DataUnrefused
  /\ EmptyWithoutSender /\ VerdictForThisSender
  /\ FromAgrees /\ PendingChecked

(* The stronger invariant holds at the start.                              *)
LEMMA IntolerantInit == Init => IntolerantInv
  BY DEF Init, Disconnected, IntolerantInv, DataUnrefused, EmptyWithoutSender,
         VerdictForThisSender, FromAgrees, FromSettled, PendingChecked, Exempt

(* The end of a session establishes it: nothing is left to refuse.         *)
LEMMA IntolerantTerminate == Terminate => IntolerantInv'
  BY DEF Terminate, Disconnected, IntolerantInv, DataUnrefused,
         EmptyWithoutSender, VerdictForThisSender, FromAgrees, FromSettled,
         PendingChecked, Exempt

(* Every step keeps it as long as every setting is intolerant.             *)
LEMMA IntolerantNext ==
  ASSUME AlwaysIntolerant, SessionInv, IntolerantInv, [Next]_vars
  PROVE  IntolerantInv'
  <1>1. TypeOK /\ settings.intolerant
    BY DEF SessionInv, TypeOK, AlwaysIntolerant
  <1> USE DEF session, transaction, inside, Loop, Fail, Pass, Exempt,
              IntolerantInv, DataUnrefused, EmptyWithoutSender,
              VerdictForThisSender, FromAgrees, FromSettled, PendingChecked
  <1>2. CASE CheckRbl
    BY <1>2 DEF CheckRbl
  <1>3. CASE GreetPause
    BY <1>3 DEF GreetPause
  <1>4. CASE Banner
    BY <1>4 DEF Banner
  <1>5. CASE Error
    BY <1>5, <1>1, IntolerantTerminate DEF Error
  <1>6. CASE InvalidCommand
    BY <1>6, <1>1, IntolerantTerminate DEF InvalidCommand
  <1>7. CASE Help
    BY <1>7 DEF Help
  <1>8. CASE Quit
    BY <1>8, IntolerantTerminate DEF Quit
  <1>9. CASE Starttls
    BY <1>9 DEF Starttls, Disconnected
  <1>10. CASE StarttlsRefused
    BY <1>10 DEF StarttlsRefused
  <1>11. ASSUME NEW c \in Command, HandleCommand(c)
         PROVE  IntolerantInv'
    <2>1. CASE Ehlo(c)
      BY <2>1 DEF Ehlo
    <2>2. CASE Mail(c)
      BY <2>2 DEF Mail
    <2>3. CASE RcptRejected(c)
      BY <2>3 DEF RcptRejected
    <2>4. ASSUME NEW v \in GreylistResponse, RcptJudged(c, v)
          PROVE  IntolerantInv'
      BY <2>4, RcptWithVerdict DEF RcptJudged, Verdict, GreylistResponse
    <2>5. CASE RcptUnchecked(c)
      BY <2>5, RcptWithVerdict DEF RcptUnchecked, Verdict
    <2>6. CASE Rset(c)
      BY <2>6 DEF Rset
    <2>7. CASE Data(c)
      BY <2>7 DEF Data
    <2>8. CASE OtherCommand(c)
      BY <2>8 DEF OtherCommand
    <2> QED
      BY <1>11, <2>1, <2>2, <2>3, <2>4, <2>5, <2>6, <2>7, <2>8
         DEF HandleCommand
  <1>12. CASE Connect
    BY <1>12 DEF Connect, Disconnected
  <1>13. CASE ConnectFails
    BY <1>13, IntolerantTerminate DEF ConnectFails
  <1>14. CASE Relay
    <2>1. /\ UNCHANGED <<transaction, session>>
          /\ pc = "inside" /\ pc' = "command"
      BY <1>14 DEF Relay
    <2>2. CASE cmd.verb \in {"EHLO", "RSET"} /\ down' = NoTransaction(down)
      BY <1>1, <2>1, <2>2 DEF NoTransaction, TypeOK, Downstream
    <2>3. CASE cmd.verb = "NOOP" /\ UNCHANGED down
      BY <2>1, <2>3
    <2>4. CASE /\ cmd.verb = "MAIL" /\ down.from = NoSender
               /\ down' = [down EXCEPT !.from = cmd.arg]
      <3>1. cmd.arg # NoSender
        BY <1>1, <2>4, PendingArgument, SenderAssumption
           DEF TypeOK, SenderArgs
      <3>2. down'.from = cmd.arg /\ down'.rcpts = {}
        BY <1>1, <2>4 DEF TypeOK, Downstream
      <3> QED
        BY <2>1, <2>4, <3>1, <3>2
    <2>5. CASE /\ cmd.verb = "RCPT" /\ down.from # NoSender
               /\ down' = [down EXCEPT !.rcpts =
                             @ \cup {[verdict |-> cmd.arg, sender |-> from]}]
      <3>1. /\ down'.from = down.from
            /\ down'.rcpts =
                 down.rcpts \cup {[verdict |-> cmd.arg, sender |-> from]}
        BY <1>1, <2>5 DEF TypeOK, Downstream
      <3>2. cmd.arg # "Unchecked" => from = down.from
        BY <2>1, <2>5
      <3> QED
        BY <2>1, <2>5, <3>1, <3>2
    <2> QED
      BY <1>14, <2>2, <2>3, <2>4, <2>5 DEF Relay, Obeys
  <1>15. ASSUME NEW code \in Code, RelayRefused(code)
         PROVE  IntolerantInv'
    <2>1. CASE IsError(code)
      BY <1>15, <1>1, <2>1, IntolerantTerminate DEF RelayRefused
    <2>2. CASE ~IsError(code)
      <3>1. code # 550
        BY <2>2 DEF IsError
      <3>2. /\ cmd.verb # "RSET"
            /\ cmd.verb = "MAIL" => down.from = NoSender
        BY <1>15, <3>1 DEF RelayRefused, Refuses
      <3>3. /\ pc = "inside" /\ pc' = "command"
            /\ UNCHANGED <<transaction, session, inside>>
        BY <1>15, <2>2 DEF RelayRefused
      <3> QED
        BY <3>2, <3>3
    <2> QED
      BY <2>1, <2>2
  <1>16. CASE RelayData
    BY <1>16 DEF RelayData
  <1>17. ASSUME NEW code \in Code, Body(code)
         PROVE  IntolerantInv'
    BY <1>17, <1>1 DEF Body, NoTransaction, TypeOK, Downstream
  <1>18. CASE Authenticate
    <2>1. CASE AuthOff
      BY <2>1 DEF AuthOff
    <2>2. ASSUME NEW code \in Code, ProxyAuth(code)
          PROVE  IntolerantInv'
      <3>1. Judges(code) /\ UNCHANGED <<transaction, connected, session, settings>>
            /\ pc = "inside" /\ cmd.verb = "AUTH"
            /\ pc' \in {"proxyauth", "command"}
        BY <2>2 DEF ProxyAuth, AuthPending
      <3>2. down'.from = down.from /\ down'.rcpts = down.rcpts
        BY <3>1, <1>1 DEF Judges, TypeOK, Downstream
      <3> QED  BY <3>1, <3>2
    <2>3. ASSUME NEW code \in Code, ProxyAuthLine(code)
          PROVE  IntolerantInv'
      BY <2>3, <1>1 DEF ProxyAuthLine, Judges, TypeOK, Downstream
    <2>4. CASE InternalAuth
      BY <2>4 DEF InternalAuth, AuthPending
    <2>5. CASE InternalAuthRefused
      BY <2>5 DEF InternalAuthRefused
    <2>6. CASE Username
      BY <2>6 DEF Username
    <2>7. ASSUME NEW code \in Code, Credentials(code)
          PROVE  IntolerantInv'
      BY <2>7 DEF Credentials, AuthPending
    <2> QED
      BY <1>18, <2>1, <2>2, <2>3, <2>4, <2>5, <2>6, <2>7 DEF Authenticate
  <1>19. CASE Reload
    BY <1>19 DEF Reload
  <1>20. CASE Break
    BY <1>20, IntolerantTerminate DEF Break
  <1>21. CASE UNCHANGED vars
    BY <1>21 DEF vars
  <1> QED
    BY <1>2, <1>3, <1>4, <1>5, <1>6, <1>7, <1>8, <1>9, <1>10, <1>11,
       <1>12, <1>13, <1>14, <1>15, <1>16, <1>17, <1>18, <1>19, <1>20, <1>21 DEF Next

(* It holds for ever.                                                      *)
LEMMA IntolerantInvariant ==
  ASSUME AlwaysIntolerant
  PROVE  Spec => [](SessionInv /\ IntolerantInv)
  <1>1. Init => SessionInv /\ IntolerantInv
    BY InitInv, IntolerantInit
  <1>2. SessionInv /\ IntolerantInv /\ [Next]_vars
          => (SessionInv /\ IntolerantInv)'
    BY NextInv, IntolerantNext
  <1> QED
    BY <1>1, <1>2, PTL DEF Spec

(* With intolerant set for good, no body is copied for an envelope with a  *)
(* recipient the greylister refused.                                       *)
THEOREM IntolerantRefusesBody ==
  ASSUME AlwaysIntolerant
  PROVE  Spec => []NoRefusedBody
  <1>1. SessionInv /\ IntolerantInv => NoRefusedBody
    BY DEF SessionInv, IntolerantInv, RefusalPendingOrTold, DataUnrefused,
           NoRefusedBody
  <1> QED
    BY <1>1, IntolerantInvariant, PTL

(* With intolerant set for good, every verdict in an envelope was made for *)
(* the sender of that envelope.                                            *)
THEOREM IntolerantChecksThisSender ==
  ASSUME AlwaysIntolerant
  PROVE  Spec => []VerdictForThisSender
  <1>1. IntolerantInv => VerdictForThisSender
    BY DEF IntolerantInv
  <1> QED
    BY <1>1, IntolerantInvariant, PTL

(***************************************************************************)
(* With intolerant set for good, the session is a Gatekeeper.              *)
(***************************************************************************)
(* A step that changes nothing of what the Gatekeeper sees.                *)
LEMMA GateSame ==
  ASSUME down'.from = down.from, down'.rcpts = down.rcpts,
         pc = "body" <=> pc' = "body", Exempt <=> Exempt'
  PROVE  UNCHANGED Gate!vars
  <1>1. (pc = "body") = (pc' = "body")
    OBVIOUS
  <1>2. Exempt = Exempt'
    BY DEF Exempt
  <1> QED
    BY <1>1, <1>2 DEF Gate!vars

(* A step after which no transaction is open.                              *)
LEMMA GateFinish ==
  ASSUME down'.from = NoSender, down'.rcpts = {}, pc' # "body",
         Exempt' => Exempt
  PROVE  Gate!Finish
  <1>1. (pc' = "body") = FALSE
    OBVIOUS
  <1>2. Exempt' \in BOOLEAN
    BY DEF Exempt
  <1> QED
    BY <1>1, <1>2 DEF Gate!Finish

(* The end of a session is one.                                            *)
LEMMA GateTerminate ==
  ASSUME Terminate
  PROVE  Gate!Finish
  <1>1. down'.from = NoSender /\ down'.rcpts = {} /\ pc' # "body"
    BY DEF Terminate, Disconnected
  <1>2. Exempt' => Exempt
    BY DEF Terminate, Exempt
  <1> QED
    BY <1>1, <1>2, GateFinish

(* A client that is exempted, and nothing else.                            *)
LEMMA GateExcuse ==
  ASSUME down'.from = down.from, down'.rcpts = down.rcpts, pc # "body",
         pc' # "body", Exempt'
  PROVE  Gate!Excuse
  <1>1. (pc = "body") = FALSE /\ (pc' = "body") = FALSE
    OBVIOUS
  <1>2. Exempt' = TRUE
    BY DEF Exempt
  <1> QED
    BY <1>1, <1>2 DEF Gate!Excuse

(* What the downstream server does with a command it obeys.                *)
LEMMA GateRelay ==
  ASSUME SessionInv, IntolerantInv, Relay
  PROVE  Gate!Next \/ UNCHANGED Gate!vars
  <1>1. TypeOK
    BY DEF SessionInv
  <1>2. /\ pc = "inside" /\ pc' = "command"
        /\ UNCHANGED <<authenticated, trusted, from>>
    BY DEF Relay, session, transaction, Loop
  <1>3. Exempt <=> Exempt'
    BY <1>2 DEF Exempt
  <1>4. CASE cmd.verb \in {"EHLO", "RSET"} /\ down' = NoTransaction(down)
    <2>1. down'.from = NoSender /\ down'.rcpts = {}
      BY <1>1, <1>4 DEF NoTransaction, TypeOK, Downstream
    <2> QED
      BY <1>2, <1>3, <2>1, GateFinish DEF Gate!Next
  <1>5. CASE cmd.verb = "NOOP" /\ UNCHANGED down
    BY <1>2, <1>3, <1>5, GateSame
  <1>6. CASE /\ cmd.verb = "MAIL" /\ down.from = NoSender
             /\ down' = [down EXCEPT !.from = cmd.arg]
    <2>1. down'.from = cmd.arg /\ down'.rcpts = down.rcpts
      BY <1>1, <1>6 DEF TypeOK, Downstream
    <2>2. cmd.arg \in SenderArgs
      BY <1>1, <1>6, PendingArgument DEF TypeOK
    <2>3. (pc = "body") = FALSE /\ (pc' = "body") = FALSE
      BY <1>2
    <2>4. Exempt' = Exempt
      BY <1>3 DEF Exempt
    <2>5. Gate!Open
      BY <1>6, <2>1, <2>2, <2>3, <2>4 DEF Gate!Open
    <2> QED
      BY <2>5 DEF Gate!Next
  <1>7. CASE /\ cmd.verb = "RCPT" /\ down.from # NoSender
             /\ down' = [down EXCEPT !.rcpts =
                           @ \cup {[verdict |-> cmd.arg, sender |-> from]}]
    <2>1. /\ down'.from = down.from
          /\ down'.rcpts = down.rcpts \cup {[verdict |-> cmd.arg, sender |-> from]}
      BY <1>1, <1>7 DEF TypeOK, Downstream
    <2>2. cmd.arg \in Verdict /\ from \in SenderArgs
      BY <1>1, <1>7, PendingArgument DEF TypeOK
    <2>3. (pc = "body") = FALSE /\ (pc' = "body") = FALSE
      BY <1>2
    <2>4. Exempt' = Exempt
      BY <1>3 DEF Exempt
    <2>5. Refused \cup (GreylistResponse \ Refused) = GreylistResponse
      BY DEF Refused, GreylistResponse
    <2>6. \/ cmd.arg \in GreylistResponse /\ from = down.from
          \/ cmd.arg = "Unchecked" /\ Exempt
      <3>1. CASE cmd.arg = "Unchecked"
        BY <1>2, <1>7, <3>1 DEF SessionInv, PendingExempt
      <3>2. CASE cmd.arg # "Unchecked"
        BY <1>2, <1>7, <2>2, <3>2 DEF IntolerantInv, PendingChecked, FromAgrees,
           FromSettled, Verdict
      <3> QED
        BY <3>1, <3>2
    <2>7. Gate!Admit(cmd.arg, from)
      BY <1>7, <2>1, <2>3, <2>4, <2>5, <2>6 DEF Gate!Admit
    <2> QED
      BY <2>2, <2>5, <2>7 DEF Gate!Next, Verdict
  <1> QED
    BY <1>4, <1>5, <1>6, <1>7 DEF Relay, Obeys

(* A step of an AUTH exchange excuses the client, or shows nothing.        *)
LEMMA GateAuthenticate ==
  ASSUME SessionInv, Authenticate
  PROVE  Gate!Next \/ UNCHANGED Gate!vars
  <1>1. TypeOK
    BY DEF SessionInv
  <1> USE DEF session, transaction, inside, Loop, Fail
  <1>2. /\ down'.from = down.from /\ down'.rcpts = down.rcpts
        /\ pc # "body" /\ pc' # "body" /\ UNCHANGED trusted
        /\ UNCHANGED authenticated \/ authenticated' = TRUE
    <2>1. CASE AuthOff
      BY <2>1 DEF AuthOff, AuthPending
    <2>2. ASSUME NEW code \in Code, ProxyAuth(code)
          PROVE  <1>2!:
      <3>1. /\ Judges(code) /\ UNCHANGED session
            /\ pc = "inside" /\ pc' \in {"proxyauth", "command"}
        BY <2>2 DEF ProxyAuth, AuthPending
      <3> QED
        BY <3>1, <1>1 DEF Judges, TypeOK, Downstream
    <2>3. ASSUME NEW code \in Code, ProxyAuthLine(code)
          PROVE  <1>2!:
      BY <2>3, <1>1 DEF ProxyAuthLine, Judges, TypeOK, Downstream
    <2>4. CASE InternalAuth
      BY <2>4 DEF InternalAuth, AuthPending
    <2>5. CASE InternalAuthRefused
      BY <2>5 DEF InternalAuthRefused, AuthPending
    <2>6. CASE Username
      BY <2>6 DEF Username
    <2>7. ASSUME NEW code \in Code, Credentials(code)
          PROVE  <1>2!:
      <3>1. UNCHANGED <<trusted, inside>> /\ pc \in {"plainauth", "password", "inside"}
        BY <2>7 DEF Credentials, AuthPending
      <3>2. \/ authenticated' = TRUE /\ pc' = "command"
            \/ authenticated' = authenticated /\ pc' = "error"
        BY <2>7, ZenonT(40) DEF Credentials
      <3> QED
        BY <3>1, <3>2
    <2> QED
      BY <2>1, <2>2, <2>3, <2>4, <2>5, <2>6, <2>7 DEF Authenticate
  <1>3. CASE authenticated' = TRUE
    BY <1>2, <1>3, GateExcuse DEF Exempt, Gate!Next
  <1>4. CASE UNCHANGED authenticated
    BY <1>2, <1>4, GateSame DEF Exempt
  <1> QED
    BY <1>2, <1>3, <1>4

(* Every step of the session is one of the Gatekeeper, or shows nothing.   *)
LEMMA GateStep ==
  ASSUME AlwaysIntolerant, SessionInv, IntolerantInv, [Next]_vars
  PROVE  Gate!Next \/ UNCHANGED Gate!vars
  <1>1. TypeOK /\ settings.intolerant
    BY DEF SessionInv, TypeOK, AlwaysIntolerant
  <1>2. Terminate => Gate!Next
    BY GateTerminate DEF Gate!Next
  <1> USE DEF session, transaction, inside, Loop, Fail, Pass, Exempt
  <1>3. CASE CheckRbl \/ GreetPause \/ Banner \/ Help \/ StarttlsRefused \/ Reload
    BY <1>3, GateSame DEF CheckRbl, GreetPause, Banner, Help, StarttlsRefused, Reload
  <1>4. CASE Error \/ InvalidCommand \/ Quit \/ ConnectFails \/ Break
    BY <1>4, <1>1, <1>2 DEF Error, InvalidCommand, Quit, ConnectFails, Break
  <1>5. CASE Starttls
    BY <1>5, GateFinish DEF Starttls, Disconnected, Gate!Next
  <1>6. ASSUME NEW c \in Command, HandleCommand(c)
        PROVE  UNCHANGED Gate!vars
    <2>1. /\ UNCHANGED <<down, authenticated, trusted>>
          /\ pc # "body" /\ pc' # "body"
      BY <1>6 DEF HandleCommand, Ehlo, Mail, RcptRejected, RcptJudged,
                  RcptUnchecked, Rset, Data, OtherCommand
    <2> QED
      BY <2>1, GateSame
  <1>7. CASE Connect
    BY <1>7, GateFinish DEF Connect, Disconnected, Gate!Next
  <1>8. CASE Relay
    BY <1>8, GateRelay
  <1>9. ASSUME NEW code \in Code, RelayRefused(code)
        PROVE  Gate!Next \/ UNCHANGED Gate!vars
    <2>1. CASE IsError(code)
      BY <1>9, <1>1, <1>2, <2>1 DEF RelayRefused
    <2>2. CASE ~IsError(code)
      BY <1>9, <2>2, GateSame DEF RelayRefused
    <2> QED
      BY <2>1, <2>2
  <1>10. CASE RelayData
    <2>1. \A r \in down.rcpts : r.verdict \notin Refused
      BY <1>10 DEF RelayData, SessionInv, IntolerantInv, RefusalPendingOrTold,
                   DataUnrefused
    <2>2. (pc = "body") = FALSE /\ (pc' = "body") = TRUE
      BY <1>10 DEF RelayData
    <2> QED
      BY <1>10, <2>1, <2>2 DEF RelayData, Gate!Copy, Gate!Next
  <1>11. ASSUME NEW code \in Code, Body(code)
         PROVE  Gate!Next
    <2>1. down'.from = NoSender /\ down'.rcpts = {}
      BY <1>11, <1>1 DEF Body, NoTransaction, TypeOK, Downstream
    <2> QED
      BY <1>11, <2>1, GateFinish DEF Body, Gate!Next
  <1>12. CASE Authenticate
    BY <1>12, GateAuthenticate
  <1>13. CASE UNCHANGED vars
    BY <1>13, GateSame DEF vars
  <1> QED
    BY <1>3, <1>4, <1>5, <1>6, <1>7, <1>8, <1>9, <1>10, <1>11, <1>12, <1>13
    DEF Next

(* With intolerant set for good, every behaviour of the session is one of  *)
(* the Gatekeeper of the transaction behind it.                            *)
THEOREM IntolerantKeepsGate ==
  ASSUME AlwaysIntolerant
  PROVE  Spec => GateKept
  <1>1. Init => Gate!Init
    <2> SUFFICES ASSUME Init PROVE Gate!Init
      OBVIOUS
    <2>1. down.from = NoSender /\ down.rcpts = {}
      BY DEF Init, Disconnected
    <2>2. (pc = "body") = FALSE /\ Exempt \in BOOLEAN
      BY DEF Init, Exempt
    <2> QED
      BY <2>1, <2>2 DEF Gate!Init
  <1>2. SessionInv /\ IntolerantInv /\ [Next]_vars => [Gate!Next]_Gate!vars
    BY GateStep
  <1> QED
    BY <1>1, <1>2, IntolerantInvariant, PTL DEF Spec, GateKept, Gate!Spec
=============================================================================
