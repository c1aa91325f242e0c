-------------------------- MODULE SekeveServerProofs --------------------------
(***************************************************************************)
(* The server's handlers keep AuthManager's promises, and what they add,   *)
(* for any number of concurrent calls, identifiers and PINs.               *)
(***************************************************************************)
EXTENDS SekeveServer, AuthManagerProofs

-----------------------------------------------------------------------------
\* Refinement: every server step is one AuthManager method or none.

LEMMA UnlockImplements ==
  ASSUME ServerTypeOK, NEW h \in Handlers, UnlockStep(h)
  PROVE  [AuthNext]_authVars
<1>1. CASE UnlockRedeem(h)
  <2>1. call[h].ticket \in Tickets
    BY <1>1 DEF UnlockRedeem, ServerTypeOK
  <2>2. \/ \E t \in Tokens : TicketToSession(call[h].ticket, t)
        \/ TicketRefused(call[h].ticket) \/ TicketToNothing(call[h].ticket)
    BY <1>1, Zenon DEF UnlockRedeem
  <2>3. TicketNext
    BY <2>1, <2>2, Zenon DEF TicketNext
  <2>4. QED
    BY <2>3 DEF AuthNext
<1>2. CASE UnlockRead(h)
  BY <1>2 DEF UnlockRead
<1>3. CASE UnlockRecord(h)
  BY <1>3, Zenon DEF UnlockRecord, RecordGuess, AuthNext, PinNext
<1>4. CASE UnlockRevoke(h)
  <2>1. call[h].token \in Tokens /\ RevokeSession(call[h].token)
    BY <1>4 DEF UnlockRevoke, At, ServerTypeOK, Redeeming
  <2>2. QED
    BY <2>1, Zenon DEF AuthNext, SessionNext
<1>5. CASE UnlockGrant(h)
  BY <1>5, Zenon DEF UnlockGrant, AuthNext, PinNext
<1>6. QED
  BY <1>1, <1>2, <1>3, <1>4, <1>5, Zenon DEF UnlockStep

LEMMA SetPINImplements ==
  ASSUME NEW h \in Handlers, SetPINStep(h)
  PROVE  [AuthNext]_authVars
<1>1. CASE SetPINRead(h) \/ SetPINCheck(h) \/ SetPINStore(h) \/ SetPINAbort(h)
  BY <1>1 DEF SetPINRead, SetPINCheck, SetPINStore, SetPINAbort
<1>2. CASE SetPINRecord(h) \/ SetPINReset(h)
  BY <1>2, Zenon DEF SetPINRecord, SetPINReset, RecordGuess, AuthNext, PinNext
<1>3. CASE SetPINConfigure(h)
  <2>1. SetPINConfigured(TRUE) /\ TRUE \in BOOLEAN
    BY <1>3, Zenon DEF SetPINConfigure
  <2>2. QED
    BY <2>1, Zenon DEF AuthNext, PinNext
<1>4. CASE SetPINInvalidate(h)
  BY <1>4, Zenon DEF SetPINInvalidate, AuthNext, SessionNext
<1>5. QED
  BY <1>1, <1>2, <1>3, <1>4, Zenon DEF SetPINStep

LEMMA RequestsImplement ==
  ASSUME Requests
  PROVE  [AuthNext]_authVars
<1>1. ASSUME NEW n \in Nonces, Authenticate(n) \/ VerifyChallenge(n)
      PROVE  ChallengeNext
  BY <1>1, Zenon DEF Authenticate, VerifyChallenge, VerifyToTicket, VerifyToSession,
                     VerifyFails, ChallengeNext
<1>2. ASSUME NEW t \in Tokens, CheckToken(t)
      PROVE  SessionNext
  BY <1>2, Zenon DEF CheckToken, SessionNext
<1>3. ASSUME NEW h \in Handlers, NEW p \in PINs,
             \/ \E k \in Tickets : UnlockCall(h, k, p)
             \/ \E t \in Tokens, q \in PINs : SetPINCall(h, t, p, q)
      PROVE  UNCHANGED authVars
  BY <1>3, Zenon DEF UnlockCall, SetPINCall
<1>4. QED
  BY <1>1, <1>2, <1>3, Zenon DEF Requests, AuthNext

LEMMA StepImplements == ServerTypeOK /\ [Next]_vars => [AuthNext]_authVars
<1> SUFFICES ASSUME ServerTypeOK, [Next]_vars
             PROVE  [AuthNext]_authVars
  OBVIOUS
<1>1. CASE Requests
  BY <1>1, RequestsImplement
<1>2. ASSUME NEW h \in Handlers, HandlerStep(h)
      PROVE  [AuthNext]_authVars
  BY <1>2, UnlockImplements, SetPINImplements, Zenon DEF HandlerStep
<1>3. CASE Sweeper \/ Clock
  BY <1>3, Zenon DEF Sweeper, Clock, AuthNext, SessionNext
<1>4. CASE Restart
  <2>1. NewAuthManager(pinStored # None) /\ (pinStored # None) \in BOOLEAN
    BY <1>4, Zenon DEF Restart
  <2>2. QED
    BY <2>1, Zenon DEF AuthNext, PinNext
<1>5. CASE UNCHANGED vars
  BY <1>5, Zenon DEF vars
<1>6. QED
  BY <1>1, <1>2, <1>3, <1>4, <1>5, Zenon DEF Next

-----------------------------------------------------------------------------
\* Type correctness.

\* What ServerTypeOK asks of one call.
CallOK(c) ==
  /\ c \in Call
  /\ c.at = "u_redeem" => c.ticket \in Tickets
  /\ c.at \in {"u_read", "u_record", "u_revoke", "u_grant"} => c.token \in Tokens
  /\ c.at \in SetPINLabels => c.newPin \in PINs

LEMMA IdleOK == CallOK(Idle)
BY DEF CallOK, Call, Idle, SetPINLabels, UnlockLabels

LEMMA CallsOK ==
  (call \in [Handlers -> Call] /\
   \A h \in Handlers : /\ At(h, "u_redeem") => call[h].ticket \in Tickets
                       /\ Redeeming(h) => call[h].token \in Tokens
                       /\ call[h].at \in SetPINLabels => call[h].newPin \in PINs)
  <=> (call = [h \in Handlers |-> call[h]] /\ \A h \in Handlers : CallOK(call[h]))
BY DEF CallOK, At, Redeeming

\* A call that has just read the stored PIN on behalf of a ticket's redemption.
LEMMA RecordReadOK ==
  ASSUME NEW c, CallOK(c), c.token \in Tokens, NEW n \in Nat, NEW r \in PINs \cup {None},
         NEW label \in {"u_revoke", "u_grant", "u_record"}
  PROVE  CallOK([c EXCEPT !.serial = n, !.read = r, !.at = label])
<1> DEFINE d == [c EXCEPT !.serial = n, !.read = r, !.at = label]
<1>1. c \in Call
  BY DEF CallOK
<1>2. label \in UnlockLabels \cup SetPINLabels /\ label \notin SetPINLabels /\ label # "u_redeem"
  BY DEF UnlockLabels, SetPINLabels
<1>3. d \in Call
  BY <1>1, <1>2 DEF Call
<1>4. d.at = label /\ d.token = c.token
  BY <1>1 DEF Call
<1>5. QED
  BY <1>2, <1>3, <1>4, Zenon DEF CallOK

\* A call that has just read the stored PIN in order to change it.
LEMMA SetPINReadOK ==
  ASSUME NEW c, CallOK(c), c.newPin \in PINs, NEW n \in Nat, NEW r \in PINs \cup {None},
         NEW label \in {"s_store", "s_check"}
  PROVE  CallOK([c EXCEPT !.read = r, !.serial = n, !.at = label])
<1> DEFINE d == [c EXCEPT !.read = r, !.serial = n, !.at = label]
<1>1. c \in Call
  BY DEF CallOK
<1>2. /\ label \in UnlockLabels \cup SetPINLabels
      /\ label \notin {"u_redeem", "u_read", "u_record", "u_revoke", "u_grant"}
  BY DEF UnlockLabels, SetPINLabels
<1>3. d \in Call
  BY <1>1, <1>2 DEF Call
<1>4. d.at = label /\ d.newPin = c.newPin
  BY <1>1 DEF Call
<1>5. QED
  BY <1>2, <1>3, <1>4, Zenon DEF CallOK

\* A step of one handler leaves a call that fits its label.
LEMMA HandlerCallOK ==
  ASSUME ServerTypeOK, NEW h \in Handlers, HandlerStep(h)
  PROVE  /\ call' = [call EXCEPT ![h] = call'[h]]
         /\ CallOK(call'[h])
<1> DEFINE c == call[h]
<1>1. c \in Call /\ CallOK(c) /\ call \in [Handlers -> Call]
  BY DEF ServerTypeOK, CallOK, At, Redeeming
<1>2. ASSUME Return(h)
      PROVE  call' = [call EXCEPT ![h] = call'[h]] /\ CallOK(call'[h])
  BY <1>1, <1>2, IdleOK DEF Return
<1>3. ASSUME NEW label \in UnlockLabels \cup SetPINLabels, Goto(h, label),
             label = "u_redeem" => c.ticket \in Tickets,
             label \in {"u_read", "u_record", "u_revoke", "u_grant"} => c.token \in Tokens,
             label \in SetPINLabels => c.newPin \in PINs
      PROVE  call' = [call EXCEPT ![h] = call'[h]] /\ CallOK(call'[h])
  BY <1>1, <1>3 DEF Goto, CallOK, Call
<1>4. CASE UnlockRedeem(h)
  <2>1. ASSUME NEW t \in Tokens,
               call' = [call EXCEPT ![h].at = "u_read", ![h].token = t]
        PROVE  call' = [call EXCEPT ![h] = call'[h]] /\ CallOK(call'[h])
    BY ZenonT(40), <1>1, <2>1 DEF CallOK, Call, UnlockLabels, SetPINLabels
  <2>2. QED
    BY <1>2, <1>4, <2>1, Zenon DEF UnlockRedeem
<1>5. CASE UnlockRead(h)
  <2>1. c.token \in Tokens
    BY <1>5 DEF UnlockRead, At, ServerTypeOK, Redeeming
  <2>2. PICK label \in {"u_revoke", "u_grant", "u_record"} :
          call' = [call EXCEPT ![h].serial = pinSerial, ![h].read = pinStored, ![h].at = label]
    BY <1>5 DEF UnlockRead
  <2>3. pinSerial \in Nat /\ pinStored \in PINs \cup {None}
    BY DEF ServerTypeOK
  <2>4. CallOK([c EXCEPT !.serial = pinSerial, !.read = pinStored, !.at = label])
    BY <1>1, <2>1, <2>3, RecordReadOK, Zenon
  <2>5. /\ call' = [call EXCEPT ![h] = call'[h]]
        /\ call'[h] = [c EXCEPT !.serial = pinSerial, !.read = pinStored, !.at = label]
    BY <1>1, <2>2
  <2>6. QED
    BY <2>4, <2>5, Zenon
<1>6. CASE UnlockRecord(h)
  BY <1>3, <1>6 DEF UnlockRecord, At, ServerTypeOK, Redeeming, UnlockLabels, SetPINLabels
<1>7. CASE UnlockRevoke(h) \/ UnlockGrant(h)
  BY <1>2, <1>7 DEF UnlockRevoke, UnlockGrant
<1>8. CASE SetPINRead(h)
  <2>1. c.newPin \in PINs
    BY <1>8 DEF SetPINRead, At, ServerTypeOK, SetPINLabels
  <2>2. PICK label \in {"s_store", "s_check"} :
          call' = [call EXCEPT ![h].read = pinStored, ![h].serial = pinSerial, ![h].at = label]
    BY <1>8 DEF SetPINRead
  <2>3. pinSerial \in Nat /\ pinStored \in PINs \cup {None}
    BY DEF ServerTypeOK
  <2>4. CallOK([c EXCEPT !.read = pinStored, !.serial = pinSerial, !.at = label])
    BY <1>1, <2>1, <2>3, SetPINReadOK, Zenon
  <2>5. /\ call' = [call EXCEPT ![h] = call'[h]]
        /\ call'[h] = [c EXCEPT !.read = pinStored, !.serial = pinSerial, !.at = label]
    BY <1>1, <2>2
  <2>6. QED
    BY <2>4, <2>5, Zenon
<1>9. CASE SetPINCheck(h) \/ SetPINReset(h) \/ SetPINStore(h) \/ SetPINConfigure(h)
  <2>1. c.newPin \in PINs
    BY <1>9 DEF SetPINCheck, SetPINReset, SetPINStore, SetPINConfigure, At, ServerTypeOK,
                SetPINLabels
  <2>2. \/ Return(h)
        \/ \E label \in {"s_reset", "s_record", "s_store", "s_configure", "s_invalidate"} :
             Goto(h, label)
    BY <1>9 DEF SetPINCheck, SetPINReset, SetPINStore, SetPINConfigure
  <2>3. QED
    BY <1>2, <1>3, <2>1, <2>2 DEF UnlockLabels, SetPINLabels
<1>10. CASE SetPINRecord(h) \/ SetPINAbort(h) \/ SetPINInvalidate(h)
  BY <1>2, <1>10 DEF SetPINRecord, SetPINAbort, SetPINInvalidate
<1>11. QED
  BY <1>4, <1>5, <1>6, <1>7, <1>8, <1>9, <1>10, Zenon DEF HandlerStep, UnlockStep, SetPINStep

LEMMA ServerTypeStep == ServerTypeOK /\ [Next]_vars => ServerTypeOK'
<1> SUFFICES ASSUME ServerTypeOK, [Next]_vars
             PROVE  ServerTypeOK'
  OBVIOUS
<1> DEFINE CallsTyped == call = [h \in Handlers |-> call[h]] /\ \A h \in Handlers : CallOK(call[h])
<1>1. TypeOK'
  BY StepImplements, TypeStep DEF ServerTypeOK
<1>2. CallsTyped
  BY CallsOK DEF ServerTypeOK
<1>3. CallsTyped'
  <2>1. ASSUME NEW h \in Handlers, HandlerStep(h)
        PROVE  CallsTyped'
    BY <1>2, <2>1, HandlerCallOK
  <2>2. ASSUME NEW h \in Handlers, NEW p \in PINs, NEW k \in Tickets, UnlockCall(h, k, p)
        PROVE  CallsTyped'
    <3>1. CallOK([Idle EXCEPT !.at = "u_redeem", !.ticket = k, !.pin = p])
      BY DEF CallOK, Call, Idle, UnlockLabels, SetPINLabels
    <3>2. QED
      BY <1>2, <2>2, <3>1 DEF UnlockCall
  <2>3. ASSUME NEW h \in Handlers, NEW t \in Tokens, NEW p \in PINs, NEW q \in PINs,
               SetPINCall(h, t, p, q)
        PROVE  CallsTyped'
    <3>1. CallOK([Idle EXCEPT !.at = "s_read", !.token = t, !.pin = p, !.newPin = q])
      BY DEF CallOK, Call, Idle, UnlockLabels, SetPINLabels
    <3>2. QED
      BY <1>2, <2>3, <3>1 DEF SetPINCall
  <2>4. CASE Restart
    BY <2>4, IdleOK DEF Restart
  <2>5. CASE UNCHANGED call
    BY <1>2, <2>5
  <2>6. ASSUME NEW n \in Nonces, Authenticate(n) \/ VerifyChallenge(n)
        PROVE  UNCHANGED call
    BY <2>6, Zenon DEF Authenticate, VerifyChallenge, VerifyToTicket, VerifyToSession,
                       VerifyFails, serverVars
  <2>7. ASSUME NEW t \in Tokens, CheckToken(t)
        PROVE  UNCHANGED call
    BY <2>7, Zenon DEF CheckToken, serverVars
  <2>8. CASE Sweeper \/ Clock \/ UNCHANGED vars
    BY <2>5, <2>8, Zenon DEF Sweeper, Clock, serverVars, vars
  <2> HIDE DEF CallsTyped
  <2>9. CASE Requests
    BY <2>2, <2>3, <2>5, <2>6, <2>7, <2>9, Zenon DEF Requests
  <2>10. QED
    BY <2>1, <2>4, <2>8, <2>9, Zenon DEF Next
<1>4. /\ pinStored' \in PINs \cup {None} /\ pinSerial' \in Nat
      /\ guesses' \in Nat
  <2>1. ASSUME NEW h \in Handlers, HandlerStep(h)
        PROVE  /\ pinStored' \in PINs \cup {None} /\ pinSerial' \in Nat /\ guesses' \in Nat
    <3>1. guesses' \in {0, 1, guesses, guesses + 1}
      BY <2>1 DEF HandlerStep, UnlockStep, UnlockRedeem, UnlockRead, UnlockRecord, UnlockRevoke,
                  UnlockGrant, SetPINStep, SetPINRead, SetPINCheck, SetPINRecord, SetPINReset,
                  SetPINStore, SetPINAbort, SetPINConfigure, SetPINInvalidate, RecordGuess
    <3>2. CASE SetPINStore(h)
      <4>1. call[h].newPin \in PINs
        BY <3>2 DEF SetPINStore, ServerTypeOK, At, SetPINLabels
      <4>2. pinStored' = call[h].newPin /\ pinSerial' = pinSerial + 1 /\ guesses' = guesses
        BY <3>2 DEF SetPINStore
      <4>3. pinSerial \in Nat /\ guesses \in Nat
        BY DEF ServerTypeOK
      <4>4. QED
        BY <4>1, <4>2, <4>3
    <3>3. CASE ~SetPINStore(h)
      <4>1. UNCHANGED <<pinStored, pinSerial>>
        BY <2>1, <3>3, Zenon
        DEF HandlerStep, UnlockStep, UnlockRedeem, UnlockRead, UnlockRecord, UnlockRevoke,
            UnlockGrant, SetPINStep, SetPINRead, SetPINCheck, SetPINRecord, SetPINReset,
            SetPINAbort, SetPINConfigure, SetPINInvalidate
      <4>2. QED
        BY <3>1, <4>1 DEF ServerTypeOK
    <3>4. guesses' \in Nat
      BY <3>1 DEF ServerTypeOK
    <3>5. QED
      BY <3>2, <3>3, <3>4 DEF SetPINStore
  <2>2. CASE Requests \/ Sweeper \/ Clock \/ UNCHANGED vars
    <3>1. UNCHANGED <<pinStored, pinSerial, guesses>>
      BY <2>2, Zenon DEF Requests, Authenticate, VerifyChallenge, VerifyToTicket,
                         VerifyToSession, VerifyFails, CheckToken, UnlockCall, SetPINCall,
                        Sweeper, Clock, serverVars, vars
    <3>2. QED
      BY <3>1 DEF ServerTypeOK
  <2>3. CASE Restart
    BY <2>3 DEF Restart, ServerTypeOK
  <2>4. QED
    BY <2>1, <2>2, <2>3, Zenon DEF Next
<1>5. granted' \subseteq Tokens /\ vouched' \in [Tokens -> Nat]
  <2>1. ASSUME NEW t \in Tokens, NEW serial \in Nat, Grant(t, serial)
        PROVE  granted' \subseteq Tokens /\ vouched' \in [Tokens -> Nat]
    BY <2>1 DEF Grant, ServerTypeOK
  <2>2. ASSUME NEW h \in Handlers, UnlockGrant(h)
        PROVE  granted' \subseteq Tokens /\ vouched' \in [Tokens -> Nat]
    <3>1. call[h].token \in Tokens /\ call[h].serial \in Nat
      BY <2>2 DEF UnlockGrant, ServerTypeOK, Call, At, Redeeming
    <3>2. QED
      BY <2>1, <2>2, <3>1 DEF UnlockGrant
  <2>3. CASE UNCHANGED <<granted, vouched>>
    BY <2>3 DEF ServerTypeOK
  <2>4. ASSUME NEW h \in Handlers, HandlerStep(h)
        PROVE  UnlockGrant(h) \/ UNCHANGED <<granted, vouched>>
    BY <2>4, Zenon DEF HandlerStep, UnlockStep, UnlockRedeem, UnlockRead, UnlockRecord,
       UnlockRevoke, SetPINStep, SetPINRead, SetPINCheck, SetPINRecord, SetPINReset, SetPINStore,
       SetPINAbort, SetPINConfigure, SetPINInvalidate
  <2>5. ASSUME NEW n \in Nonces, VerifyChallenge(n)
        PROVE  granted' \subseteq Tokens /\ vouched' \in [Tokens -> Nat]
    BY <2>1, <2>3, <2>5 DEF VerifyChallenge, VerifyToTicket, VerifyToSession, VerifyFails, serverVars
  <2>6. ASSUME Requests, \A n \in Nonces : ~VerifyChallenge(n)
        PROVE  UNCHANGED <<granted, vouched>>
    BY <2>6, Zenon DEF Requests, Authenticate, CheckToken, UnlockCall, SetPINCall, serverVars
  <2>7. CASE Sweeper \/ Restart \/ Clock \/ UNCHANGED vars
    BY <2>3, <2>7, Zenon DEF Sweeper, Restart, Clock, serverVars, vars
  <2>8. QED
    BY <2>2, <2>3, <2>4, <2>5, <2>6, <2>7, Zenon DEF Next
<1>6. /\ call' \in [Handlers -> Call]
      /\ \A h \in Handlers :
           /\ At(h, "u_redeem")' => call'[h].ticket \in Tickets
           /\ Redeeming(h)' => call'[h].token \in Tokens
           /\ call'[h].at \in SetPINLabels => call'[h].newPin \in PINs
  BY <1>3 DEF CallOK, At, Redeeming
<1>7. QED
  BY <1>1, <1>4, <1>5, <1>6, Zenon DEF ServerTypeOK

\* The server's state keeps its types, and every call in flight carries the
\* arguments its next section uses.
THEOREM ServerTypeCorrect == Spec => []ServerTypeOK
<1>1. Init => ServerTypeOK
  <2>1. Init => TypeOK
    BY EmptyType DEF Init, AuthInit, TypeOK
  <2>2. CallOK(Idle)
    BY IdleOK
  <2>3. QED
    BY <2>1, <2>2 DEF Init, ServerTypeOK, CallOK, At, Redeeming
<1>2. QED
  BY <1>1, ServerTypeStep, PTL DEF Spec

\* The handlers only touch the authentication state through AuthManager's
\* methods, one at a time: what AuthManager promises holds in the server.
THEOREM ServerImplementsAuth == Spec => AuthSpec
<1>1. Init => AuthInit
  BY DEF Init
<1>2. ServerTypeOK /\ [Next]_vars => [AuthNext]_authVars
  BY StepImplements
<1>3. QED
  BY <1>1, <1>2, ServerTypeCorrect, PTL DEF Spec, AuthSpec

-----------------------------------------------------------------------------
\* What a step does to the calls in flight and to the session table.

\* A handler's step leaves the other calls alone.
LEMMA OthersKept ==
  ASSUME ServerTypeOK, NEW h \in Handlers, HandlerStep(h)
  PROVE  \A g \in Handlers \ {h} : call'[g] = call[g]
<1>1. call' = [call EXCEPT ![h] = call'[h]]
  BY HandlerCallOK
<1>2. call \in [Handlers -> Call]
  BY DEF ServerTypeOK
<1>3. QED
  BY <1>1, <1>2

\* SetPIN never holds a redeemed session and never adds one.
LEMMA SetPINQuiet ==
  ASSUME ServerTypeOK, NEW h \in Handlers, SetPINStep(h)
  PROVE  /\ call[h].at \in SetPINLabels
         /\ call'[h].at \in SetPINLabels \cup {"idle"}
         /\ DOMAIN sessions' \subseteq DOMAIN sessions
         /\ UNCHANGED <<issued, granted, vouched>>
<1> USE DEF SetPINLabels, At, Goto, Return
<1>0. call \in [Handlers -> Call] /\ Idle.at = "idle"
  BY DEF ServerTypeOK, Idle
<1>1. CASE SetPINRead(h) \/ SetPINCheck(h) \/ SetPINStore(h) \/ SetPINAbort(h)
  BY <1>0, <1>1 DEF SetPINRead, SetPINCheck, SetPINStore, SetPINAbort, authVars, Call
<1>2. CASE SetPINRecord(h) \/ SetPINReset(h)
  BY <1>0, <1>2 DEF SetPINRecord, SetPINReset, RecordGuess, RecordPINFailure, ResetPINFailures,
                    histVars, Call
<1>3. CASE SetPINConfigure(h)
  BY <1>0, <1>3 DEF SetPINConfigure, SetPINConfigured, histVars, Call
<1>4. CASE SetPINInvalidate(h)
  BY <1>0, <1>4, EmptyKeys DEF SetPINInvalidate, InvalidateAllSessions, histVars, Call
<1>5. QED
  BY <1>1, <1>2, <1>3, <1>4, Zenon DEF SetPINStep

\* The steps of Unlock that neither redeem nor end the call.
LEMMA UnlockQuiet ==
  ASSUME ServerTypeOK, NEW h \in Handlers, UnlockRead(h) \/ UnlockRecord(h)
  PROVE  /\ Redeeming(h) /\ Redeeming(h)' /\ call'[h].token = call[h].token
         /\ UNCHANGED <<sessions, issued, granted, vouched>>
<1>0. call \in [Handlers -> Call]
  BY DEF ServerTypeOK
<1>1. CASE UnlockRead(h)
  BY <1>0, <1>1 DEF UnlockRead, Redeeming, At, authVars, Call
<1>2. CASE UnlockRecord(h)
  BY <1>0, <1>2 DEF UnlockRecord, RecordGuess, RecordPINFailure, Redeeming, At, Goto, histVars, Call
<1>3. QED
  BY <1>1, <1>2

\* Arrivals hold no redeemed session.
LEMMA ArrivalQuiet ==
  ASSUME ServerTypeOK, NEW h \in Handlers, NEW p \in PINs,
         \/ \E k \in Tickets : UnlockCall(h, k, p)
         \/ \E t \in Tokens, q \in PINs : SetPINCall(h, t, p, q)
  PROVE  /\ call[h].at = "idle" /\ call'[h].at \in {"u_redeem", "s_read"}
         /\ \A g \in Handlers \ {h} : call'[g] = call[g]
         /\ UNCHANGED <<authVars, pinStored, pinSerial, granted, vouched>>
<1>0. call \in [Handlers -> Call]
  BY DEF ServerTypeOK
<1>1. ASSUME NEW k \in Tickets, UnlockCall(h, k, p)
      PROVE  /\ call[h].at = "idle" /\ call'[h].at = "u_redeem"
             /\ \A g \in Handlers \ {h} : call'[g] = call[g]
  BY Zenon, <1>0, <1>1 DEF UnlockCall, At, Idle
<1>2. ASSUME NEW t \in Tokens, NEW q \in PINs, SetPINCall(h, t, p, q)
      PROVE  /\ call[h].at = "idle" /\ call'[h].at = "s_read"
             /\ \A g \in Handlers \ {h} : call'[g] = call[g]
  BY Zenon, <1>0, <1>2 DEF SetPINCall, At, Idle
<1>3. UNCHANGED <<authVars, pinStored, pinSerial, granted, vouched>>
  BY Zenon DEF UnlockCall, SetPINCall
<1>4. QED
  BY <1>1, <1>2, <1>3

\* VerifyChallenge adds at most one session, under a token never issued before
\* and given to the client at once, and only with no PIN configured.
LEMMA VerifyEffect ==
  ASSUME ServerTypeOK, NEW n \in Nonces, VerifyChallenge(n)
  PROVE  /\ UNCHANGED <<call, pinStored, pinSerial, pinConfigured>>
         /\ \/ /\ DOMAIN sessions' \subseteq DOMAIN sessions
               /\ issued \subseteq issued'
               /\ UNCHANGED <<granted, vouched>>
            \/ \E t \in Tokens \ issued :
                 /\ ~pinConfigured
                 /\ DOMAIN sessions' \subseteq DOMAIN sessions \cup {t}
                 /\ issued' = issued \cup {t}
                 /\ Grant(t, 0)
<1>a. DOMAIN Swept(sessions) \subseteq DOMAIN sessions
  BY SweptKeys
<1>1. ASSUME NEW k \in Tickets, NonceToTicket(n, k), UNCHANGED serverVars
      PROVE  /\ UNCHANGED <<call, pinStored, pinSerial, pinConfigured, sessions, granted, vouched>>
             /\ issued \subseteq issued'
  BY <1>1 DEF NonceToTicket, serverVars
<1>2. ASSUME NEW t \in Tokens, NonceToSession(n, t)
      PROVE  /\ t \notin issued /\ ~pinConfigured /\ UNCHANGED pinConfigured
             /\ DOMAIN sessions' \subseteq DOMAIN sessions \cup {t}
             /\ issued' = issued \cup {t}
  <2>1. /\ t \notin issued /\ ~pinConfigured /\ UNCHANGED pinConfigured
        /\ issued' = issued \cup {t}
        /\ sessions' = With(Swept(sessions), t, now + SessionTTL)
    BY <1>2, Zenon DEF NonceToSession, AddSession
  <2>2. DOMAIN sessions' = DOMAIN Swept(sessions) \cup {t}
    BY <2>1, WithKeys, Zenon
  <2>3. QED
    BY <2>1, <2>2, <1>a, Zenon
<1>3. ASSUME NonceRefused(n) \/ NonceToNothing(n), UNCHANGED serverVars
      PROVE  /\ UNCHANGED <<call, pinStored, pinSerial, pinConfigured, issued, granted, vouched>>
             /\ DOMAIN sessions' \subseteq DOMAIN sessions
  BY <1>3, <1>a DEF NonceRefused, NonceToNothing, serverVars, histVars
<1>4. QED
  BY <1>1, <1>2, <1>3 DEF VerifyChallenge, VerifyToTicket, VerifyToSession, VerifyFails

\* Steps outside the calls never add a session nor forget an identifier.
LEMMA OutsideQuiet ==
  ASSUME ServerTypeOK,
         \/ \E n \in Nonces : Authenticate(n)
         \/ \E t \in Tokens : CheckToken(t)
         \/ Sweeper \/ Clock \/ UNCHANGED vars
  PROVE  /\ UNCHANGED <<serverVars, pinConfigured>>
         /\ DOMAIN sessions' \subseteq DOMAIN sessions
         /\ issued \subseteq issued'
<1>1. ASSUME NEW n \in Nonces, Authenticate(n)
      PROVE  UNCHANGED <<serverVars, pinConfigured, sessions>> /\ issued \subseteq issued'
  BY <1>1 DEF Authenticate, GenerateChallenge
<1>2. ASSUME NEW t \in Tokens, CheckToken(t)
      PROVE  UNCHANGED <<serverVars, pinConfigured, issued>> /\ DOMAIN sessions' \subseteq DOMAIN sessions
  BY <1>2, WithoutKeys DEF CheckToken, ValidateToken, histVars
<1>3. CASE Sweeper
  BY <1>3, SweptKeys DEF Sweeper, SweepExpired, histVars
<1>4. CASE Clock \/ UNCHANGED vars
  BY <1>4 DEF Clock, Tick, histVars, vars, authVars
<1>5. QED
  BY <1>1, <1>2, <1>3, <1>4

\* RedeemUnlockTicket hands the call a token never issued before, or ends it.
LEMMA RedeemEffect ==
  ASSUME ServerTypeOK, NEW h \in Handlers, UnlockRedeem(h)
  PROVE  /\ call[h].at = "u_redeem"
         /\ UNCHANGED <<granted, vouched, pinStored, pinSerial, pinConfigured>>
         /\ \/ /\ call'[h].at = "idle"
               /\ DOMAIN sessions' \subseteq DOMAIN sessions
               /\ UNCHANGED issued
            \/ \E t \in Tokens \ issued :
                 /\ call'[h].at = "u_read" /\ call'[h].token = t
                 /\ DOMAIN sessions' \subseteq DOMAIN sessions \cup {t}
                 /\ issued' = issued \cup {t}
<1>0. call \in [Handlers -> Call] /\ Idle.at = "idle"
  BY DEF ServerTypeOK, Idle
<1>a. DOMAIN Swept(sessions) \subseteq DOMAIN sessions
  BY SweptKeys
<1>1. ASSUME NEW t \in Tokens, TicketToSession(call[h].ticket, t),
             call' = [call EXCEPT ![h].at = "u_read", ![h].token = t]
      PROVE  /\ t \notin issued /\ UNCHANGED pinConfigured
             /\ call'[h].at = "u_read" /\ call'[h].token = t
             /\ DOMAIN sessions' \subseteq DOMAIN sessions \cup {t}
             /\ issued' = issued \cup {t}
  <2>1. /\ t \notin issued /\ UNCHANGED pinConfigured
        /\ issued' = issued \cup {t}
        /\ sessions' = With(Swept(sessions), t, now + SessionTTL)
    BY <1>1, Zenon DEF TicketToSession, AddSession
  <2>2. DOMAIN sessions' = DOMAIN Swept(sessions) \cup {t}
    BY <2>1, WithKeys, Zenon
  <2>3. call'[h].at = "u_read" /\ call'[h].token = t
    BY <1>1, <1>0 DEF Call
  <2>4. QED
    BY <2>1, <2>2, <2>3, <1>a, Zenon
<1>2. ASSUME TicketRefused(call[h].ticket) \/ TicketToNothing(call[h].ticket), Return(h)
      PROVE  /\ call'[h].at = "idle"
             /\ DOMAIN sessions' \subseteq DOMAIN sessions
             /\ UNCHANGED <<issued, pinConfigured>>
  <2>1. DOMAIN sessions' \subseteq DOMAIN sessions /\ UNCHANGED <<issued, pinConfigured>>
    BY <1>2, <1>a, Zenon DEF TicketRefused, TicketToNothing, histVars
  <2>2. call'[h].at = "idle"
    BY <1>2, <1>0 DEF Return
  <2>3. QED
    BY <2>1, <2>2
<1>3. QED
  BY <1>1, <1>2, Zenon DEF UnlockRedeem, At

\* The two ways an Unlock lets go of its session.
LEMMA RevokeEffect ==
  ASSUME ServerTypeOK, NEW h \in Handlers, UnlockRevoke(h)
  PROVE  /\ Redeeming(h) /\ call'[h].at = "idle"
         /\ DOMAIN sessions' = DOMAIN sessions \ {call[h].token}
         /\ UNCHANGED <<issued, granted, vouched, pinStored, pinSerial, pinConfigured>>
<1>0. call \in [Handlers -> Call] /\ Idle.at = "idle"
  BY DEF ServerTypeOK, Idle
<1>1. Redeeming(h) /\ call'[h].at = "idle"
  BY <1>0 DEF UnlockRevoke, Redeeming, At, Return
<1>2. DOMAIN sessions' = DOMAIN sessions \ {call[h].token}
  BY WithoutKeys, Zenon DEF UnlockRevoke, RevokeSession
<1>3. UNCHANGED <<issued, granted, vouched, pinStored, pinSerial, pinConfigured>>
  BY Zenon DEF UnlockRevoke, RevokeSession, histVars
<1>4. QED
  BY <1>1, <1>2, <1>3

LEMMA GrantEffect ==
  ASSUME ServerTypeOK, NEW h \in Handlers, UnlockGrant(h)
  PROVE  /\ call[h].at = "u_grant" /\ call'[h].at = "idle"
         /\ Grant(call[h].token, call[h].serial)
         /\ UNCHANGED <<sessions, issued, pinStored, pinSerial, pinConfigured>>
<1>0. call \in [Handlers -> Call] /\ Idle.at = "idle"
  BY DEF ServerTypeOK, Idle
<1>1. call[h].at = "u_grant" /\ call'[h].at = "idle"
  BY <1>0 DEF UnlockGrant, At, Return
<1>2. Grant(call[h].token, call[h].serial)
      /\ UNCHANGED <<sessions, issued, pinStored, pinSerial, pinConfigured>>
  BY Zenon DEF UnlockGrant, ResetPINFailures, histVars
<1>3. QED
  BY <1>1, <1>2

LEMMA RestartEffect ==
  ASSUME Restart
  PROVE  /\ DOMAIN sessions' = {}
         /\ \A h \in Handlers : call'[h].at = "idle"
         /\ pinConfigured' = (pinStored # None)
         /\ UNCHANGED <<issued, granted, vouched, pinStored, pinSerial>>
<1>1. DOMAIN sessions' = {}
  BY EmptyKeys, Zenon DEF Restart, NewAuthManager
<1>2. \A h \in Handlers : call'[h].at = "idle"
  BY DEF Restart, Idle
<1>3. pinConfigured' = (pinStored # None)
  BY Zenon DEF Restart, NewAuthManager
<1>4. UNCHANGED <<issued, granted, vouched, pinStored, pinSerial>>
  BY Zenon DEF Restart, NewAuthManager, histVars
<1>5. QED
  BY <1>1, <1>2, <1>3, <1>4

-----------------------------------------------------------------------------
\* Who holds a session whose PIN is still to be verified.

\* The calls of hs hold after the step exactly the sessions they held before.
SameHolders(hs) ==
  \A h \in hs : /\ Redeeming(h)' <=> Redeeming(h)
                /\ Redeeming(h) => call'[h].token = call[h].token

QuietStep ==
  /\ SameHolders(Handlers)
  /\ DOMAIN sessions' \subseteq DOMAIN sessions
  /\ issued \subseteq issued'
  /\ UNCHANGED granted

\* A fresh session given to a client at once.
ClientStep(t) ==
  /\ SameHolders(Handlers)
  /\ t \notin issued /\ issued' = issued \cup {t}
  /\ DOMAIN sessions' \subseteq DOMAIN sessions \cup {t}
  /\ granted' = granted \cup {t}

\* A fresh session given to the call h.
HolderStep(h, t) ==
  /\ SameHolders(Handlers \ {h})
  /\ ~Redeeming(h) /\ Redeeming(h)' /\ call'[h].token = t
  /\ t \notin issued /\ issued' = issued \cup {t}
  /\ DOMAIN sessions' \subseteq DOMAIN sessions \cup {t}
  /\ UNCHANGED granted

\* The call h takes its session out of the table, or gives it to the client.
ReleaseStep(h) ==
  /\ SameHolders(Handlers \ {h})
  /\ Redeeming(h) /\ ~Redeeming(h)'
  /\ UNCHANGED issued
  /\ \/ DOMAIN sessions' = DOMAIN sessions \ {call[h].token} /\ UNCHANGED granted
     \/ UNCHANGED sessions /\ granted' = granted \cup {call[h].token}

ClearStep ==
  /\ \A h \in Handlers : ~Redeeming(h)'
  /\ DOMAIN sessions' = {}
  /\ UNCHANGED <<issued, granted>>

LEMMA HandlerShape ==
  ASSUME ServerTypeOK, NEW h \in Handlers, HandlerStep(h)
  PROVE  \/ QuietStep
         \/ \E t \in Tokens : HolderStep(h, t)
         \/ ReleaseStep(h)
<1>1. SameHolders(Handlers \ {h})
  BY OthersKept DEF SameHolders, Redeeming
<1>2. CASE SetPINStep(h)
  <2>1. ~Redeeming(h) /\ ~Redeeming(h)'
    BY SetPINQuiet, <1>2 DEF Redeeming, SetPINLabels
  <2>2. SameHolders(Handlers)
    BY <1>1, <2>1 DEF SameHolders
  <2>3. QED
    BY <2>2, SetPINQuiet, <1>2 DEF QuietStep
<1>3. CASE UnlockRead(h) \/ UnlockRecord(h)
  <2>1. SameHolders(Handlers)
    BY <1>1, <1>3, UnlockQuiet DEF SameHolders
  <2>2. QED
    BY <2>1, <1>3, UnlockQuiet DEF QuietStep
<1>4. CASE UnlockRedeem(h)
  <2>1. call[h].at = "u_redeem" /\ ~Redeeming(h) /\ UNCHANGED granted
    BY <1>4, RedeemEffect DEF Redeeming
  <2>2. CASE call'[h].at = "idle" /\ DOMAIN sessions' \subseteq DOMAIN sessions /\ UNCHANGED issued
    <3>1. SameHolders(Handlers)
      BY <1>1, <2>1, <2>2 DEF SameHolders, Redeeming
    <3>2. QED
      BY <3>1, <2>1, <2>2 DEF QuietStep
  <2>3. ASSUME NEW t \in Tokens \ issued,
               call'[h].at = "u_read", call'[h].token = t,
               DOMAIN sessions' \subseteq DOMAIN sessions \cup {t},
               issued' = issued \cup {t}
        PROVE  HolderStep(h, t)
    BY <1>1, <2>1, <2>3 DEF HolderStep, Redeeming
  <2>4. QED
    BY <1>4, RedeemEffect, <2>2, <2>3
<1>5. CASE UnlockRevoke(h)
  BY <1>1, <1>5, RevokeEffect DEF ReleaseStep, Redeeming
<1>6. CASE UnlockGrant(h)
  BY <1>1, <1>6, GrantEffect DEF ReleaseStep, Redeeming, Grant
<1>7. QED
  BY <1>2, <1>3, <1>4, <1>5, <1>6, Zenon DEF HandlerStep, UnlockStep

LEMMA StepShape ==
  ASSUME ServerTypeOK, [Next]_vars
  PROVE  \/ QuietStep
         \/ \E t \in Tokens : ClientStep(t)
         \/ \E h \in Handlers : (\E t \in Tokens : HolderStep(h, t)) \/ ReleaseStep(h)
         \/ ClearStep
<1>1. ASSUME UNCHANGED call PROVE SameHolders(Handlers)
  BY <1>1 DEF SameHolders, Redeeming
<1>2. CASE \/ \E n \in Nonces : Authenticate(n)
           \/ \E t \in Tokens : CheckToken(t)
           \/ Sweeper \/ Clock \/ UNCHANGED vars
  <2>1. /\ UNCHANGED <<call, granted>>
        /\ DOMAIN sessions' \subseteq DOMAIN sessions /\ issued \subseteq issued'
    BY <1>2, OutsideQuiet DEF serverVars
  <2>2. QED
    BY <1>1, <2>1 DEF QuietStep
<1>3. ASSUME NEW n \in Nonces, VerifyChallenge(n)
      PROVE  QuietStep \/ \E t \in Tokens : ClientStep(t)
  <2>1. UNCHANGED call
    BY <1>3, VerifyEffect
  <2>2. SameHolders(Handlers)
    BY <1>1, <2>1
  <2>3. CASE /\ DOMAIN sessions' \subseteq DOMAIN sessions
             /\ issued \subseteq issued'
             /\ UNCHANGED <<granted, vouched>>
    BY <2>2, <2>3 DEF QuietStep
  <2>4. ASSUME NEW t \in Tokens \ issued,
               DOMAIN sessions' \subseteq DOMAIN sessions \cup {t},
               issued' = issued \cup {t}, Grant(t, 0)
        PROVE  ClientStep(t)
    BY <2>2, <2>4 DEF ClientStep, Grant
  <2>5. QED
    BY <1>3, VerifyEffect, <2>3, <2>4
<1>4. ASSUME NEW h \in Handlers, NEW p \in PINs,
             \/ \E k \in Tickets : UnlockCall(h, k, p)
             \/ \E t \in Tokens, q \in PINs : SetPINCall(h, t, p, q)
      PROVE  QuietStep
  <2>1. /\ call[h].at = "idle" /\ call'[h].at \in {"u_redeem", "s_read"}
        /\ \A g \in Handlers \ {h} : call'[g] = call[g]
        /\ UNCHANGED <<authVars, granted>>
    BY <1>4, ArrivalQuiet, Zenon
  <2>2. SameHolders(Handlers)
    BY <2>1 DEF SameHolders, Redeeming
  <2>3. QED
    BY <2>1, <2>2 DEF QuietStep, authVars
<1>5. ASSUME NEW h \in Handlers, HandlerStep(h)
      PROVE  QuietStep \/ (\E t \in Tokens : HolderStep(h, t)) \/ ReleaseStep(h)
  BY <1>5, HandlerShape
<1>6. CASE Restart
  BY <1>6, RestartEffect DEF ClearStep, Redeeming
<1>7. QED
  BY <1>2, <1>3, <1>4, <1>5, <1>6, Zenon DEF Next, Requests

LEMMA LimboStep ==
  ASSUME ServerTypeOK, LimboTokens, [Next]_vars
  PROVE  LimboTokens'
<1>1. CASE QuietStep
  BY <1>1 DEF QuietStep, SameHolders, LimboTokens
<1>2. ASSUME NEW t \in Tokens, ClientStep(t) PROVE LimboTokens'
  BY <1>2 DEF ClientStep, SameHolders, LimboTokens
<1>3. ASSUME NEW h \in Handlers, NEW t \in Tokens, HolderStep(h, t) PROVE LimboTokens'
  BY <1>3 DEF HolderStep, SameHolders, LimboTokens
<1>4. ASSUME NEW h \in Handlers, ReleaseStep(h) PROVE LimboTokens'
  BY <1>4 DEF ReleaseStep, SameHolders, LimboTokens
<1>5. CASE ClearStep
  BY <1>5 DEF ClearStep, LimboTokens
<1>6. QED
  BY StepShape, <1>1, <1>2, <1>3, <1>4, <1>5, Zenon

\* A token whose PIN is unverified is known to one Unlock and to no client.
THEOREM ServerLimboTokens == Spec => []LimboTokens
<1>1. Init => LimboTokens
  BY DEF Init, AuthInit, LimboTokens, Redeeming, Idle
<1>2. QED
  BY <1>1, LimboStep, ServerTypeCorrect, PTL DEF Spec

LEMMA OrphanStep ==
  ASSUME ServerTypeOK, NoOrphanSessions, [Next]_vars
  PROVE  NoOrphanSessions'
<1>1. CASE QuietStep
  BY <1>1 DEF QuietStep, SameHolders, NoOrphanSessions
<1>2. ASSUME NEW t \in Tokens, ClientStep(t) PROVE NoOrphanSessions'
  BY <1>2 DEF ClientStep, SameHolders, NoOrphanSessions
<1>3. ASSUME NEW h \in Handlers, NEW t \in Tokens, HolderStep(h, t)
      PROVE  NoOrphanSessions'
  BY <1>3 DEF HolderStep, SameHolders, NoOrphanSessions
<1>4. ASSUME NEW h \in Handlers, ReleaseStep(h) PROVE NoOrphanSessions'
  BY <1>4 DEF ReleaseStep, SameHolders, NoOrphanSessions
<1>5. CASE ClearStep
  BY <1>5 DEF ClearStep, NoOrphanSessions
<1>6. QED
  BY StepShape, <1>1, <1>2, <1>3, <1>4, <1>5, Zenon

\* No interleaving leaves a session in the table that neither a client nor an
\* Unlock in flight holds: a wrong PIN always takes its session with it.
THEOREM ServerNoOrphanSessions == Spec => []NoOrphanSessions
<1>1. Init => NoOrphanSessions
  BY EmptyKeys DEF Init, AuthInit, NoOrphanSessions
<1>2. QED
  BY <1>1, OrphanStep, ServerTypeCorrect, PTL DEF Spec

-----------------------------------------------------------------------------
\* The PIN a session was given for.

\* No call of hs enters or leaves the window between a SetPIN's store and its
\* invalidation, nor moves inside it.
SameWindow(hs) ==
  \A h \in hs : /\ call'[h].at = "s_configure"  <=> call[h].at = "s_configure"
                /\ call'[h].at = "s_invalidate" <=> call[h].at = "s_invalidate"

SamePIN == UNCHANGED <<pinStored, pinSerial, pinConfigured>>

LEMMA PinShape ==
  ASSUME ServerTypeOK, [Next]_vars
  PROVE  \/ SameWindow(Handlers) /\ SamePIN
         \/ \E h \in Handlers : SetPINStore(h) \/ SetPINConfigure(h) \/ SetPINInvalidate(h)
         \/ Restart
<1>0. call \in [Handlers -> Call] /\ Idle.at = "idle"
  BY DEF ServerTypeOK, Idle
<1>1. ASSUME UNCHANGED call PROVE SameWindow(Handlers)
  BY <1>1 DEF SameWindow
<1>2. CASE \/ \E n \in Nonces : Authenticate(n)
           \/ \E t \in Tokens : CheckToken(t)
           \/ Sweeper \/ Clock \/ UNCHANGED vars
  <2>1. UNCHANGED <<serverVars, pinConfigured>>
    BY <1>2, OutsideQuiet, Zenon
  <2>2. QED
    BY <1>1, <2>1, Zenon DEF SamePIN, serverVars
<1>3. ASSUME NEW n \in Nonces, VerifyChallenge(n)
      PROVE  SameWindow(Handlers) /\ SamePIN
  <2>1. UNCHANGED <<call, pinStored, pinSerial, pinConfigured>>
    BY <1>3, VerifyEffect, Zenon
  <2>2. QED
    BY <1>1, <2>1, Zenon DEF SamePIN
<1>4. ASSUME NEW h \in Handlers, NEW p \in PINs,
             \/ \E k \in Tickets : UnlockCall(h, k, p)
             \/ \E t \in Tokens, q \in PINs : SetPINCall(h, t, p, q)
      PROVE  SameWindow(Handlers) /\ SamePIN
  <2>1. /\ call[h].at = "idle" /\ call'[h].at \in {"u_redeem", "s_read"}
        /\ \A g \in Handlers \ {h} : call'[g] = call[g]
        /\ UNCHANGED <<authVars, pinStored, pinSerial>>
    BY <1>4, ArrivalQuiet, Zenon
  <2>2. SameWindow(Handlers)
    BY <2>1 DEF SameWindow
  <2>3. QED
    BY <2>1, <2>2, Zenon DEF SamePIN, authVars
<1>5. ASSUME NEW h \in Handlers, UnlockStep(h)
      PROVE  SameWindow(Handlers) /\ SamePIN
  <2>1. SameWindow(Handlers \ {h})
    BY <1>5, OthersKept DEF SameWindow, HandlerStep
  <2>2. CASE UnlockRead(h) \/ UnlockRecord(h)
    <3>1. Redeeming(h) /\ Redeeming(h)'
      BY <2>2, UnlockQuiet
    <3>2. UNCHANGED <<pinStored, pinSerial, pinConfigured>>
      BY <2>2, Zenon DEF UnlockRead, UnlockRecord, RecordGuess, RecordPINFailure, authVars
    <3>3. QED
      BY <2>1, <3>1, <3>2, Zenon DEF SameWindow, SamePIN, Redeeming
  <2>3. CASE UnlockRedeem(h)
    <3>1. call[h].at = "u_redeem" /\ call'[h].at \in {"idle", "u_read"}
      BY <2>3, RedeemEffect
    <3>2. SamePIN
      BY <2>3, RedeemEffect, Zenon DEF SamePIN
    <3>3. QED
      BY <2>1, <3>1, <3>2, Zenon DEF SameWindow
  <2>4. CASE UnlockRevoke(h)
    BY <2>1, <2>4, RevokeEffect, Zenon DEF SameWindow, SamePIN, Redeeming
  <2>5. CASE UnlockGrant(h)
    BY <2>1, <2>5, GrantEffect, Zenon DEF SameWindow, SamePIN
  <2>6. QED
    BY <1>5, <2>2, <2>3, <2>4, <2>5, Zenon DEF UnlockStep
<1>6. ASSUME NEW h \in Handlers,
             \/ SetPINRead(h) \/ SetPINCheck(h) \/ SetPINRecord(h)
             \/ SetPINReset(h) \/ SetPINAbort(h)
      PROVE  SameWindow(Handlers) /\ SamePIN
  <2>1. SameWindow(Handlers \ {h})
    BY <1>6, OthersKept, Zenon DEF SameWindow, HandlerStep, SetPINStep
  <2>2. /\ call[h].at \in {"s_read", "s_check", "s_record", "s_reset", "s_store"}
        /\ call'[h].at \in {"idle", "s_check", "s_record", "s_reset", "s_store"}
    BY <1>6, <1>0 DEF SetPINRead, SetPINCheck, SetPINRecord, SetPINReset, SetPINAbort,
                      At, Goto, Return, Call
  <2>3. SamePIN
    BY <1>6, Zenon DEF SetPINRead, SetPINCheck, SetPINRecord, SetPINReset, SetPINAbort,
                       RecordGuess, RecordPINFailure, ResetPINFailures, SamePIN, authVars
  <2>4. QED
    BY <2>1, <2>2, <2>3 DEF SameWindow
<1>7. QED
  BY <1>2, <1>3, <1>4, <1>5, <1>6, Zenon DEF Next, Requests, HandlerStep, SetPINStep

\* What the three sections of SetPIN's window do to the gate.
LEMMA WindowEffect ==
  ASSUME ServerTypeOK, NEW h \in Handlers
  PROVE  /\ SetPINStore(h) => /\ call[h].at = "s_store" /\ call'[h].at = "s_configure"
                              /\ pinStored' \in PINs /\ pinSerial' = pinSerial + 1
                              /\ UNCHANGED pinConfigured
         /\ SetPINConfigure(h) => /\ call[h].at = "s_configure" /\ call'[h].at = "s_invalidate"
                                  /\ pinConfigured'
                                  /\ UNCHANGED <<pinStored, pinSerial>>
         /\ SetPINInvalidate(h) => /\ call[h].at = "s_invalidate" /\ call'[h].at = "idle"
                                   /\ DOMAIN sessions' = {}
                                   /\ SamePIN
<1>0. call \in [Handlers -> Call] /\ Idle.at = "idle"
  BY DEF ServerTypeOK, Idle
<1>1. ASSUME SetPINStore(h)
      PROVE  /\ call[h].at = "s_store" /\ call'[h].at = "s_configure"
             /\ pinStored' \in PINs /\ pinSerial' = pinSerial + 1
             /\ UNCHANGED pinConfigured
  <2>1. call[h].at = "s_store" /\ call'[h].at = "s_configure"
    BY <1>0, <1>1 DEF SetPINStore, At, Goto, Call
  <2>2. call[h].newPin \in PINs
    BY <2>1 DEF ServerTypeOK, SetPINLabels
  <2>3. pinStored' \in PINs /\ pinSerial' = pinSerial + 1
    BY <1>1, <2>2 DEF SetPINStore
  <2>4. UNCHANGED pinConfigured
    BY <1>1, Zenon DEF SetPINStore, authVars
  <2>5. QED
    BY <2>1, <2>3, <2>4
<1>2. ASSUME SetPINConfigure(h)
      PROVE  /\ call[h].at = "s_configure" /\ call'[h].at = "s_invalidate"
             /\ pinConfigured'
             /\ UNCHANGED <<pinStored, pinSerial>>
  <2>1. call[h].at = "s_configure" /\ call'[h].at = "s_invalidate"
    BY <1>0, <1>2 DEF SetPINConfigure, At, Goto, Call
  <2>2. pinConfigured' /\ UNCHANGED <<pinStored, pinSerial>>
    BY <1>2, Zenon DEF SetPINConfigure, SetPINConfigured
  <2>3. QED
    BY <2>1, <2>2
<1>3. ASSUME SetPINInvalidate(h)
      PROVE  /\ call[h].at = "s_invalidate" /\ call'[h].at = "idle"
             /\ DOMAIN sessions' = {}
             /\ SamePIN
  <2>1. call[h].at = "s_invalidate" /\ call'[h].at = "idle"
    BY <1>0, <1>3 DEF SetPINInvalidate, At, Return
  <2>2. DOMAIN sessions' = {} /\ SamePIN
    BY <1>3, EmptyKeys, Zenon DEF SetPINInvalidate, InvalidateAllSessions, SamePIN
  <2>3. QED
    BY <2>1, <2>2
<1>4. QED
  BY <1>1, <1>2, <1>3, Zenon

LEMMA PinGateStep ==
  ASSUME ServerTypeOK, PinGate, [Next]_vars
  PROVE  PinGate'
<1> USE DEF PinGate, ChangingPIN, At
<1>0. None \notin PINs /\ pinSerial \in Nat
  BY NoneAssumption DEF ServerTypeOK
<1>1. CASE SameWindow(Handlers) /\ SamePIN
  BY <1>1, Zenon DEF SameWindow, SamePIN
<1>2. ASSUME NEW h \in Handlers, SetPINStore(h) PROVE PinGate'
  <2>1. /\ call'[h].at = "s_configure"
        /\ pinStored' # None /\ pinSerial' = pinSerial + 1 /\ UNCHANGED pinConfigured
    BY <1>0, <1>2, WindowEffect, Zenon
  <2>2. pinSerial' # 0
    BY <2>1, <1>0
  <2>3. QED
    BY <2>1, <2>2, Zenon
<1>3. ASSUME NEW h \in Handlers, SetPINConfigure(h) PROVE PinGate'
  BY <1>3, WindowEffect, Zenon
<1>4. ASSUME NEW h \in Handlers, SetPINInvalidate(h) PROVE PinGate'
  <2>1. /\ call[h].at = "s_invalidate" /\ call'[h].at = "idle" /\ SamePIN
    BY <1>4, WindowEffect, Zenon
  <2>2. \A g \in Handlers \ {h} : call'[g] = call[g]
    BY <1>4, OthersKept DEF HandlerStep, SetPINStep
  <2>3. \A g \in Handlers : call[g].at = "s_configure" => call'[g].at = "s_configure"
    BY <2>1, <2>2
  <2>4. QED
    BY <2>1, <2>3, Zenon DEF SamePIN
<1>5. CASE Restart
  <2>1. /\ \A h \in Handlers : call'[h].at = "idle"
        /\ pinConfigured' = (pinStored # None)
        /\ UNCHANGED <<pinStored, pinSerial>>
    BY <1>5, RestartEffect, Zenon
  <2>2. \A h \in Handlers : call'[h].at \notin {"s_configure", "s_invalidate"}
    BY <2>1
  <2>3. QED
    BY <2>1, <2>2, Zenon
<1>6. QED
  BY PinShape, <1>1, <1>2, <1>3, <1>4, <1>5, Zenon

LEMMA PinGateStarts == Init => PinGate
<1> SUFFICES ASSUME Init PROVE PinGate
  OBVIOUS
<1>1. /\ pinConfigured = (pinStored # None)
      /\ pinSerial = IF pinStored = None THEN 0 ELSE 1
      /\ call = [h \in Handlers |-> Idle]
  BY Zenon DEF Init
<1>2. pinStored = None <=> pinSerial = 0
  BY <1>1
<1>3. ~ChangingPIN
  BY <1>1 DEF ChangingPIN, Idle
<1>4. QED
  BY <1>1, <1>2, <1>3, Zenon DEF PinGate

\* The flag that decides between a ticket and a session agrees with the store
\* whenever no SetPIN is between storing a PIN and setting it.
THEOREM ServerPinGate == Spec => []PinGate
BY PinGateStarts, PinGateStep, ServerTypeCorrect, PTL DEF Spec

\* With no SetPIN in its window, what a step does to sessions, grants and the
\* calls about to grant.
VouchedStep ==
  /\ \A t \in granted' \cap DOMAIN sessions' : vouched'[t] = pinSerial
  /\ \A h \in Handlers :
       call'[h].at = "u_grant" /\ call'[h].token \in DOMAIN sessions' =>
         call'[h].serial = pinSerial

LEMMA VouchedUnlock ==
  ASSUME ServerTypeOK, LimboTokens, SessionsVouched, GrantsVouched, ~ChangingPIN,
         NEW h \in Handlers, UnlockStep(h)
  PROVE  VouchedStep
<1> USE DEF SessionsVouched, GrantsVouched, At
<1>0. call \in [Handlers -> Call] /\ granted \subseteq Tokens /\ vouched \in [Tokens -> Nat]
  BY DEF ServerTypeOK
<1>1. \A g \in Handlers \ {h} : call'[g] = call[g]
  BY OthersKept DEF HandlerStep
<1>2. CASE UnlockRead(h)
  <2>1. UNCHANGED <<sessions, granted, vouched>>
    BY <1>2, UnlockQuiet
  <2>2. call'[h].serial = pinSerial
    BY <1>2, <1>0 DEF UnlockRead, Call
  <2>3. QED
    BY <1>1, <2>1, <2>2 DEF VouchedStep
<1>3. CASE UnlockRecord(h)
  <2>1. UNCHANGED <<sessions, granted, vouched>>
    BY <1>3, UnlockQuiet
  <2>2. call'[h].at = "u_revoke"
    BY <1>3, <1>0 DEF UnlockRecord, Goto, Call
  <2>3. QED
    BY <1>1, <2>1, <2>2 DEF VouchedStep
<1>4. CASE UnlockRedeem(h)
  <2>1. call'[h].at # "u_grant" /\ UNCHANGED <<granted, vouched>>
    BY <1>4, RedeemEffect
  <2>2. \/ DOMAIN sessions' \subseteq DOMAIN sessions
        \/ \E t \in Tokens \ issued : DOMAIN sessions' \subseteq DOMAIN sessions \cup {t}
    BY <1>4, RedeemEffect
  <2>3. /\ granted \subseteq issued
        /\ \A g \in Handlers : call[g].at = "u_grant" => call[g].token \in issued
    BY DEF LimboTokens, Redeeming
  <2>4. QED
    BY <1>1, <2>1, <2>2, <2>3 DEF VouchedStep
<1>5. CASE UnlockRevoke(h)
  <2>1. /\ call'[h].at = "idle" /\ DOMAIN sessions' \subseteq DOMAIN sessions
        /\ UNCHANGED <<granted, vouched>>
    BY <1>5, RevokeEffect
  <2>2. QED
    BY <1>1, <2>1 DEF VouchedStep
<1>6. CASE UnlockGrant(h)
  <2>1. /\ call[h].at = "u_grant" /\ call'[h].at = "idle"
        /\ Grant(call[h].token, call[h].serial) /\ UNCHANGED sessions
    BY <1>6, GrantEffect
  <2>2. call[h].token \in Tokens
    BY <2>1 DEF ServerTypeOK, Redeeming
  <2>3. \A t \in granted' \cap DOMAIN sessions' : vouched'[t] = pinSerial
    BY <1>0, <2>1, <2>2 DEF Grant
  <2>4. QED
    BY <1>1, <2>1, <2>3 DEF VouchedStep
<1>7. QED
  BY <1>2, <1>3, <1>4, <1>5, <1>6, Zenon DEF UnlockStep

LEMMA VouchedOther ==
  ASSUME ServerTypeOK, LimboTokens, PinGate, SessionsVouched, GrantsVouched, ~ChangingPIN,
         [Next]_vars, ~(\E h \in Handlers : UnlockStep(h)), ~Restart
  PROVE  VouchedStep
<1> USE DEF SessionsVouched, GrantsVouched, At
<1>0. call \in [Handlers -> Call] /\ granted \subseteq Tokens /\ vouched \in [Tokens -> Nat]
  BY DEF ServerTypeOK
<1>1. CASE \/ \E n \in Nonces : Authenticate(n)
           \/ \E t \in Tokens : CheckToken(t)
           \/ Sweeper \/ Clock \/ UNCHANGED vars
  <2>1. UNCHANGED <<call, granted, vouched>> /\ DOMAIN sessions' \subseteq DOMAIN sessions
    BY <1>1, OutsideQuiet DEF serverVars
  <2>2. QED
    BY <2>1 DEF VouchedStep
<1>2. ASSUME NEW n \in Nonces, VerifyChallenge(n) PROVE VouchedStep
  <2>1. UNCHANGED call
    BY <1>2, VerifyEffect
  <2>2. CASE DOMAIN sessions' \subseteq DOMAIN sessions /\ UNCHANGED <<granted, vouched>>
    BY <2>1, <2>2 DEF VouchedStep
  <2>3. ASSUME NEW t \in Tokens \ issued, ~pinConfigured, Grant(t, 0),
               DOMAIN sessions' \subseteq DOMAIN sessions \cup {t}
        PROVE  VouchedStep
    <3>1. pinStored = None /\ pinSerial = 0
      <4>1. pinStored = None
        BY <2>3, Zenon DEF PinGate, ChangingPIN
      <4>2. QED
        BY <4>1, Zenon DEF PinGate
    <3>2. /\ granted \subseteq issued
          /\ \A g \in Handlers : call[g].at = "u_grant" => call[g].token \in issued
      BY DEF LimboTokens, Redeeming
    <3>3. \A g \in Handlers :
            call[g].at = "u_grant" /\ call[g].token \in DOMAIN sessions' =>
              call[g].serial = pinSerial
      BY <2>3, <3>2
    <3>4. \A x \in granted' \cap DOMAIN sessions' : vouched'[x] = pinSerial
      BY <1>0, <2>3, <3>1, <3>2 DEF Grant
    <3>5. QED
      BY <2>1, <3>3, <3>4 DEF VouchedStep
  <2>4. QED
    BY <1>2, VerifyEffect, <2>2, <2>3, Zenon
<1>3. ASSUME NEW h \in Handlers, NEW p \in PINs,
             \/ \E k \in Tickets : UnlockCall(h, k, p)
             \/ \E t \in Tokens, q \in PINs : SetPINCall(h, t, p, q)
      PROVE  VouchedStep
  <2>1. /\ call'[h].at \in {"u_redeem", "s_read"}
        /\ \A g \in Handlers \ {h} : call'[g] = call[g]
        /\ UNCHANGED <<authVars, granted, vouched>>
    BY <1>3, ArrivalQuiet, Zenon
  <2>2. QED
    BY <2>1 DEF VouchedStep, authVars
<1>4. ASSUME NEW h \in Handlers, SetPINStep(h) PROVE VouchedStep
  <2>1. /\ call'[h].at # "u_grant" /\ UNCHANGED <<granted, vouched>>
        /\ DOMAIN sessions' \subseteq DOMAIN sessions
    BY <1>4, SetPINQuiet DEF SetPINLabels
  <2>2. \A g \in Handlers \ {h} : call'[g] = call[g]
    BY <1>4, OthersKept DEF HandlerStep
  <2>3. QED
    BY <2>1, <2>2 DEF VouchedStep
<1>5. QED
  BY <1>1, <1>2, <1>3, <1>4, Zenon DEF Next, Requests, HandlerStep

LEMMA VouchStep ==
  ASSUME ServerTypeOK, LimboTokens, PinGate, SessionsVouched, GrantsVouched, [Next]_vars
  PROVE  SessionsVouched' /\ GrantsVouched'
<1>1. CASE SameWindow(Handlers) /\ SamePIN /\ ~Restart
  <2>1. ChangingPIN' <=> ChangingPIN
    BY <1>1 DEF SameWindow, ChangingPIN
  <2>2. ~ChangingPIN => VouchedStep
    BY <1>1, VouchedUnlock, VouchedOther, Zenon
  <2>3. QED
    BY <1>1, <2>1, <2>2 DEF SessionsVouched, GrantsVouched, VouchedStep, SamePIN, At
<1>2. ASSUME NEW h \in Handlers, SetPINStore(h) \/ SetPINConfigure(h)
      PROVE  ChangingPIN'
  BY <1>2, WindowEffect DEF ChangingPIN
<1>3. ASSUME NEW h \in Handlers, SetPINInvalidate(h)
      PROVE  DOMAIN sessions' = {}
  BY <1>3, WindowEffect
<1>4. CASE Restart
  BY <1>4, RestartEffect DEF SessionsVouched, GrantsVouched
<1>5. QED
  BY PinShape, <1>1, <1>2, <1>3, <1>4 DEF SessionsVouched, GrantsVouched

\* No interleaving of Unlock, VerifyChallenge, SetPIN and restarts leaves a
\* client with a usable session given for a PIN other than the one stored now,
\* once the SetPIN that replaced the PIN has invalidated the sessions.
THEOREM ServerSessionsVouched == Spec => []SessionsVouched
<1>1. Init => SessionsVouched /\ GrantsVouched
  BY EmptyKeys DEF Init, AuthInit, SessionsVouched, GrantsVouched, At, Idle
<1>2. QED
  BY <1>1, VouchStep, ServerTypeCorrect, ServerLimboTokens, ServerPinGate, PTL DEF Spec

\* An Unlock that is about to hand out its session (server.go:363) holds one of
\* the PIN stored now, or one that is gone already.
THEOREM ServerGrantsVouched == Spec => []GrantsVouched
<1>1. Init => SessionsVouched /\ GrantsVouched
  BY EmptyKeys DEF Init, AuthInit, SessionsVouched, GrantsVouched, At, Idle
<1>2. QED
  BY <1>1, VouchStep, ServerTypeCorrect, ServerLimboTokens, ServerPinGate, PTL DEF Spec

-----------------------------------------------------------------------------
\* The wrong PINs recorded under a lock.

GuessLabels == {"u_redeem", "u_read", "u_record", "s_record"}

\* The three things a step can do to the bound: keep it, end the lock, or record
\* a guess for a call that had passed the rate limit.
LockKept ==
  /\ RateLimited' => RateLimited
  /\ UNCHANGED guesses
  /\ PastRateLimit' \subseteq PastRateLimit

GuessRecorded(h) ==
  /\ h \in PastRateLimit
  /\ PastRateLimit' \subseteq PastRateLimit \ {h}
  /\ guesses' = IF RateLimited THEN guesses + 1 ELSE 1

LockShape == LockKept \/ ~RateLimited' \/ \E h \in Handlers : GuessRecorded(h)

\* A call that does not come to be past the rate limit leaves the others' count.
LEMMA PastShrinks ==
  ASSUME NEW h \in Handlers, \A g \in Handlers \ {h} : call'[g] = call[g]
  PROVE  /\ call'[h].at \notin GuessLabels => PastRateLimit' \subseteq PastRateLimit \ {h}
         /\ h \in PastRateLimit => PastRateLimit' \subseteq PastRateLimit
BY DEF PastRateLimit, GuessLabels

\* What moves neither the clock nor the lock nor a call keeps the bound.
LEMMA LockUntouched ==
  ASSUME UNCHANGED <<now, pinLockedUntil, call, guesses>>
  PROVE  LockKept
BY DEF LockKept, RateLimited, PastRateLimit

LEMMA LockOutside ==
  ASSUME \/ \E n \in Nonces : Authenticate(n) \/ VerifyChallenge(n)
         \/ \E t \in Tokens : CheckToken(t)
         \/ Sweeper \/ UNCHANGED vars
  PROVE  LockKept
<1>1. ASSUME NEW n \in Nonces, Authenticate(n) \/ VerifyChallenge(n)
      PROVE  UNCHANGED <<now, pinLockedUntil, call, guesses>>
  <2>1. CASE Authenticate(n)
    BY <2>1, Zenon DEF Authenticate, GenerateChallenge, pinVars, serverVars
  <2>2. CASE \E k \in Tickets : VerifyToTicket(n, k)
    BY <2>2, Zenon DEF VerifyToTicket, NonceToTicket, pinVars, serverVars
  <2>3. CASE \E t \in Tokens : VerifyToSession(n, t)
    BY <2>3, Zenon DEF VerifyToSession, NonceToSession, pinVars
  <2>4. CASE VerifyFails(n)
    BY <2>4, Zenon DEF VerifyFails, NonceRefused, NonceToNothing, pinVars, serverVars
  <2> QED
    BY <1>1, <2>1, <2>2, <2>3, <2>4, Zenon DEF VerifyChallenge
<1>2. ASSUME NEW t \in Tokens, CheckToken(t)
      PROVE  UNCHANGED <<now, pinLockedUntil, call, guesses>>
  BY <1>2, Zenon DEF CheckToken, ValidateToken, pinVars, serverVars
<1>3. ASSUME Sweeper \/ UNCHANGED vars
      PROVE  UNCHANGED <<now, pinLockedUntil, call, guesses>>
  BY <1>3, Zenon DEF Sweeper, SweepExpired, pinVars, vars, authVars, serverVars
<1> QED
  BY <1>1, <1>2, <1>3, LockUntouched, Zenon

LEMMA LockClock ==
  ASSUME ServerTypeOK, Clock
  PROVE  LockKept
BY DEF ServerTypeOK, TypeOK, Clock, Tick, LockKept, RateLimited, PastRateLimit, pinVars, serverVars

\* A call arrives past the rate limit only while nothing is locked.
LEMMA LockArrival ==
  ASSUME ServerTypeOK, NEW h \in Handlers, NEW p \in PINs,
         \/ \E k \in Tickets : UnlockCall(h, k, p)
         \/ \E t \in Tokens, q \in PINs : SetPINCall(h, t, p, q)
  PROVE  LockKept \/ ~RateLimited'
<1>1. UNCHANGED <<now, pinLockedUntil, guesses>>
  BY Zenon DEF UnlockCall, SetPINCall, authVars
<1>2. ASSUME NEW k \in Tickets, UnlockCall(h, k, p)
      PROVE  ~RateLimited'
  BY <1>1, <1>2 DEF UnlockCall, RateLimited
<1>3. ASSUME NEW t \in Tokens, NEW q \in PINs, SetPINCall(h, t, p, q)
      PROVE  LockKept
  <2>1. call'[h] = [Idle EXCEPT !.at = "s_read", !.token = t, !.pin = p, !.newPin = q]
    BY <1>3 DEF SetPINCall, ServerTypeOK
  <2>2. call'[h].at \notin GuessLabels
    BY <2>1 DEF Idle, GuessLabels
  <2>3. PastRateLimit' \subseteq PastRateLimit
    BY <1>3, <2>2, ArrivalQuiet, PastShrinks, Zenon
  <2> QED
    BY <1>1, <2>3 DEF LockKept, RateLimited
<1> QED
  BY <1>2, <1>3, Zenon

LEMMA LockUnlock ==
  ASSUME ServerTypeOK, NEW h \in Handlers, UnlockStep(h)
  PROVE  LockKept \/ ~RateLimited' \/ GuessRecorded(h)
<1>0. call \in [Handlers -> Call] /\ \A g \in Handlers \ {h} : call'[g] = call[g]
  BY OthersKept DEF ServerTypeOK, HandlerStep
<1>1. CASE UnlockRedeem(h) \/ UnlockRead(h)
  <2>1. h \in PastRateLimit
    BY <1>1 DEF UnlockRedeem, UnlockRead, At, PastRateLimit
  <2>2. UNCHANGED <<now, pinLockedUntil, guesses>>
    BY <1>1, Zenon DEF UnlockRedeem, UnlockRead, TicketToSession, TicketRefused, TicketToNothing,
                       pinVars, authVars
  <2> QED
    BY <1>0, <2>1, <2>2, PastShrinks DEF LockKept, RateLimited
<1>2. CASE UnlockRecord(h)
  <2>1. h \in PastRateLimit /\ call'[h].at = "u_revoke"
    BY <1>0, <1>2 DEF UnlockRecord, At, Goto, PastRateLimit, Call
  <2>2. PastRateLimit' \subseteq PastRateLimit \ {h}
    BY <1>0, <2>1, PastShrinks DEF GuessLabels
  <2> QED
    BY <1>2, <2>1, <2>2, Zenon DEF GuessRecorded, UnlockRecord, RecordGuess
<1>3. CASE UnlockRevoke(h)
  <2>1. call'[h].at = "idle"
    BY <1>3, RevokeEffect
  <2>2. PastRateLimit' \subseteq PastRateLimit
    BY <1>0, <2>1, PastShrinks DEF GuessLabels
  <2> QED
    BY <1>3, <2>2 DEF LockKept, RateLimited, UnlockRevoke, RevokeSession, pinVars
<1>4. CASE UnlockGrant(h)
  BY <1>4 DEF UnlockGrant, ResetPINFailures, RateLimited, ServerTypeOK, TypeOK
<1> QED
  BY <1>1, <1>2, <1>3, <1>4, Zenon DEF UnlockStep

LEMMA LockSetPIN ==
  ASSUME ServerTypeOK, NEW h \in Handlers, SetPINStep(h)
  PROVE  LockKept \/ ~RateLimited' \/ GuessRecorded(h)
<1>0. /\ call \in [Handlers -> Call] /\ \A g \in Handlers \ {h} : call'[g] = call[g]
      /\ Idle.at = "idle"
  BY OthersKept DEF ServerTypeOK, HandlerStep, Idle
<1>1. CASE \/ SetPINRead(h) \/ SetPINStore(h) \/ SetPINAbort(h)
           \/ SetPINConfigure(h) \/ SetPINInvalidate(h)
  <2>1. call'[h].at \in {"s_store", "s_check", "s_configure", "s_invalidate", "idle"}
    <3>1. CASE SetPINRead(h)
      BY <1>0, <3>1 DEF SetPINRead, Call
    <3>2. CASE SetPINStore(h) \/ SetPINConfigure(h) \/ SetPINInvalidate(h)
      BY <3>2, WindowEffect
    <3>3. CASE SetPINAbort(h)
      BY <1>0, <3>3 DEF SetPINAbort, Return
    <3> QED
      BY <1>1, <3>1, <3>2, <3>3
  <2>2. PastRateLimit' \subseteq PastRateLimit
    BY <1>0, <2>1, PastShrinks DEF GuessLabels
  <2>3. UNCHANGED <<now, pinLockedUntil, guesses>>
    BY <1>1, Zenon DEF SetPINRead, SetPINStore, SetPINAbort, SetPINConfigure, SetPINInvalidate,
                       SetPINConfigured, InvalidateAllSessions, pinVars, authVars
  <2> QED
    BY <2>2, <2>3 DEF LockKept, RateLimited
<1>2. CASE SetPINCheck(h)
  <2>1. UNCHANGED <<now, pinLockedUntil, guesses>>
    BY <1>2, Zenon DEF SetPINCheck, authVars
  <2>2. RateLimited => call'[h].at = "idle"
    BY <1>0, <1>2 DEF SetPINCheck, Return
  <2>3. RateLimited => PastRateLimit' \subseteq PastRateLimit
    BY <1>0, <2>2, PastShrinks DEF GuessLabels
  <2> QED
    BY <2>1, <2>3 DEF LockKept, RateLimited
<1>3. CASE SetPINRecord(h)
  <2>1. h \in PastRateLimit /\ call'[h].at = "idle"
    BY <1>0, <1>3 DEF SetPINRecord, At, Return, PastRateLimit
  <2>2. PastRateLimit' \subseteq PastRateLimit \ {h}
    BY <1>0, <2>1, PastShrinks DEF GuessLabels
  <2> QED
    BY <1>3, <2>1, <2>2, Zenon DEF GuessRecorded, SetPINRecord, RecordGuess
<1>4. CASE SetPINReset(h)
  BY <1>4 DEF SetPINReset, ResetPINFailures, RateLimited, ServerTypeOK, TypeOK
<1> QED
  BY <1>1, <1>2, <1>3, <1>4, Zenon DEF SetPINStep

LEMMA LockStep ==
  ASSUME ServerTypeOK, [Next]_vars
  PROVE  LockShape
<1>1. CASE Restart
  BY <1>1 DEF Restart, NewAuthManager, RateLimited, ServerTypeOK, TypeOK, LockShape
<1> QED
  BY <1>1, LockOutside, LockClock, LockArrival, LockUnlock, LockSetPIN, Zenon
     DEF Next, Requests, HandlerStep, LockShape

LEMMA GuessStep ==
  ASSUME ServerTypeOK, GuessesBounded, [Next]_vars
  PROVE  GuessesBounded'
<1>0. /\ IsFiniteSet(Handlers) /\ Cardinality(Handlers) \in Nat /\ guesses \in Nat
      /\ PastRateLimit \subseteq Handlers /\ (PastRateLimit \subseteq Handlers)'
  BY HandlersAssumption, FS_CardinalityType DEF ServerTypeOK, PastRateLimit
<1>1. /\ IsFiniteSet(PastRateLimit) /\ Cardinality(PastRateLimit) \in Nat
      /\ Cardinality(PastRateLimit) <= Cardinality(Handlers)
      /\ Cardinality(PastRateLimit') \in Nat
  BY <1>0, FS_Subset, FS_CardinalityType
<1>2. CASE LockKept
  <2>1. Cardinality(PastRateLimit') <= Cardinality(PastRateLimit)
    BY <1>1, <1>2, FS_Subset DEF LockKept
  <2> QED
    BY <1>0, <1>1, <1>2, <2>1 DEF LockKept, GuessesBounded
<1>3. ASSUME NEW h \in Handlers, GuessRecorded(h)
      PROVE  GuessesBounded'
  <2>1. Cardinality(PastRateLimit') <= Cardinality(PastRateLimit) - 1
    <3>1. /\ IsFiniteSet(PastRateLimit \ {h})
          /\ Cardinality(PastRateLimit \ {h}) = Cardinality(PastRateLimit) - 1
      BY <1>1, <1>3, FS_RemoveElement DEF GuessRecorded
    <3> QED
      BY <1>3, <3>1, FS_Subset DEF GuessRecorded
  <2> QED
    BY <1>0, <1>1, <1>3, <2>1 DEF GuessRecorded, GuessesBounded
<1> QED
  BY <1>2, <1>3, LockStep DEF LockShape, GuessesBounded

\* However unlocks and PIN changes overlap, a lock is outrun by no more wrong
\* PINs than there were calls in flight when it began (auth.go:70, auth.go:79).
THEOREM ServerGuessesBounded == Spec => []GuessesBounded
<1>1. Init => GuessesBounded
  BY DEF Init, AuthInit, GuessesBounded, RateLimited
<1> QED
  BY <1>1, GuessStep, ServerTypeCorrect, PTL DEF Spec

-----------------------------------------------------------------------------
\* What a SetPIN knows of the record it is about to replace.

ReadLabels == {"s_check", "s_record", "s_reset", "s_store"}

\* The serial a SetPIN read is not ahead of the store, the PIN read under the
\* store's serial is the one stored, and past the check it is the request's own.
ReadOK(c, stored, serial) ==
  /\ c.at \in ReadLabels => c.serial <= serial /\ (c.serial = serial => c.read = stored)
  /\ c.at \in {"s_reset", "s_store"} => c.read \in {None, c.pin}

ReadsOK == \A h \in Handlers : ReadOK(call[h], pinStored, pinSerial)

\* Once another PIN is stored, what was read before says nothing of it.
LEMMA ReadOutdated ==
  ASSUME NEW c \in Call, NEW n \in Nat, NEW s, NEW r, ReadOK(c, s, n)
  PROVE  ReadOK(c, r, n + 1)
BY DEF ReadOK, Call

LEMMA ReadElsewhere ==
  ASSUME NEW c, c.at \notin ReadLabels, NEW s, NEW n
  PROVE  ReadOK(c, s, n)
BY DEF ReadOK, ReadLabels

LEMMA ReadUnlock ==
  ASSUME ServerTypeOK, NEW h \in Handlers, UnlockStep(h)
  PROVE  call'[h].at \notin ReadLabels /\ UNCHANGED <<pinStored, pinSerial>>
<1>1. CASE UnlockRead(h) \/ UnlockRecord(h)
  <2>1. Redeeming(h)'
    BY <1>1, UnlockQuiet
  <2>2. UNCHANGED <<pinStored, pinSerial>>
    BY <1>1, Zenon DEF UnlockRead, UnlockRecord
  <2> QED
    BY <2>1, <2>2 DEF Redeeming, ReadLabels
<1>2. CASE UnlockRedeem(h)
  BY <1>2, RedeemEffect DEF ReadLabels
<1>3. CASE UnlockRevoke(h)
  BY <1>3, RevokeEffect DEF ReadLabels
<1>4. CASE UnlockGrant(h)
  BY <1>4, GrantEffect DEF ReadLabels
<1> QED
  BY <1>1, <1>2, <1>3, <1>4, Zenon DEF UnlockStep

LEMMA ReadSetPIN ==
  ASSUME ServerTypeOK, ReadsOK, NEW h \in Handlers, SetPINStep(h)
  PROVE  ReadOK(call'[h], pinStored', pinSerial')
<1> DEFINE c == call[h]
<1>0. /\ call \in [Handlers -> Call] /\ c \in Call /\ Idle.at = "idle" /\ pinSerial \in Nat
      /\ ReadOK(c, pinStored, pinSerial)
  BY DEF ServerTypeOK, Idle, ReadsOK
<1>1. CASE SetPINRead(h)
  <2>1. /\ call'[h].at \in {"s_store", "s_check"} /\ call'[h].read = pinStored
        /\ call'[h].serial = pinSerial
        /\ call'[h].at = "s_store" => pinStored = None
    BY <1>0, <1>1 DEF SetPINRead, Call
  <2>2. UNCHANGED <<pinStored, pinSerial>>
    BY <1>1, Zenon DEF SetPINRead
  <2> QED
    BY <1>0, <2>1, <2>2 DEF ReadOK
<1>2. ASSUME NEW label, Goto(h, label), UNCHANGED <<pinStored, pinSerial>>,
             c.at \in ReadLabels,
             label \in {"s_reset", "s_store"} => c.pin = c.read \/ c.at = "s_reset"
      PROVE  ReadOK(call'[h], pinStored', pinSerial')
  <2>1. /\ call'[h].at = label /\ call'[h].read = c.read
        /\ call'[h].serial = c.serial /\ call'[h].pin = c.pin
    BY <1>0, <1>2 DEF Goto, Call
  <2> QED
    BY <1>0, <1>2, <2>1 DEF ReadOK
<1>3. ASSUME Return(h) PROVE ReadOK(call'[h], pinStored', pinSerial')
  <2>1. call'[h].at = "idle"
    BY <1>0, <1>3 DEF Return
  <2> QED
    BY <2>1, ReadElsewhere DEF ReadLabels
<1>4. CASE SetPINCheck(h)
  <2>1. c.at = "s_check" /\ UNCHANGED <<pinStored, pinSerial>>
    BY <1>4, Zenon DEF SetPINCheck, At
  <2>2. Return(h) \/ (c.pin = c.read /\ Goto(h, "s_reset")) \/ Goto(h, "s_record")
    BY <1>4 DEF SetPINCheck, Return, Goto
  <2> QED
    BY <1>2, <1>3, <2>1, <2>2 DEF ReadLabels
<1>5. CASE SetPINReset(h)
  <2>1. c.at = "s_reset" /\ UNCHANGED <<pinStored, pinSerial>> /\ Goto(h, "s_store")
    BY <1>5, Zenon DEF SetPINReset, At
  <2> QED
    BY <1>2, <2>1 DEF ReadLabels
<1>6. CASE SetPINRecord(h) \/ SetPINAbort(h) \/ SetPINInvalidate(h)
  BY <1>3, <1>6, Zenon DEF SetPINRecord, SetPINAbort, SetPINInvalidate
<1>7. CASE SetPINStore(h) \/ SetPINConfigure(h)
  BY <1>7, WindowEffect, ReadElsewhere DEF ReadLabels
<1> QED
  BY <1>1, <1>4, <1>5, <1>6, <1>7, Zenon DEF SetPINStep

LEMMA ReadsStep ==
  ASSUME ServerTypeOK, ReadsOK, [Next]_vars
  PROVE  ReadsOK'
<1>0. call \in [Handlers -> Call] /\ pinSerial \in Nat
  BY DEF ServerTypeOK
<1>1. CASE UNCHANGED <<call, pinStored, pinSerial>>
  BY <1>1 DEF ReadsOK
<1>2. ASSUME NEW n \in Nonces, VerifyChallenge(n)
      PROVE  UNCHANGED <<call, pinStored, pinSerial>>
  BY <1>2, VerifyEffect, Zenon
<1>3. ASSUME \/ \E n \in Nonces : Authenticate(n)
             \/ \E t \in Tokens : CheckToken(t)
             \/ Sweeper \/ Clock \/ UNCHANGED vars
      PROVE  UNCHANGED <<call, pinStored, pinSerial>>
  BY <1>3, OutsideQuiet, Zenon DEF serverVars
<1>4. ASSUME NEW h \in Handlers, NEW p \in PINs,
             \/ \E k \in Tickets : UnlockCall(h, k, p)
             \/ \E t \in Tokens, q \in PINs : SetPINCall(h, t, p, q)
      PROVE  ReadsOK'
  <2>1. /\ call'[h].at \notin ReadLabels /\ \A g \in Handlers \ {h} : call'[g] = call[g]
        /\ UNCHANGED <<pinStored, pinSerial>>
    BY <1>4, ArrivalQuiet DEF ReadLabels
  <2> QED
    BY <2>1, ReadElsewhere DEF ReadsOK
<1>5. ASSUME NEW h \in Handlers, HandlerStep(h)
      PROVE  ReadsOK'
  <2>1. \A g \in Handlers \ {h} : call'[g] = call[g]
    BY <1>5, OthersKept
  <2>2. ReadOK(call'[h], pinStored', pinSerial')
    BY <1>5, ReadUnlock, ReadSetPIN, ReadElsewhere, Zenon DEF HandlerStep
  <2>3. UNCHANGED <<pinStored, pinSerial>> \/ pinSerial' = pinSerial + 1
    <3>1. CASE UnlockStep(h)
      BY <3>1, ReadUnlock
    <3>2. CASE SetPINStep(h)
      BY <3>2, Zenon DEF SetPINStep, SetPINRead, SetPINCheck, SetPINRecord, SetPINReset,
                         SetPINStore, SetPINAbort, SetPINConfigure, SetPINInvalidate
    <3> QED
      BY <1>5, <3>1, <3>2 DEF HandlerStep
  <2>4. \A g \in Handlers \ {h} : ReadOK(call[g], pinStored', pinSerial')
    BY <1>0, <2>3, ReadOutdated DEF ReadsOK
  <2> QED
    BY <2>1, <2>2, <2>4 DEF ReadsOK
<1>6. CASE Restart
  BY <1>6, RestartEffect, ReadElsewhere DEF ReadsOK, ReadLabels
<1> QED
  BY <1>1, <1>2, <1>3, <1>4, <1>5, <1>6, Zenon DEF Next, Requests

\* SetPIN (server.go:297-336) replaces a stored PIN only for a request that gave
\* it, or after another SetPIN has replaced the PIN the request was checked against.
THEOREM ServerPINChangeChecked == Spec => PINChangeChecked
<1>1. Init => ReadsOK
  BY DEF Init, ReadsOK, ReadOK, ReadLabels, Idle
<1>2. ReadsOK => \A h \in Handlers : At(h, "s_store") =>
                   pinStored \in {None, call[h].pin} \/ call[h].serial # pinSerial
  BY DEF ReadsOK, ReadOK, ReadLabels, At
<1> DEFINE Checked ==
             \A h \in Handlers :
               pinSerial' # pinSerial /\ At(h, "s_store") /\ ~(At(h, "s_store"))' =>
                 \/ pinStored \in {None, call[h].pin}
                 \/ call[h].serial # pinSerial
<1>3. ReadsOK => Checked
  BY <1>2, Zenon
<1>4. Spec => []ReadsOK
  BY <1>1, ReadsStep, ServerTypeCorrect, PTL DEF Spec
<1>5. ReadsOK /\ [Next]_vars => [Checked]_vars
  BY <1>3, Zenon
<1> HIDE DEF Checked
<1>6. Spec => [][Checked]_vars
  BY <1>4, <1>5, PTL DEF Spec
<1> QED
  BY <1>6 DEF PINChangeChecked, Checked

=============================================================================
