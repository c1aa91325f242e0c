----------------------------- MODULE SekeveServer -----------------------------
(***************************************************************************)
(* The PIN-aware RPC handlers of the gRPC server                           *)
(* (internal/adapters/grpc/server.go) over AuthManager and the PIN record  *)
(* of the store.  gRPC runs each call in a goroutine of its own; a handler *)
(* is atomic only inside one AuthManager method or one bbolt transaction,  *)
(* so every such section is a step and handlers interleave between them.   *)
(*                                                                         *)
(* Handlers that make a single call (Authenticate, VerifyChallenge, the    *)
(* interceptor in front of an entry RPC) are one step.  A request refused  *)
(* before it changes anything (rate limit, malformed PIN, unknown token)   *)
(* is a stuttering step and has no action.                                 *)
(***************************************************************************)
EXTENDS AuthManager

CONSTANTS
  Handlers,   \* slots for the calls in flight
  PINs,       \* PINs that pass validatePIN
  None        \* no PIN stored, no identifier

ASSUME NoneAssumption == None \notin PINs \cup Ids

ASSUME HandlersAssumption == IsFiniteSet(Handlers)

VARIABLES
  pinStored,  \* keyPINHash/keyPINSalt in the auth bucket: the PIN they accept
  pinSerial,  \* history: how many PINs have been stored, 0 when there is none
  call,       \* the calls in flight, with the local variables of the handler
  granted,    \* history: the tokens some client was given
  vouched,    \* history: the serial of the PIN a granted token was given for
  guesses     \* history: wrong PINs recorded since the lock was last open

serverVars == <<pinStored, pinSerial, call, granted, vouched, guesses>>
vars == <<authVars, serverVars>>

Idle == [at |-> "idle", ticket |-> None, token |-> None,
         pin |-> None, newPin |-> None, read |-> None, serial |-> 0]

UnlockLabels == {"u_redeem", "u_read", "u_record", "u_revoke", "u_grant"}
SetPINLabels == {"s_read", "s_check", "s_record", "s_reset", "s_store",
                 "s_configure", "s_invalidate"}

Call == [at : {"idle"} \cup UnlockLabels \cup SetPINLabels,
         ticket : Tickets \cup {None}, token : Tokens \cup {None},
         pin : PINs \cup {None}, newPin : PINs \cup {None},
         read : PINs \cup {None}, serial : Nat]

At(h, label)     == call[h].at = label
Goto(h, label)   == call' = [call EXCEPT ![h].at = label]
Return(h)        == call' = [call EXCEPT ![h] = Idle]

\* An Unlock that holds a session in the table.
Redeeming(h) == call[h].at \in {"u_read", "u_record", "u_revoke", "u_grant"}

\* Types, and for each call the arguments its next section uses.
ServerTypeOK ==
  /\ TypeOK
  /\ pinStored \in PINs \cup {None}
  /\ pinSerial \in Nat
  /\ call \in [Handlers -> Call]
  /\ granted \subseteq Tokens
  /\ vouched \in [Tokens -> Nat]
  /\ guesses \in Nat
  /\ \A h \in Handlers :
       /\ At(h, "u_redeem") => call[h].ticket \in Tickets
       /\ Redeeming(h) => call[h].token \in Tokens
       /\ call[h].at \in SetPINLabels => call[h].newPin \in PINs

-----------------------------------------------------------------------------
\* Single-step handlers.

\* Authenticate: the GPG round trip ends in GenerateChallenge.
Authenticate(n) == GenerateChallenge(n) /\ UNCHANGED serverVars

Grant(t, serial) ==
  /\ granted' = granted \cup {t}
  /\ vouched' = [vouched EXCEPT ![t] = serial]

\* VerifyChallenge: VerifyNonce and its reply: a ticket, a session, an error.
VerifyToTicket(n, k) == NonceToTicket(n, k) /\ UNCHANGED serverVars

VerifyToSession(n, t) ==
  /\ NonceToSession(n, t)
  /\ Grant(t, 0)
  /\ UNCHANGED <<pinStored, pinSerial, call, guesses>>

VerifyFails(n) == (NonceRefused(n) \/ NonceToNothing(n)) /\ UNCHANGED serverVars

VerifyChallenge(n) ==
  /\ n \in issued
  /\ \/ \E k \in Tickets : VerifyToTicket(n, k)
     \/ \E t \in Tokens  : VerifyToSession(n, t)
     \/ VerifyFails(n)

\* UnaryInterceptor in front of any RPC that needs a token.
CheckToken(t) ==
  /\ t \in granted
  /\ ValidateToken(t)
  /\ UNCHANGED serverVars

Sweeper == SweepExpired /\ UNCHANGED serverVars

-----------------------------------------------------------------------------
\* Unlock(ticket, PIN).

\* The call arrives and passes CheckPINRateLimit.
UnlockCall(h, k, p) ==
  /\ At(h, "idle")
  /\ k \in issued
  /\ ~RateLimited
  /\ call' = [call EXCEPT ![h] = [Idle EXCEPT !.at = "u_redeem", !.ticket = k, !.pin = p]]
  /\ UNCHANGED <<authVars, pinStored, pinSerial, granted, vouched, guesses>>

\* Mutant: the error of RedeemUnlockTicket is not looked at.
UnlockRedeemUnchecked(h) ==
  /\ At(h, "u_redeem")
  /\ \/ \E t \in Tokens :
          /\ TicketToSession(call[h].ticket, t)
          /\ call' = [call EXCEPT ![h].at = "u_read", ![h].token = t]
     \/ TicketRefused(call[h].ticket) /\ Goto(h, "u_read")
  /\ UNCHANGED <<pinStored, pinSerial, granted, vouched, guesses>>

\* RedeemUnlockTicket puts the session in the table before the PIN is looked at.
UnlockRedeem(h) ==
  /\ At(h, "u_redeem")
  /\ \/ \E t \in Tokens :
          /\ TicketToSession(call[h].ticket, t)
          /\ call' = [call EXCEPT ![h].at = "u_read", ![h].token = t]
     \/ (TicketRefused(call[h].ticket) \/ TicketToNothing(call[h].ticket)) /\ Return(h)
  /\ UNCHANGED <<pinStored, pinSerial, granted, vouched, guesses>>

\* GetPINHash, and pinhash.Verify on what it returned.
UnlockRead(h) ==
  /\ At(h, "u_read")
  /\ call' = [call EXCEPT ![h].serial = pinSerial, ![h].read = pinStored,
                          ![h].at = IF pinStored = None        THEN "u_revoke"
                                     ELSE IF pinStored = call[h].pin THEN "u_grant"
                                     ELSE "u_record"]
  /\ UNCHANGED <<authVars, pinStored, pinSerial, granted, vouched, guesses>>

RecordGuess ==
  /\ RecordPINFailure
  /\ guesses' = IF RateLimited THEN guesses + 1 ELSE 1

UnlockRecord(h) ==
  /\ At(h, "u_record")
  /\ RecordGuess
  /\ Goto(h, "u_revoke")
  /\ UNCHANGED <<pinStored, pinSerial, granted, vouched>>

\* Mutant: the session is left in the table after a wrong PIN.
UnlockRevokeForgotten(h) ==
  /\ At(h, "u_revoke")
  /\ Return(h)
  /\ UNCHANGED <<authVars, pinStored, pinSerial, granted, vouched, guesses>>

\* The session redeemed for a wrong PIN is taken back.
UnlockRevoke(h) ==
  /\ At(h, "u_revoke")
  /\ RevokeSession(call[h].token)
  /\ Return(h)
  /\ UNCHANGED <<pinStored, pinSerial, granted, vouched, guesses>>

\* ResetPINFailures and the reply that carries the token.
UnlockGrant(h) ==
  /\ At(h, "u_grant")
  /\ ResetPINFailures
  /\ guesses' = 0
  /\ Grant(call[h].token, call[h].serial)
  /\ Return(h)
  /\ UNCHANGED <<pinStored, pinSerial>>

UnlockStep(h) ==
  \/ UnlockRedeem(h) \/ UnlockRead(h) \/ UnlockRecord(h)
  \/ UnlockRevoke(h) \/ UnlockGrant(h)

-----------------------------------------------------------------------------
\* SetPIN(current PIN, new PIN), behind the interceptor.

\* The token is valid when the call arrives; nothing looks at it again.
SetPINCall(h, t, p, q) ==
  /\ At(h, "idle")
  /\ t \in granted
  /\ ValidToken(t)
  /\ call' = [call EXCEPT ![h] = [Idle EXCEPT !.at = "s_read", !.token = t,
                                              !.pin = p, !.newPin = q]]
  /\ UNCHANGED <<authVars, pinStored, pinSerial, granted, vouched, guesses>>

\* GetPINHash: the current PIN is only asked for when one is stored now.
SetPINRead(h) ==
  /\ At(h, "s_read")
  /\ call' = [call EXCEPT ![h].read = pinStored, ![h].serial = pinSerial,
                          ![h].at = IF pinStored = None THEN "s_store" ELSE "s_check"]
  /\ UNCHANGED <<authVars, pinStored, pinSerial, granted, vouched, guesses>>

\* Mutant: SetPIN verifies the current PIN without the rate limit.
SetPINCheckUnlimited(h) ==
  /\ At(h, "s_check")
  /\ Goto(h, IF call[h].pin = call[h].read THEN "s_reset" ELSE "s_record")
  /\ UNCHANGED <<authVars, pinStored, pinSerial, granted, vouched, guesses>>

\* Mutant: a wrong current PIN is not refused.
SetPINCheckAnyPIN(h) ==
  /\ At(h, "s_check")
  /\ IF RateLimited THEN Return(h) ELSE Goto(h, "s_reset")
  /\ UNCHANGED <<authVars, pinStored, pinSerial, granted, vouched, guesses>>

\* CheckPINRateLimit, then pinhash.Verify against the hash read before.
SetPINCheck(h) ==
  /\ At(h, "s_check")
  /\ IF RateLimited
       THEN Return(h)
       ELSE Goto(h, IF call[h].pin = call[h].read THEN "s_reset" ELSE "s_record")
  /\ UNCHANGED <<authVars, pinStored, pinSerial, granted, vouched, guesses>>

SetPINRecord(h) ==
  /\ At(h, "s_record")
  /\ RecordGuess
  /\ Return(h)
  /\ UNCHANGED <<pinStored, pinSerial, granted, vouched>>

\* Mutant: the handler clears the counter itself and leaves the lock.
SetPINResetCounter(h) ==
  /\ At(h, "s_reset")
  /\ pinFailures' = 0
  /\ UNCHANGED <<now, nonces, sessions, unlockTickets, pinConfigured,
                 pinLockedUntil, histVars>>
  /\ guesses' = 0
  /\ Goto(h, "s_store")
  /\ UNCHANGED <<pinStored, pinSerial, granted, vouched>>

SetPINReset(h) ==
  /\ At(h, "s_reset")
  /\ ResetPINFailures
  /\ guesses' = 0
  /\ Goto(h, "s_store")
  /\ UNCHANGED <<pinStored, pinSerial, granted, vouched>>

\* StorePINHash: one transaction, durable when it commits.
SetPINStore(h) ==
  /\ At(h, "s_store")
  /\ pinStored' = call[h].newPin
  /\ pinSerial' = pinSerial + 1
  /\ Goto(h, "s_configure")
  /\ UNCHANGED <<authVars, granted, vouched, guesses>>

\* Hash or StorePINHash fails: Internal, nothing stored.
SetPINAbort(h) ==
  /\ At(h, "s_store")
  /\ Return(h)
  /\ UNCHANGED <<authVars, pinStored, pinSerial, granted, vouched, guesses>>

\* Mutant: SetPIN ends without InvalidateAllSessions.
SetPINConfigureOnly(h) ==
  /\ At(h, "s_configure")
  /\ SetPINConfigured(TRUE)
  /\ Return(h)
  /\ UNCHANGED <<pinStored, pinSerial, granted, vouched, guesses>>

SetPINConfigure(h) ==
  /\ At(h, "s_configure")
  /\ SetPINConfigured(TRUE)
  /\ Goto(h, "s_invalidate")
  /\ UNCHANGED <<pinStored, pinSerial, granted, vouched, guesses>>

SetPINInvalidate(h) ==
  /\ At(h, "s_invalidate")
  /\ InvalidateAllSessions
  /\ Return(h)
  /\ UNCHANGED <<pinStored, pinSerial, granted, vouched, guesses>>

SetPINStep(h) ==
  \/ SetPINRead(h) \/ SetPINCheck(h) \/ SetPINRecord(h) \/ SetPINReset(h)
  \/ SetPINStore(h) \/ SetPINAbort(h) \/ SetPINConfigure(h) \/ SetPINInvalidate(h)

-----------------------------------------------------------------------------
\* Mutant: NewServer does not ask the store for the PIN.
RestartWithoutPIN ==
  /\ NewAuthManager(FALSE)
  /\ call' = [h \in Handlers |-> Idle]
  /\ guesses' = 0
  /\ UNCHANGED <<pinStored, pinSerial, granted, vouched>>

\* The process stops at any point and starts again: only the store survives.
\* NewServer asks it whether a PIN is configured.
Restart ==
  /\ NewAuthManager(pinStored # None)
  /\ call' = [h \in Handlers |-> Idle]
  /\ guesses' = 0
  /\ UNCHANGED <<pinStored, pinSerial, granted, vouched>>

Clock == Tick /\ UNCHANGED serverVars

Init ==
  /\ AuthInit
  /\ pinStored \in PINs \cup {None}
  /\ pinConfigured = (pinStored # None)
  /\ pinSerial = IF pinStored = None THEN 0 ELSE 1
  /\ call = [h \in Handlers |-> Idle]
  /\ granted = {}
  /\ vouched = [t \in Tokens |-> 0]
  /\ guesses = 0

Requests ==
  \/ \E n \in Nonces : Authenticate(n) \/ VerifyChallenge(n)
  \/ \E t \in Tokens : CheckToken(t)
  \/ \E h \in Handlers, p \in PINs :
       \/ \E k \in Tickets : UnlockCall(h, k, p)
       \/ \E t \in Tokens, q \in PINs : SetPINCall(h, t, p, q)

HandlerStep(h) == UnlockStep(h) \/ SetPINStep(h)

Next ==
  \/ Requests
  \/ \E h \in Handlers : HandlerStep(h)
  \/ Sweeper
  \/ Restart
  \/ Clock

\* A goroutine that has been started keeps being scheduled.
Fairness == \A h \in Handlers : WF_vars(HandlerStep(h))

Spec == Init /\ [][Next]_vars /\ Fairness

-----------------------------------------------------------------------------
\* Properties.

\* A SetPIN has stored its PIN and has not yet invalidated the sessions.
ChangingPIN == \E h \in Handlers : call[h].at \in {"s_configure", "s_invalidate"}

\* Except while a SetPIN is between its store and its invalidation, every
\* session a client can use was given for the PIN stored now (or, with no PIN
\* stored, for none): no interleaving of Unlock, VerifyChallenge and SetPIN
\* lets a session of an older PIN through.
SessionsVouched ==
  ~ChangingPIN => \A t \in granted \cap DOMAIN sessions : vouched[t] = pinSerial

\* Every session in the table was handed to a client or belongs to an Unlock
\* still in flight: a wrong PIN, or a ticket without a PIN, leaves none behind.
NoOrphanSessions ==
  \A t \in DOMAIN sessions :
    t \in granted \/ \E h \in Handlers : Redeeming(h) /\ call[h].token = t

\* A session whose PIN is still to be verified is known to one Unlock alone:
\* no other call holds its token and no client has been given it.
LimboTokens ==
  /\ granted \subseteq issued
  /\ \A h \in Handlers : Redeeming(h) => call[h].token \in issued \ granted
  /\ \A h, g \in Handlers :
       Redeeming(h) /\ Redeeming(g) /\ call[h].token = call[g].token => h = g

\* The flag VerifyNonce goes by agrees with the store: never set without a PIN,
\* and clear with one only while the SetPIN that stored it is about to set it.
PinGate ==
  /\ pinStored = None <=> pinSerial = 0
  /\ pinConfigured => pinStored # None
  /\ pinStored # None /\ ~pinConfigured => \E h \in Handlers : At(h, "s_configure")
  /\ ChangingPIN => pinStored # None

\* Outside that window, an Unlock about to be granted has verified its PIN
\* against the record stored now, or its session is gone already: this is what
\* redeeming the ticket before reading the hash is for.
GrantsVouched ==
  ~ChangingPIN =>
    \A h \in Handlers :
      At(h, "u_grant") /\ call[h].token \in DOMAIN sessions => call[h].serial = pinSerial

\* While the lock holds, the wrong PINs recorded under it and the calls that
\* had already passed CheckPINRateLimit are at most the calls in flight when it
\* began: the lock can be outrun by concurrency, never by repetition.
PastRateLimit ==
  {h \in Handlers : call[h].at \in {"u_redeem", "u_read", "u_record", "s_record"}}
GuessesBounded ==
  RateLimited => guesses + Cardinality(PastRateLimit) <= Cardinality(Handlers)

\* A stored PIN is replaced by a request that supplied it, or by one that read
\* the record before another SetPIN replaced it.
PINChangeChecked ==
  [][\A h \in Handlers :
       pinSerial' # pinSerial /\ At(h, "s_store") /\ ~(At(h, "s_store"))' =>
         \/ pinStored \in {None, call[h].pin}
         \/ call[h].serial # pinSerial]_vars

\* server.go:302 without the last case: a stored PIN is only replaced by a
\* request that supplied it.
PINChangeAuthorised ==
  [][\A h \in Handlers :
       pinSerial' # pinSerial /\ At(h, "s_store") /\ ~(At(h, "s_store"))' =>
         pinStored \in {None, call[h].pin}]_vars

\* Sessions given for an older PIN do not stay: the SetPIN that replaced the
\* PIN invalidates them, or a restart does.
StaleSessionsEnd ==
  \A t \in Tokens :
    t \in granted \cap DOMAIN sessions /\ vouched[t] # pinSerial
      ~> t \notin DOMAIN sessions
=============================================================================
