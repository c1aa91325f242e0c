------------------------- MODULE ClientSessionProofs -------------------------
(***************************************************************************)
(* A client's command with its session file keeps to the server's rules,   *)
(* and what it can rely on, for any number of other callers, identifiers   *)
(* and PINs.                                                               *)
(***************************************************************************)
EXTENDS ClientSession, SekeveServerProofs

\* The command waits for a call that a handler has, not for one a restart ended.
Served == Stage("wait") /\ flow.slot \in Handlers

\* The call a command waits for is at work on the command's ticket.
CallServed ==
  Served => call[flow.slot].at \in UnlockLabels /\ call[flow.slot].ticket = flow.ticket

\* That call has redeemed the ticket.
Checking == Served /\ Redeeming(flow.slot)

\* The command's locals, with the challenge, the ticket and the call they stand for.
LocalsOK ==
  /\ flow \in Flow
  /\ flow.at \in {"prompt", "wait", "reauth", "reverify"} => flow.ticket \in Tickets
  /\ flow.at \in {"verify", "reverify"} => flow.nonce \in Nonces \cap issued

\* The session file, the token in use and the history.
RestOK ==
  /\ cache \in [token : Tokens \cup {None}, expiresAt : Nat]
  /\ token \in Tokens \cup {None}
  /\ wrong \in Nat
  /\ mislaid \subseteq granted

FlowOK == LocalsOK /\ RestOK

-----------------------------------------------------------------------------
\* The command's locals.

\* Parts of the locals a step leaves alone.
Kept(fields) == \A x \in fields : flow'[x] = flow[x]

LEMMA Entered ==
  ASSUME flow \in Flow, NEW s \in Stages, Enter(s)
  PROVE  /\ flow' \in Flow /\ flow'.at = s
         /\ Kept({"nonce", "ticket", "slot", "attempts", "prompts", "expires"})
BY DEF Flow, Enter, Kept

LEMMA Challenged ==
  ASSUME flow \in Flow, NEW n \in Nonces, NEW s \in Stages,
         flow' = [flow EXCEPT !.at = s, !.nonce = n]
  PROVE  /\ flow' \in Flow /\ flow'.at = s /\ flow'.nonce = n
         /\ Kept({"ticket", "slot", "attempts", "prompts", "expires"})
BY DEF Flow, Kept

\* The locals, one by one.
Locals(a, n, k, h, c, p, e) ==
  [at |-> a, nonce |-> n, ticket |-> k, slot |-> h, attempts |-> c, prompts |-> p, expires |-> e]

LEMMA FlowParts ==
  ASSUME flow \in Flow
  PROVE  /\ flow.at \in Stages /\ flow.nonce \in Nonces \cup {None}
         /\ flow.ticket \in Tickets \cup {None} /\ flow.slot \in Handlers \cup {None}
         /\ flow.attempts \in Nat /\ flow.attempts + 1 \in Nat
         /\ flow.prompts \in Nat /\ flow.prompts + 1 \in Nat /\ flow.expires \in Nat
BY DEF Flow

LEMMA Prompted ==
  ASSUME flow \in Flow, NEW k \in Tickets,
         \/ flow' = [flow EXCEPT !.at = "prompt", !.ticket = k, !.attempts = 0, !.prompts = 0]
         \/ NextPrompt([flow EXCEPT !.ticket = k, !.attempts = 0])
  PROVE  flow' \in Flow /\ flow'.at = "prompt" /\ flow'.ticket = k
<1>1. PICK p \in Nat :
        flow' = Locals("prompt", flow.nonce, k, flow.slot, 0, p, flow.expires)
  <2>1. CASE flow' = [flow EXCEPT !.at = "prompt", !.ticket = k, !.attempts = 0, !.prompts = 0]
    <3>1. flow' = Locals("prompt", flow.nonce, k, flow.slot, 0, 0, flow.expires)
      BY <2>1 DEF Flow, Locals
    <3> QED
      BY <3>1
  <2>2. CASE NextPrompt([flow EXCEPT !.ticket = k, !.attempts = 0])
    <3>1. flow' = Locals("prompt", flow.nonce, k, flow.slot, 0, flow.prompts + 1, flow.expires)
      BY <2>2 DEF NextPrompt, Flow, Locals
    <3> QED
      BY <3>1, FlowParts
  <2> QED
    BY <2>1, <2>2
<1>2. "prompt" \in Stages /\ k \in Tickets \cup {None} /\ 0 \in Nat
  BY DEF Stages
<1> QED
  BY <1>1, <1>2, FlowParts DEF Locals, Flow

LEMMA PromptedAgain ==
  ASSUME flow \in Flow,
         \/ NextPrompt([flow EXCEPT !.attempts = @ + 1])
         \/ NextPrompt(flow)
  PROVE  flow' \in Flow /\ flow'.at = "prompt" /\ Kept({"nonce", "ticket"})
<1>1. PICK c \in Nat :
        flow' = Locals("prompt", flow.nonce, flow.ticket, flow.slot, c, flow.prompts + 1,
                       flow.expires)
  <2>1. CASE NextPrompt([flow EXCEPT !.attempts = @ + 1])
    <3>1. flow' = Locals("prompt", flow.nonce, flow.ticket, flow.slot, flow.attempts + 1,
                         flow.prompts + 1, flow.expires)
      BY <2>1 DEF NextPrompt, Flow, Locals
    <3> QED
      BY <3>1, FlowParts
  <2>2. CASE NextPrompt(flow)
    <3>1. flow' = Locals("prompt", flow.nonce, flow.ticket, flow.slot, flow.attempts,
                         flow.prompts + 1, flow.expires)
      BY <2>2 DEF NextPrompt, Flow, Locals
    <3> QED
      BY <3>1, FlowParts
  <2> QED
    BY <2>1, <2>2
<1>2. "prompt" \in Stages
  BY DEF Stages
<1>3. flow' \in Flow /\ flow'.at = "prompt" /\ flow'.nonce = flow.nonce /\ flow'.ticket = flow.ticket
  BY <1>1, <1>2, FlowParts DEF Locals, Flow
<1> QED
  BY <1>3 DEF Kept

LEMMA Submitted ==
  ASSUME flow \in Flow, NEW h \in Handlers,
         flow' = [flow EXCEPT !.at = "wait", !.slot = h, !.attempts = @ + 1]
  PROVE  flow' \in Flow /\ flow'.at = "wait" /\ flow'.slot = h /\ Kept({"nonce", "ticket"})
<1>1. flow' = Locals("wait", flow.nonce, flow.ticket, h, flow.attempts + 1, flow.prompts,
                     flow.expires)
  BY DEF Flow, Locals
<1>2. "wait" \in Stages /\ h \in Handlers \cup {None}
  BY DEF Stages
<1>3. /\ flow' \in Flow /\ flow'.at = "wait" /\ flow'.slot = h
      /\ flow'.nonce = flow.nonce /\ flow'.ticket = flow.ticket
  BY <1>1, <1>2, FlowParts DEF Locals, Flow
<1> QED
  BY <1>3 DEF Kept

LEMMA Expiring ==
  ASSUME flow \in Flow, NEW e \in Nat, flow' = [flow EXCEPT !.expires = e]
  PROVE  /\ flow' \in Flow /\ flow'.expires = e
         /\ Kept({"at", "nonce", "ticket", "slot", "attempts", "prompts"})
BY DEF Flow, Kept

LEMMA HungUp ==
  ASSUME flow \in Flow, flow' = [flow EXCEPT !.slot = None]
  PROVE  /\ flow' \in Flow /\ flow'.slot = None
         /\ Kept({"at", "nonce", "ticket", "attempts", "prompts", "expires"})
BY DEF Flow, Kept

LEMMA Started == Start \in Flow /\ Start.at = "start"
BY DEF Start, Flow, Stages

-----------------------------------------------------------------------------
\* Refinement: what the command and its user do is what the server's callers may do.

LEMMA ClientImplements ==
  ASSUME ServerTypeOK, CredentialsSpent, FlowOK, [ClientNext]_allVars
  PROVE  [Next]_vars
<1>1. CASE UseCachedSession \/ NoCachedSession \/ SubmitTooSoon \/ PromptEnds \/ NextCommand
             \/ ClearSession \/ CallLost \/ UNCHANGED allVars
  BY <1>1, Zenon DEF UseCachedSession, NoCachedSession, SubmitTooSoon, PromptEnds, NextCommand,
     ClearSession, CallLost, allVars
<1>2. CASE RequestChallenge
  BY <1>2, Zenon DEF RequestChallenge, Next, Requests
<1>3. ASSUME NEW n \in Nonces \cap issued,
             \/ \E k \in Tickets : VerifyToTicket(n, k)
             \/ \E t \in Tokens  : VerifyToSession(n, t)
             \/ VerifyFails(n)
      PROVE  Next
  BY <1>3, Zenon DEF VerifyChallenge, Next, Requests
<1>4. CASE LoggedIn \/ PINRequired \/ TicketRenewed \/ AuthenticationFails
  <2>1. flow.at \in {"verify", "reverify"}
    BY <1>4, Zenon DEF LoggedIn, PINRequired, TicketRenewed, AuthenticationFails, Stage
  <2>2. flow.nonce \in Nonces \cap issued
    BY <2>1 DEF FlowOK, LocalsOK
  <2>3. \/ \E k \in Tickets : VerifyToTicket(flow.nonce, k)
        \/ \E t \in Tokens  : VerifyToSession(flow.nonce, t)
        \/ VerifyFails(flow.nonce)
    BY <1>4, Zenon DEF LoggedIn, PINRequired, TicketRenewed, AuthenticationFails
  <2> QED
    BY <1>3, <2>2, <2>3
<1>5. CASE SubmitPIN
  <2>1. flow.ticket \in Tickets
    BY <1>5 DEF SubmitPIN, PromptOpen, Stage, FlowOK, LocalsOK
  <2> QED
    BY <1>5, <2>1, Zenon DEF SubmitPIN, Next, Requests
<1>6. CASE UnlockProceeds \/ TicketNotAccepted \/ PINNotAccepted \/ Unlocked
  <2>1. \E h \in Handlers : UnlockStep(h)
    BY <1>6, Zenon DEF UnlockProceeds, TicketNotAccepted, PINNotAccepted, Unlocked, UnlockStep
  <2> QED
    BY <2>1, Zenon DEF HandlerStep, Next
<1>7. CASE UseToken
  <2>1. token \in Tokens /\ CheckToken(token)
    BY <1>7 DEF UseToken, CheckToken, ServerTypeOK
  <2> QED
    BY <2>1, Zenon DEF Next, Requests
<1>8. CASE OtherCalls
  BY <1>8, Zenon DEF OtherCalls, Next, Requests
<1>9. CASE ServerRestarts \/ TimePasses
  BY <1>9, Zenon DEF ServerRestarts, TimePasses, Next
<1> QED
  BY <1>1, <1>2, <1>4, <1>5, <1>6, <1>7, <1>8, <1>9 DEF ClientNext

-----------------------------------------------------------------------------
\* What a step of the server does to the sessions and tickets there are.

\* No session gets a new expiry: its key was never issued before.
LEMMA SessionsKept ==
  ASSUME CredentialsSpent, [AuthNext]_authVars
  PROVE  \A t \in issued \cap DOMAIN sessions' : t \in DOMAIN sessions /\ sessions'[t] = sessions[t]
<1> DEFINE Expiries == \A t \in issued \cap DOMAIN sessions' :
                         t \in DOMAIN sessions /\ sessions'[t] = sessions[t]
<1> SUFFICES Expiries
  OBVIOUS
<1>1. \A m : \A t \in DOMAIN Swept(m) : t \in DOMAIN m /\ Swept(m)[t] = m[t]
  BY DEF Swept, Restrict
<1>2. \A m, k : \A t \in DOMAIN Without(m, k) : t \in DOMAIN m /\ Without(m, k)[t] = m[t]
  BY DEF Without, Restrict
<1>3. CASE sessions' = sessions
  BY <1>3
<1>4. CASE sessions' = Swept(sessions)
  BY <1>1, <1>4, Zenon
<1>5. ASSUME NEW k, sessions' = Without(sessions, k) PROVE Expiries
  BY <1>2, <1>5, Zenon
<1>6. CASE sessions' = Empty
  BY <1>6 DEF Empty
<1>7. ASSUME NEW t, NEW from, AddSession(t, from) PROVE Expiries
  <2>1. t \notin issued /\ sessions' = With(Swept(sessions), t, now + SessionTTL)
    BY <1>7 DEF AddSession
  <2>2. \A m, v, x : x \in DOMAIN With(m, t, v) /\ x # t => x \in DOMAIN m /\ With(m, t, v)[x] = m[x]
    BY DEF With
  <2>3. SUFFICES ASSUME NEW x \in issued \cap DOMAIN sessions'
                 PROVE  x \in DOMAIN sessions /\ sessions'[x] = sessions[x]
    OBVIOUS
  <2>4. x \in DOMAIN With(Swept(sessions), t, now + SessionTTL) /\ x # t
    BY <2>1
  <2>5. x \in DOMAIN Swept(sessions)
    BY <2>2, <2>4, Zenon
  <2>6. With(Swept(sessions), t, now + SessionTTL)[x] = Swept(sessions)[x]
    BY <2>2, <2>4, Zenon
  <2> QED
    BY <1>1, <2>1, <2>5, <2>6, Zenon
<1> HIDE DEF Expiries
<1>8. CASE ChallengeNext
  <2>1. sessions' = sessions \/ sessions' = Swept(sessions) \/ \E t, from : AddSession(t, from)
    BY <1>8, Zenon DEF ChallengeNext, GenerateChallenge, NonceRefused, NonceToNothing,
       NonceToTicket, NonceToSession
  <2> QED
    BY <1>3, <1>4, <1>7, <2>1
<1>9. CASE TicketNext
  <2>1. sessions' = sessions \/ sessions' = Swept(sessions) \/ \E t, from : AddSession(t, from)
    BY <1>9, Zenon DEF TicketNext, TicketRefused, TicketToNothing, TicketToSession
  <2> QED
    BY <1>3, <1>4, <1>7, <2>1
<1>10. CASE SessionNext
  <2>1. \/ sessions' = sessions \/ sessions' = Swept(sessions) \/ sessions' = Empty
        \/ \E k : sessions' = Without(sessions, k)
    BY <1>10, Zenon DEF SessionNext, ValidateToken, RevokeSession, InvalidateAllSessions, SweepExpired
  <2> QED
    BY <1>3, <1>4, <1>5, <1>6, <2>1
<1>11. CASE PinNext \/ Tick \/ UNCHANGED authVars
  <2>1. sessions' = sessions \/ sessions' = Empty
    BY <1>11, Zenon DEF PinNext, SetPINConfigured, NewAuthManager, RecordPINFailure,
       ResetPINFailures, Tick, authVars
  <2> QED
    BY <1>3, <1>6, <2>1
<1> QED
  BY <1>8, <1>9, <1>10, <1>11 DEF AuthNext

\* The tickets that were issued and are no more.
Spent == {k \in Tickets \cap DOMAIN origin : k \notin DOMAIN unlockTickets}

\* Every ticket has an origin, and only finitely many have been issued.
TicketsOK == DOMAIN unlockTickets \subseteq DOMAIN origin /\ IsFiniteSet(issued)

\* A step issues no ticket, or one that nobody has seen.
TicketsFall ==
  /\ DOMAIN unlockTickets' \subseteq DOMAIN unlockTickets
  /\ DOMAIN origin \subseteq DOMAIN origin'
  /\ issued' = issued \/ \E x : issued' = issued \cup {x}

TicketIssued(k) ==
  /\ k \in Tickets \ issued
  /\ DOMAIN unlockTickets' \subseteq DOMAIN unlockTickets \cup {k}
  /\ DOMAIN origin' = DOMAIN origin \cup {k}
  /\ issued' = issued \cup {k}

LEMMA TicketsShape ==
  ASSUME [AuthNext]_authVars
  PROVE  TicketsFall \/ \E k \in Tickets : TicketIssued(k)
<1>1. ASSUME NEW t, NEW from, AddSession(t, from)
      PROVE  DOMAIN origin \subseteq DOMAIN origin' /\ issued' = issued \cup {t}
  <2>1. issued' = issued \cup {t} /\ origin' = With(origin, t, from)
    BY <1>1 DEF AddSession
  <2>2. DOMAIN origin' = DOMAIN origin \cup {t}
    BY <2>1, WithKeys, Zenon
  <2> QED
    BY <2>1, <2>2
<1>2. \A m, k : DOMAIN Swept(m) \subseteq DOMAIN m /\ DOMAIN Without(m, k) \subseteq DOMAIN m
  BY SweptKeys, WithoutKeys, Zenon
<1>3. CASE ChallengeNext
  <2> SUFFICES ASSUME NEW n \in Nonces,
                      \/ GenerateChallenge(n) \/ NonceRefused(n) \/ NonceToNothing(n)
                      \/ \E t \in Tokens : NonceToSession(n, t)
                      \/ \E k \in Tickets : NonceToTicket(n, k)
               PROVE  TicketsFall \/ \E k \in Tickets : TicketIssued(k)
    BY <1>3, Zenon DEF ChallengeNext
  <2>1. CASE GenerateChallenge(n) \/ NonceRefused(n) \/ NonceToNothing(n)
    BY <2>1, Zenon DEF GenerateChallenge, NonceRefused, NonceToNothing, histVars, TicketsFall
  <2>2. ASSUME NEW t \in Tokens, NonceToSession(n, t) PROVE TicketsFall
    BY <2>2, <1>1, Zenon DEF NonceToSession, TicketsFall
  <2>3. ASSUME NEW k \in Tickets, NonceToTicket(n, k) PROVE TicketIssued(k)
    <3>1. /\ k \in Tickets \ issued /\ issued' = issued \cup {k}
          /\ unlockTickets' = With(Swept(unlockTickets), k, now + NonceTTL)
          /\ origin' = With(origin, k, n)
      BY <2>3, Zenon DEF NonceToTicket
    <3>2. /\ DOMAIN unlockTickets' = DOMAIN Swept(unlockTickets) \cup {k}
          /\ DOMAIN origin' = DOMAIN origin \cup {k}
      BY <3>1, WithKeys, Zenon
    <3> QED
      BY <3>1, <3>2, <1>2, Zenon DEF TicketIssued
  <2> QED
    BY <2>1, <2>2, <2>3
<1>4. CASE TicketNext
  <2> SUFFICES ASSUME NEW k \in Tickets,
                      \/ TicketRefused(k) \/ TicketToNothing(k)
                      \/ \E t \in Tokens : TicketToSession(k, t)
               PROVE  TicketsFall
    BY <1>4, Zenon DEF TicketNext
  <2>1. CASE TicketRefused(k) \/ TicketToNothing(k)
    BY <2>1, <1>2, Zenon DEF TicketRefused, TicketToNothing, histVars, TicketsFall
  <2>2. ASSUME NEW t \in Tokens, TicketToSession(k, t) PROVE TicketsFall
    BY <2>2, <1>1, <1>2, Zenon DEF TicketToSession, TicketsFall
  <2> QED
    BY <2>1, <2>2
<1>5. CASE SessionNext
  BY <1>5, <1>2, Zenon DEF SessionNext, ValidateToken, RevokeSession, InvalidateAllSessions,
     SweepExpired, histVars, TicketsFall
<1>6. CASE PinNext \/ Tick \/ UNCHANGED authVars
  BY <1>6, EmptyKeys, Zenon DEF PinNext, SetPINConfigured, NewAuthManager, RecordPINFailure,
     ResetPINFailures, Tick, authVars, histVars, TicketsFall
<1> QED
  BY <1>3, <1>4, <1>5, <1>6 DEF AuthNext

LEMMA TicketsStep ==
  ASSUME CredentialsSpent, TicketsOK, [AuthNext]_authVars
  PROVE  TicketsOK' /\ Spent \subseteq Spent' /\ issued \subseteq issued'
<1>1. \A x : IsFiniteSet(issued \cup {x})
  BY FS_AddElement DEF TicketsOK
<1>2. CASE TicketsFall
  BY <1>1, <1>2 DEF TicketsFall, TicketsOK, Spent
<1>3. ASSUME NEW k \in Tickets, TicketIssued(k) PROVE TicketsOK' /\ Spent \subseteq Spent' /\ issued \subseteq issued'
  BY <1>1, <1>3 DEF TicketIssued, TicketsOK, Spent, CredentialsSpent
<1> QED
  BY <1>2, <1>3, TicketsShape

\* Counting the tickets spent.
LEMMA SpentCount ==
  ASSUME CredentialsSpent, TicketsOK
  PROVE  IsFiniteSet(Spent) /\ Cardinality(Spent) \in Nat
<1>1. Spent \in SUBSET issued
  BY DEF Spent, CredentialsSpent
<1> QED
  BY <1>1, FS_Subset, FS_CardinalityType DEF TicketsOK

-----------------------------------------------------------------------------
\* Types of the client.

LEMMA GrantedGrows ==
  ASSUME ServerTypeOK, [Next]_vars
  PROVE  granted \subseteq granted'
BY StepShape DEF QuietStep, ClientStep, HolderStep, ReleaseStep, ClearStep

\* A step of the server changes none of the client's variables by itself.
LEMMA LocalsElsewhere ==
  ASSUME LocalsOK, UNCHANGED flow, issued \subseteq issued'
  PROVE  LocalsOK'
BY DEF LocalsOK

LEMMA LocalsEnter ==
  ASSUME LocalsOK, issued \subseteq issued',
         NEW s \in Stages \ {"verify", "reverify", "prompt", "wait", "reauth"}, Enter(s)
  PROVE  LocalsOK'
BY Entered DEF LocalsOK

LEMMA LocalsStep ==
  ASSUME ServerTypeOK, LocalsOK, issued \subseteq issued', [ClientNext]_allVars
  PROVE  LocalsOK'
<1>0. flow \in Flow
  BY DEF LocalsOK
<1>1. CASE UseCachedSession \/ NoCachedSession \/ LoggedIn \/ AuthenticationFails \/ PromptEnds
             \/ Unlocked \/ UseToken \/ CallLost
  <2>1. \E s \in {"ready", "auth", "failed", "done", "denied"} : Enter(s)
    BY <1>1, Zenon DEF UseCachedSession, NoCachedSession, LoggedIn, AuthenticationFails,
       PromptEnds, Unlocked, UseToken, CallLost
  <2>2. {"ready", "auth", "failed", "done", "denied"}
          \subseteq Stages \ {"verify", "reverify", "prompt", "wait", "reauth"}
    BY DEF Stages
  <2> QED
    BY <2>1, <2>2, LocalsEnter
<1>2. CASE RequestChallenge
  <2>1. PICK n \in Nonces :
          /\ \/ Stage("auth")   /\ flow' = [flow EXCEPT !.at = "verify",   !.nonce = n]
             \/ Stage("reauth") /\ flow' = [flow EXCEPT !.at = "reverify", !.nonce = n]
          /\ Authenticate(n)
    BY <1>2, Zenon DEF RequestChallenge
  <2>2. n \in issued'
    BY <2>1 DEF Authenticate, GenerateChallenge
  <2>3. "verify" \in Stages /\ "reverify" \in Stages
    BY DEF Stages
  <2>4. CASE Stage("auth")   /\ flow' = [flow EXCEPT !.at = "verify",   !.nonce = n]
    BY <2>2, <2>3, <2>4, <1>0, Challenged DEF LocalsOK
  <2>5. CASE Stage("reauth")   /\ flow' = [flow EXCEPT !.at = "reverify",   !.nonce = n]
    BY <2>2, <2>3, <2>5, <1>0, Challenged DEF LocalsOK, Stage, Kept
  <2> QED
    BY <2>1, <2>4, <2>5
<1>3. CASE PINRequired \/ TicketRenewed
  <2>1. \E k \in Tickets :
           \/ flow' = [flow EXCEPT !.at = "prompt", !.ticket = k, !.attempts = 0, !.prompts = 0]
           \/ NextPrompt([flow EXCEPT !.ticket = k, !.attempts = 0])
    BY <1>3, Zenon DEF PINRequired, TicketRenewed
  <2>2. flow' \in Flow /\ flow'.at = "prompt" /\ flow'.ticket \in Tickets
    BY <2>1, <1>0, Prompted
  <2> QED
    BY <2>2 DEF LocalsOK
<1>4. CASE SubmitTooSoon
  <2>1. flow.ticket \in Tickets
    BY <1>4 DEF SubmitTooSoon, PromptOpen, Stage, LocalsOK
  <2>2. flow' \in Flow /\ flow'.at = "prompt" /\ Kept({"nonce", "ticket"})
    BY <1>0, <1>4, PromptedAgain DEF SubmitTooSoon
  <2> QED
    BY <2>1, <2>2 DEF LocalsOK, Kept
<1>5. CASE SubmitPIN
  <2>1. PICK h \in Handlers : flow' = [flow EXCEPT !.at = "wait", !.slot = h, !.attempts = @ + 1]
    BY <1>5, Zenon DEF SubmitPIN
  <2>2. flow' \in Flow /\ flow'.at = "wait" /\ flow'.slot = h /\ Kept({"nonce", "ticket"})
    BY <1>0, <2>1, Submitted
  <2>3. flow.ticket \in Tickets
    BY <1>5 DEF SubmitPIN, PromptOpen, Stage, LocalsOK
  <2> QED
    BY <2>2, <2>3 DEF LocalsOK, Kept
<1>6. CASE UnlockProceeds
  <2>1. flow.at = "wait" /\ (UNCHANGED flow \/ flow' = [flow EXCEPT !.expires = now + SessionTTL])
    BY <1>6, Zenon DEF UnlockProceeds, Waiting, Stage
  <2>2. now + SessionTTL \in Nat
    BY LimitsAssumption DEF ServerTypeOK, TypeOK
  <2>3. CASE flow' = [flow EXCEPT !.expires = now + SessionTTL]
    BY <2>1, <2>2, <2>3, <1>0, Expiring DEF LocalsOK, Kept
  <2> QED
    BY <2>1, <2>3, LocalsElsewhere
<1>7. CASE TicketNotAccepted
  <2>1. flow.ticket \in Tickets /\ Enter("reauth")
    BY <1>7, Zenon DEF TicketNotAccepted, Waiting, Stage, LocalsOK
  <2>2. "reauth" \in Stages
    BY DEF Stages
  <2> QED
    BY <2>1, <2>2, <1>0, Entered DEF LocalsOK, Kept
<1>8. CASE PINNotAccepted
  <2>1. flow.at = "wait" /\ (Enter("failed") \/ NextPrompt(flow))
    BY <1>8, Zenon DEF PINNotAccepted, Waiting, Stage
  <2>2. CASE Enter("failed")
    BY <2>2, LocalsEnter DEF Stages
  <2>3. CASE NextPrompt(flow)
    <3>1. flow' \in Flow /\ flow'.at = "prompt" /\ Kept({"nonce", "ticket"})
      BY <1>0, <2>3, PromptedAgain
    <3>2. flow.ticket \in Tickets
      BY <2>1 DEF LocalsOK
    <3> QED
      BY <3>1, <3>2 DEF LocalsOK, Kept
  <2> QED
    BY <2>1, <2>2, <2>3
<1>9. CASE NextCommand
  BY <1>9, Started DEF NextCommand, LocalsOK
<1>10. CASE ServerRestarts
  <2>1. UNCHANGED flow \/ flow' = [flow EXCEPT !.slot = None]
    BY <1>10 DEF ServerRestarts
  <2>2. CASE flow' = [flow EXCEPT !.slot = None]
    BY <2>2, <1>0, HungUp DEF LocalsOK, Kept
  <2> QED
    BY <2>1, <2>2, LocalsElsewhere
<1>11. CASE ClearSession \/ OtherCalls \/ TimePasses \/ UNCHANGED allVars
  <2>1. UNCHANGED flow
    BY <1>11, Zenon DEF ClearSession, OtherCalls, TimePasses, allVars, clientVars
  <2> QED
    BY <2>1, LocalsElsewhere
<1> QED
  BY <1>1, <1>2, <1>3, <1>4, <1>5, <1>6, <1>7, <1>8, <1>9, <1>10, <1>11 DEF ClientNext

\* The session file and the token come from the server; its history goes with them.
LEMMA RestStep ==
  ASSUME ServerTypeOK, LocalsOK, RestOK, granted \subseteq granted', [ClientNext]_allVars
  PROVE  RestOK'
<1>1. ASSUME UNCHANGED <<cache, token, mislaid>>, wrong' \in {wrong, 0, wrong + 1} PROVE RestOK'
  BY <1>1 DEF RestOK
<1>2. CASE NoCachedSession \/ RequestChallenge \/ TicketRenewed \/ AuthenticationFails
             \/ SubmitTooSoon \/ SubmitPIN \/ PromptEnds \/ UnlockProceeds \/ TicketNotAccepted
             \/ UseToken \/ ServerRestarts \/ CallLost \/ TimePasses \/ UNCHANGED allVars
  <2>1. UNCHANGED <<cache, token, mislaid, wrong>>
    BY <1>2, Zenon DEF NoCachedSession, RequestChallenge, TicketRenewed, AuthenticationFails,
       SubmitTooSoon, SubmitPIN, PromptEnds, UnlockProceeds, TicketNotAccepted, UseToken,
       ServerRestarts, CallLost, TimePasses, allVars, clientVars
  <2> QED
    BY <1>1, <2>1
<1>3. CASE PINRequired \/ PINNotAccepted
  <2>1. UNCHANGED <<cache, token, mislaid>> /\ wrong' \in {wrong, 0, wrong + 1}
    BY <1>3 DEF PINRequired, PINNotAccepted
  <2> QED
    BY <1>1, <2>1
<1>4. CASE UseCachedSession \/ NextCommand \/ ClearSession
  <2>1. UNCHANGED mislaid /\ wrong' \in {wrong, 0} /\ cache' \in {cache, NoCache}
        /\ token' \in {token, cache.token, None}
    BY <1>4 DEF UseCachedSession, NextCommand, ClearSession
  <2>2. NoCache \in [token : Tokens \cup {None}, expiresAt : Nat]
    BY DEF NoCache
  <2> QED
    BY <2>1, <2>2 DEF RestOK
<1>5. ASSUME NEW t \in Tokens, NEW e \in Nat, CacheSession(t, e), UNCHANGED <<wrong, mislaid>>
      PROVE  RestOK'
  BY <1>5 DEF CacheSession, RestOK
<1>6. CASE LoggedIn
  <2>1. now + SessionTTL \in Nat
    BY LimitsAssumption DEF ServerTypeOK, TypeOK
  <2> QED
    BY <1>5, <1>6, <2>1, Zenon DEF LoggedIn
<1>7. CASE Unlocked
  <2>1. PICK h \in Handlers : UnlockGrant(h) /\ CacheSession(call[h].token, flow.expires)
                              /\ UNCHANGED <<wrong, mislaid>>
    BY <1>7, Zenon DEF Unlocked
  <2>2. call[h].token \in Tokens
    BY <2>1 DEF ServerTypeOK, UnlockGrant, At, Redeeming
  <2>3. flow.expires \in Nat
    BY DEF LocalsOK, Flow
  <2> QED
    BY <1>5, <2>1, <2>2, <2>3
<1>8. CASE OtherCalls
  <2>1. UNCHANGED <<cache, token, wrong>> /\ mislaid' = mislaid \cup (granted' \ granted)
    BY <1>8 DEF OtherCalls
  <2> QED
    BY <2>1 DEF RestOK
<1> QED
  BY <1>2, <1>3, <1>4, <1>6, <1>7, <1>8 DEF ClientNext

-----------------------------------------------------------------------------
\* The call a command waits for.

LEMMA Unanswered ==
  ASSUME ServerTypeOK, NEW h \in Handlers,
         (UnlockRedeem(h) /\ Redeeming(h)') \/ UnlockRead(h) \/ UnlockRecord(h)
  PROVE  Redeeming(h)' /\ call'[h].ticket = call[h].ticket
<1>0. call \in [Handlers -> Call] /\ Idle.at = "idle"
  BY DEF ServerTypeOK, Idle
<1>1. CASE UnlockRedeem(h) /\ Redeeming(h)'
  <2>1. ~Return(h)
    BY <1>0, <1>1 DEF Return, Redeeming
  <2>2. PICK t \in Tokens : call' = [call EXCEPT ![h].at = "u_read", ![h].token = t]
    BY <1>1, <2>1, Zenon DEF UnlockRedeem
  <2> QED
    BY <1>0, <1>1, <2>2 DEF Call
<1>2. CASE UnlockRead(h)
  <2>1. call'[h].ticket = call[h].ticket
    BY <1>0, <1>2 DEF UnlockRead, Call
  <2> QED
    BY <1>2, <2>1, UnlockQuiet
<1>3. CASE UnlockRecord(h)
  <2>1. call'[h].ticket = call[h].ticket
    BY <1>0, <1>3 DEF UnlockRecord, Goto, Call
  <2> QED
    BY <1>3, <2>1, UnlockQuiet
<1> QED
  BY <1>1, <1>2, <1>3

LEMMA Called ==
  ASSUME ServerTypeOK, NEW h \in Handlers, NEW k, NEW p, UnlockCall(h, k, p)
  PROVE  /\ call'[h].at = "u_redeem" /\ call'[h].ticket = k
         /\ call[h].at = "idle"
BY DEF ServerTypeOK, UnlockCall, At, Idle

\* Who else works on calls: not the one this command waits for, which is a handler's.
LEMMA OthersElsewhere ==
  ASSUME ServerTypeOK, LocalsOK, CallServed, OtherCalls, Served
  PROVE  UNCHANGED flow /\ call'[flow.slot] = call[flow.slot]
<1>1. UNCHANGED flow /\ flow.slot \in Handlers /\ call[flow.slot].at \in UnlockLabels
  BY DEF OtherCalls, Served, CallServed
<1>2. ASSUME NEW h \in Handlers, ~Waiting(h), HandlerStep(h)
      PROVE  call'[flow.slot] = call[flow.slot]
  BY <1>1, <1>2, OthersKept DEF Waiting, Served
<1>3. ASSUME NEW h \in Handlers, NEW t \in Tokens, NEW p \in PINs, NEW q \in PINs,
             SetPINCall(h, t, p, q)
      PROVE  call'[flow.slot] = call[flow.slot]
  <2>1. /\ call[h].at = "idle"
        /\ \A g \in Handlers \ {h} : call'[g] = call[g]
    BY <1>3, ArrivalQuiet, Zenon
  <2> QED
    BY <1>1, <2>1 DEF UnlockLabels
<1> QED
  BY <1>1, <1>2, <1>3, Zenon DEF OtherCalls

\* A step leaves the command without a call, or its call alone, or it is one of the steps
\* that begin a call and work on calls.
LEMMA WaitShape ==
  ASSUME LocalsOK, [ClientNext]_allVars
  PROVE  \/ ~Served'
         \/ UNCHANGED <<call, flow>>
         \/ SubmitPIN \/ UnlockProceeds
         \/ OtherCalls /\ Served
<1>0. flow \in Flow
  BY DEF LocalsOK
<1>1. flow'.at # "wait" => ~Served'
  BY DEF Served, Stage
<1>3. CASE UseCachedSession \/ NoCachedSession \/ LoggedIn \/ AuthenticationFails \/ PromptEnds
             \/ Unlocked \/ UseToken \/ TicketNotAccepted \/ CallLost
  <2>1. \E s \in {"ready", "auth", "failed", "done", "denied", "reauth"} : Enter(s)
    BY <1>3, Zenon DEF UseCachedSession, NoCachedSession, LoggedIn, AuthenticationFails,
       PromptEnds, Unlocked, UseToken, TicketNotAccepted, CallLost
  <2>2. {"ready", "auth", "failed", "done", "denied", "reauth"} \subseteq Stages \ {"wait"}
    BY DEF Stages
  <2> QED
    BY <1>0, <1>1, <2>1, <2>2, Entered
<1>4. CASE RequestChallenge
  <2>1. \E n \in Nonces, s \in {"verify", "reverify"} : flow' = [flow EXCEPT !.at = s, !.nonce = n]
    BY <1>4, Zenon DEF RequestChallenge
  <2>2. {"verify", "reverify"} \subseteq Stages \ {"wait"}
    BY DEF Stages
  <2> QED
    BY <1>0, <1>1, <2>1, <2>2, Challenged
<1>5. CASE PINRequired \/ TicketRenewed
  <2>1. \E k \in Tickets :
           \/ flow' = [flow EXCEPT !.at = "prompt", !.ticket = k, !.attempts = 0, !.prompts = 0]
           \/ NextPrompt([flow EXCEPT !.ticket = k, !.attempts = 0])
    BY <1>5, Zenon DEF PINRequired, TicketRenewed
  <2> QED
    BY <1>0, <1>1, <2>1, Prompted
<1>6. CASE SubmitTooSoon \/ PINNotAccepted
  <2>1. \/ NextPrompt([flow EXCEPT !.attempts = @ + 1])
        \/ NextPrompt(flow) \/ Enter("failed")
    BY <1>6, Zenon DEF SubmitTooSoon, PINNotAccepted
  <2>2. "failed" \in Stages
    BY DEF Stages
  <2> QED
    BY <1>0, <1>1, <2>1, <2>2, PromptedAgain, Entered
<1>9. CASE NextCommand
  BY <1>1, <1>9, Started DEF NextCommand
<1>10. CASE ServerRestarts
  <2>1. flow' = [flow EXCEPT !.slot = None] \/ (flow.at # "wait" /\ UNCHANGED flow)
    BY <1>10 DEF ServerRestarts, Stage
  <2> QED
    BY <1>0, <1>1, <2>1, HungUp, SlotsAssumption DEF Served
<1>11. CASE OtherCalls
  BY <1>11 DEF OtherCalls, Served, Stage
<1>12. CASE ClearSession \/ TimePasses \/ UNCHANGED allVars
  <2>1. UNCHANGED <<call, flow>>
    BY <1>12, Zenon DEF ClearSession, TimePasses, Sweeper, Clock, allVars, clientVars, vars, serverVars
  <2> QED
    BY <2>1
<1> QED
  BY <1>3, <1>4, <1>5, <1>6, <1>9, <1>10, <1>11, <1>12 DEF ClientNext

LEMMA WaitStep ==
  ASSUME ServerTypeOK, LocalsOK, CallServed, [ClientNext]_allVars
  PROVE  CallServed'
<1>0. flow \in Flow
  BY DEF LocalsOK
<1>1. CASE ~Served' \/ UNCHANGED <<call, flow>>
  BY <1>1 DEF CallServed, Served, Stage
<1>2. CASE SubmitPIN
  <2>1. PICK h \in Handlers : \E p \in PINs :
          /\ UnlockCall(h, flow.ticket, p)
          /\ flow' = [flow EXCEPT !.at = "wait", !.slot = h, !.attempts = @ + 1]
    BY <1>2, Zenon DEF SubmitPIN
  <2>2. flow'.slot = h /\ flow'.ticket = flow.ticket
    BY <1>0, <2>1, Submitted DEF Kept
  <2>3. call'[h].at = "u_redeem" /\ call'[h].ticket = flow.ticket
    BY <2>1, Called
  <2> QED
    BY <2>2, <2>3 DEF CallServed, UnlockLabels
<1>3. CASE UnlockProceeds
  <2>1. PICK h \in Handlers :
          /\ Waiting(h)
          /\ (UnlockRedeem(h) /\ Redeeming(h)') \/ UnlockRead(h) \/ UnlockRecord(h)
          /\ UNCHANGED flow \/ flow' = [flow EXCEPT !.expires = now + SessionTTL]
    BY <1>3, Zenon DEF UnlockProceeds
  <2>2. Redeeming(h)' /\ call'[h].ticket = call[h].ticket
    BY <2>1, Unanswered
  <2>3. now + SessionTTL \in Nat
    BY LimitsAssumption DEF ServerTypeOK, TypeOK
  <2>4. flow'.slot = flow.slot /\ flow'.ticket = flow.ticket
    BY <1>0, <2>1, <2>3, Expiring DEF Kept
  <2> QED
    BY <2>1, <2>2, <2>4 DEF CallServed, Served, Waiting, UnlockLabels, Redeeming
<1>4. CASE OtherCalls /\ Served
  BY <1>4, OthersElsewhere DEF CallServed, Served, Stage
<1> QED
  BY <1>1, <1>2, <1>3, <1>4, WaitShape

-----------------------------------------------------------------------------
\* When the session of the call a command waits for ends.

ExpiryKept ==
  Checking /\ call[flow.slot].token \in DOMAIN sessions =>
    flow.expires <= sessions[call[flow.slot].token]

\* The steps of the call the command waits for that do not answer it.
LEMMA Proceeds ==
  ASSUME ServerTypeOK, LocalsOK, UnlockProceeds
  PROVE  /\ Served /\ Served' /\ flow'.slot = flow.slot
         /\ UNCHANGED wrong
         /\ \/ \E t \in Tokens :
                 /\ ~Checking
                 /\ TicketToSession(call[flow.slot].ticket, t)
                 /\ call'[flow.slot].token = t /\ flow'.expires = now + SessionTTL
            \/ /\ Checking /\ UNCHANGED <<sessions, flow>>
               /\ call'[flow.slot].token = call[flow.slot].token
<1>0. flow \in Flow /\ call \in [Handlers -> Call] /\ now + SessionTTL \in Nat
  BY LimitsAssumption DEF LocalsOK, ServerTypeOK, TypeOK
<1>1. UNCHANGED wrong
  BY Zenon DEF UnlockProceeds
<1>2. PICK h \in Handlers :
        /\ Waiting(h)
        /\ \/ UnlockRedeem(h) /\ (Redeeming(h))' /\ flow' = [flow EXCEPT !.expires = now + SessionTTL]
           \/ (UnlockRead(h) \/ UnlockRecord(h)) /\ UNCHANGED flow
  BY Zenon DEF UnlockProceeds
<1>3. flow.at = "wait" /\ flow.slot = h /\ Served
  BY <1>2 DEF Waiting, Stage, Served
<1>4. CASE UnlockRedeem(h) /\ (Redeeming(h))' /\ flow' = [flow EXCEPT !.expires = now + SessionTTL]
  <2>1. Served' /\ flow'.slot = flow.slot /\ flow'.expires = now + SessionTTL
    BY <1>0, <1>3, <1>4, Expiring DEF Kept, Served, Stage
  <2>2. ~Return(h)
    BY <1>0, <1>4 DEF Return, Redeeming, Idle
  <2>3. PICK t \in Tokens : /\ TicketToSession(call[h].ticket, t)
                            /\ call' = [call EXCEPT ![h].at = "u_read", ![h].token = t]
    BY <1>4, <2>2, Zenon DEF UnlockRedeem
  <2>4. call'[h].token = t
    BY <1>0, <2>3 DEF Call
  <2>5. ~Checking
    BY <1>3, <1>4 DEF UnlockRedeem, At, Checking, Redeeming
  <2> QED
    BY <1>1, <1>3, <2>1, <2>3, <2>4, <2>5
<1>5. CASE (UnlockRead(h) \/ UnlockRecord(h)) /\ UNCHANGED flow
  BY <1>1, <1>3, <1>5, UnlockQuiet DEF Checking, Served, Stage
<1> QED
  BY <1>2, <1>4, <1>5

LEMMA ExpiryStep ==
  ASSUME ServerTypeOK, CredentialsSpent, LimboTokens, LocalsOK, CallServed, ExpiryKept,
         [AuthNext]_authVars, [ClientNext]_allVars
  PROVE  ExpiryKept'
<1>0. ASSUME Checking', call'[flow'.slot].token = call[flow.slot].token, Checking,
             flow'.expires = flow.expires
      PROVE  ExpiryKept'
  <2>1. call[flow.slot].token \in issued
    BY <1>0 DEF LimboTokens, Checking, Served
  <2> QED
    BY <1>0, <2>1, SessionsKept DEF ExpiryKept
<1>1. CASE ~Served'
  BY <1>1 DEF ExpiryKept, Checking
<1>2. CASE UNCHANGED <<call, flow>>
  BY <1>0, <1>2 DEF ExpiryKept, Checking, Served, Stage, Redeeming
<1>3. CASE SubmitPIN
  <2>1. PICK h \in Handlers : \E p \in PINs :
          /\ UnlockCall(h, flow.ticket, p)
          /\ flow' = [flow EXCEPT !.at = "wait", !.slot = h, !.attempts = @ + 1]
    BY <1>3, Zenon DEF SubmitPIN
  <2>2. flow'.slot = h
    BY <2>1, Submitted DEF LocalsOK
  <2>3. call'[h].at = "u_redeem"
    BY <2>1, Called
  <2> QED
    BY <2>2, <2>3 DEF ExpiryKept, Checking, Redeeming
<1>4. CASE UnlockProceeds
  <2>1. ASSUME NEW t \in Tokens, TicketToSession(call[flow.slot].ticket, t),
               call'[flow.slot].token = t, flow'.expires = now + SessionTTL
        PROVE  ExpiryKept'
    <3>1. sessions' = With(Swept(sessions), t, now + SessionTTL)
      BY <2>1, Zenon DEF TicketToSession, AddSession
    <3>2. sessions'[t] = now + SessionTTL
      BY <3>1 DEF With
    <3>3. flow'.slot = flow.slot /\ now + SessionTTL \in Nat
      BY <1>4, Proceeds, LimitsAssumption DEF ServerTypeOK, TypeOK
    <3> QED
      BY <2>1, <3>2, <3>3 DEF ExpiryKept
  <2>2. CASE /\ Checking /\ UNCHANGED <<sessions, flow>>
             /\ call'[flow.slot].token = call[flow.slot].token
    BY <2>2 DEF ExpiryKept
  <2> QED
    BY <1>4, <2>1, <2>2, Proceeds, Zenon
<1>5. CASE OtherCalls /\ Served
  BY <1>0, <1>5, OthersElsewhere DEF ExpiryKept, Checking, Served, Stage, Redeeming
<1> QED
  BY <1>1, <1>2, <1>3, <1>4, <1>5, WaitShape

-----------------------------------------------------------------------------
\* The session file.

\* A session granted to the command in the step, and written to the file with its end.
Obtained(t, expiresAt) ==
  /\ CacheSession(t, expiresAt)
  /\ t \notin granted /\ t \in granted' /\ UNCHANGED mislaid
  /\ t \in DOMAIN sessions' => expiresAt <= sessions'[t]

LEMMA ObtainedSteps ==
  ASSUME ServerTypeOK, CredentialsSpent, LimboTokens, LocalsOK, ExpiryKept, LoggedIn \/ Unlocked
  PROVE  \E t \in Tokens, e \in Nat : Obtained(t, e)
<1>0. now + SessionTTL \in Nat /\ granted \subseteq issued
  BY LimitsAssumption DEF ServerTypeOK, TypeOK, LimboTokens
<1>1. CASE LoggedIn
  <2>1. PICK t \in Tokens : /\ VerifyToSession(flow.nonce, t)
                            /\ CacheSession(t, now + SessionTTL)
                            /\ UNCHANGED mislaid
    BY <1>1, Zenon DEF LoggedIn
  <2>2. t \notin issued /\ sessions' = With(Swept(sessions), t, now + SessionTTL)
    BY <2>1, Zenon DEF VerifyToSession, NonceToSession, AddSession
  <2>3. granted' = granted \cup {t}
    BY <2>1 DEF VerifyToSession, Grant
  <2>4. sessions'[t] = now + SessionTTL
    BY <2>2 DEF With
  <2> QED
    BY <1>0, <2>1, <2>2, <2>3, <2>4 DEF Obtained
<1>2. CASE Unlocked
  <2>1. PICK h \in Handlers : /\ Waiting(h) /\ UnlockGrant(h)
                              /\ CacheSession(call[h].token, flow.expires)
                              /\ UNCHANGED mislaid
    BY <1>2, Zenon DEF Unlocked
  <2>2. call[h].at = "u_grant" /\ Grant(call[h].token, call[h].serial) /\ UNCHANGED sessions
    BY <2>1, GrantEffect
  <2>3. Redeeming(h) /\ Checking /\ flow.slot = h
    BY <2>1, <2>2 DEF Redeeming, Checking, Served, Waiting
  <2>4. call[h].token \in Tokens /\ call[h].token \notin granted /\ flow.expires \in Nat
    BY <2>3 DEF ServerTypeOK, LimboTokens, LocalsOK, Flow
  <2>5. call[h].token \in granted'
    BY <2>2 DEF Grant
  <2> QED
    BY <2>1, <2>2, <2>3, <2>4, <2>5 DEF Obtained, ExpiryKept
<1> QED
  BY <1>1, <1>2

\* Every other step keeps what the file holds, or drops it.
LEMMA FileShape ==
  ASSUME [ClientNext]_allVars
  PROVE  \/ LoggedIn \/ Unlocked
         \/ /\ cache' \in {cache, NoCache}
            /\ mislaid' \subseteq mislaid \cup (granted' \ granted)
<1>1. CASE \/ NoCachedSession \/ RequestChallenge \/ PINRequired \/ TicketRenewed
           \/ AuthenticationFails \/ SubmitTooSoon \/ SubmitPIN \/ PromptEnds \/ UnlockProceeds
           \/ TicketNotAccepted \/ PINNotAccepted \/ UseToken \/ ServerRestarts \/ CallLost \/ TimePasses
           \/ UNCHANGED allVars
  <2>1. UNCHANGED cache /\ UNCHANGED mislaid
    BY <1>1, Zenon DEF NoCachedSession, RequestChallenge, PINRequired, TicketRenewed,
       AuthenticationFails, SubmitTooSoon, SubmitPIN, PromptEnds, UnlockProceeds,
       TicketNotAccepted, PINNotAccepted, UseToken, ServerRestarts, CallLost, TimePasses,
       allVars, clientVars
  <2> QED
    BY <2>1
<1>2. CASE UseCachedSession \/ NextCommand \/ ClearSession
  BY <1>2 DEF UseCachedSession, NextCommand, ClearSession
<1>3. CASE OtherCalls
  BY <1>3 DEF OtherCalls
<1> QED
  BY <1>1, <1>2, <1>3 DEF ClientNext

LEMMA CacheStep ==
  ASSUME ServerTypeOK, CredentialsSpent, LimboTokens, FlowOK, ExpiryKept, CacheFaithful,
         granted \subseteq granted', [AuthNext]_authVars, [ClientNext]_allVars
  PROVE  CacheFaithful'
<1>0. granted \subseteq issued /\ mislaid \subseteq granted /\ None \notin Tokens
  BY NoneAssumption DEF LimboTokens, FlowOK, RestOK, Ids
<1>1. CASE LoggedIn \/ Unlocked
  <2>1. PICK t \in Tokens, e \in Nat : Obtained(t, e)
    BY <1>1, ObtainedSteps DEF FlowOK
  <2>2. cache'.token = t /\ cache'.expiresAt = e
    BY <2>1 DEF Obtained, CacheSession
  <2> QED
    BY <1>0, <2>1, <2>2 DEF Obtained, CacheFaithful
<1>2. CASE /\ cache' \in {cache, NoCache}
           /\ mislaid' \subseteq mislaid \cup (granted' \ granted)
  <2>2. ASSUME cache' = cache, cache.token # None PROVE CacheFaithful'
    <3>1. cache.token \in granted \ mislaid /\ cache.token \in issued
      BY <1>0, <2>2 DEF CacheFaithful
    <3>2. cache.token \in DOMAIN sessions' =>
            cache.token \in DOMAIN sessions /\ sessions'[cache.token] = sessions[cache.token]
      BY <3>1, SessionsKept
    <3> QED
      BY <1>2, <2>2, <3>1, <3>2 DEF CacheFaithful
  <2>3. NoCache.token = None
    BY DEF NoCache
  <2> QED
    BY <1>2, <2>2, <2>3 DEF CacheFaithful
<1> QED
  BY <1>1, <1>2, FileShape

-----------------------------------------------------------------------------
\* What the wrong PINs of a prompt cost.

\* A redeemed ticket that has not been answered yet is not counted as a wrong PIN.
WrongPINsPaid ==
  /\ wrong <= Cardinality(Spent)
  /\ Checking => wrong + 1 <= Cardinality(Spent)

LEMMA SpentGrows ==
  ASSUME CredentialsSpent, TicketsOK, TicketsOK', CredentialsSpent', Spent \subseteq Spent'
  PROVE  /\ Cardinality(Spent) \in Nat /\ Cardinality(Spent') \in Nat
         /\ Cardinality(Spent) <= Cardinality(Spent')
         /\ \A k \in Spent' \ Spent : Cardinality(Spent) + 1 <= Cardinality(Spent')
<1>1. IsFiniteSet(Spent) /\ IsFiniteSet(Spent')
  <2>1. Spent \in SUBSET issued /\ Spent' \in SUBSET issued'
    BY DEF Spent, CredentialsSpent
  <2> QED
    BY <2>1, FS_Subset DEF TicketsOK
<1>2. Cardinality(Spent) \in Nat /\ Cardinality(Spent') \in Nat
  BY <1>1, FS_CardinalityType
<1>3. Cardinality(Spent) <= Cardinality(Spent')
  BY <1>1, FS_Subset
<1>4. ASSUME NEW k \in Spent' \ Spent PROVE Cardinality(Spent) + 1 <= Cardinality(Spent')
  <2>1. Cardinality(Spent \cup {k}) = Cardinality(Spent) + 1
    BY <1>1, <1>4, FS_AddElement
  <2>2. Cardinality(Spent \cup {k}) <= Cardinality(Spent')
    BY <1>1, <1>4, FS_Subset
  <2> QED
    BY <2>1, <2>2
<1> QED
  BY <1>2, <1>3, <1>4

\* A ticket that a session came from is spent from then on.
LEMMA RedeemedSpent ==
  ASSUME TicketsOK, TicketsOK', NEW k \in Tickets, NEW t, TicketToSession(k, t)
  PROVE  k \in Spent' \ Spent
<1>1. /\ k \in DOMAIN unlockTickets /\ unlockTickets' = Without(unlockTickets, k)
      /\ origin' = With(origin, t, k)
  BY Zenon DEF TicketToSession, AddSession, Held
<1>2. k \notin DOMAIN unlockTickets' /\ DOMAIN origin \subseteq DOMAIN origin'
  <2>1. DOMAIN unlockTickets' = DOMAIN unlockTickets \ {k} /\ DOMAIN origin' = DOMAIN origin \cup {t}
    BY <1>1, WithoutKeys, WithKeys, Zenon
  <2> QED
    BY <2>1
<1> QED
  BY <1>1, <1>2 DEF Spent, TicketsOK

LEMMA CheckingBegins ==
  ASSUME ServerTypeOK, LocalsOK, CallServed, [ClientNext]_allVars, ~UnlockProceeds
  PROVE  Checking' => Checking
<1>1. CASE ~Served' \/ UNCHANGED <<call, flow>>
  BY <1>1 DEF Checking, Served, Stage, Redeeming
<1>2. CASE SubmitPIN
  <2>1. PICK h \in Handlers : \E p \in PINs :
          /\ UnlockCall(h, flow.ticket, p)
          /\ flow' = [flow EXCEPT !.at = "wait", !.slot = h, !.attempts = @ + 1]
    BY <1>2, Zenon DEF SubmitPIN
  <2>2. flow'.slot = h
    BY <2>1, Submitted DEF LocalsOK
  <2>3. call'[h].at = "u_redeem"
    BY <2>1, Called
  <2> QED
    BY <2>2, <2>3 DEF Checking, Redeeming
<1>3. CASE OtherCalls /\ Served
  BY <1>3, OthersElsewhere DEF Checking, Served, Redeeming, Stage
<1> QED
  BY <1>1, <1>2, <1>3, WaitShape

\* Where the count of wrong PINs changes.
LEMMA WrongShape ==
  ASSUME ServerTypeOK, LocalsOK, [ClientNext]_allVars
  PROVE  \/ UNCHANGED wrong
         \/ wrong' = 0 /\ flow'.at # "wait"
         \/ Checking /\ wrong' = wrong + 1 /\ flow'.at # "wait"
<1>0. flow \in Flow
  BY DEF LocalsOK
<1>1. CASE \/ UseCachedSession \/ NoCachedSession \/ RequestChallenge \/ LoggedIn \/ TicketRenewed
           \/ AuthenticationFails \/ SubmitTooSoon \/ SubmitPIN \/ PromptEnds \/ UnlockProceeds
           \/ TicketNotAccepted \/ Unlocked \/ UseToken \/ ClearSession \/ OtherCalls
           \/ ServerRestarts \/ CallLost \/ TimePasses \/ UNCHANGED allVars
  BY <1>1, Zenon DEF UseCachedSession, NoCachedSession, RequestChallenge, LoggedIn, TicketRenewed,
     AuthenticationFails, SubmitTooSoon, SubmitPIN, PromptEnds, UnlockProceeds,
     TicketNotAccepted, Unlocked, UseToken, ClearSession, OtherCalls, ServerRestarts, CallLost, TimePasses,
     allVars, clientVars
<1>2. CASE PINRequired
  <2>1. PICK k \in Tickets :
          /\ flow' = [flow EXCEPT !.at = "prompt", !.ticket = k, !.attempts = 0, !.prompts = 0]
          /\ wrong' = 0
    BY <1>2, Zenon DEF PINRequired
  <2> QED
    BY <1>0, <2>1, Prompted
<1>3. CASE PINNotAccepted
  <2>1. PICK h \in Handlers : /\ Waiting(h) /\ UnlockRevoke(h)
                              /\ wrong' = wrong \/ wrong' = wrong + 1
                              /\ Enter("failed") \/ NextPrompt(flow)
    BY <1>3, Zenon DEF PINNotAccepted
  <2>2. Checking
    BY <2>1, RevokeEffect DEF Checking, Served, Waiting
  <2>3. "failed" \in Stages
    BY DEF Stages
  <2>4. flow'.at # "wait"
    BY <1>0, <2>1, <2>3, Entered, PromptedAgain
  <2> QED
    BY <2>1, <2>2, <2>4
<1>4. CASE NextCommand
  BY <1>4, Started DEF NextCommand
<1> QED
  BY <1>1, <1>2, <1>3, <1>4 DEF ClientNext

LEMMA WrongStep ==
  ASSUME ServerTypeOK, CredentialsSpent, CredentialsSpent', TicketsOK, TicketsOK',
         Spent \subseteq Spent', FlowOK, CallServed, WrongPINsPaid, [ClientNext]_allVars
  PROVE  WrongPINsPaid'
<1>0. wrong \in Nat /\ LocalsOK
  BY DEF FlowOK, RestOK
<1>1. CASE UnlockProceeds
  <2>1. UNCHANGED wrong
    BY <1>0, <1>1, Proceeds
  <2>2. CASE Checking
    BY <1>0, <2>1, <2>2, SpentGrows DEF WrongPINsPaid
  <2>3. ASSUME NEW t \in Tokens, TicketToSession(call[flow.slot].ticket, t)
        PROVE  WrongPINsPaid'
    <3>1. Served /\ flow.ticket \in Tickets
      BY <1>0, <1>1, Proceeds DEF LocalsOK, Served, Stage
    <3>2. call[flow.slot].ticket \in Tickets
      BY <3>1 DEF CallServed
    <3>3. call[flow.slot].ticket \in Spent' \ Spent
      BY <2>3, <3>2, RedeemedSpent
    <3> QED
      BY <1>0, <2>1, <3>3, SpentGrows DEF WrongPINsPaid
  <2> QED
    BY <1>0, <1>1, <2>2, <2>3, Proceeds
<1>2. CASE ~UnlockProceeds
  <2>1. Checking' => Checking
    BY <1>0, <1>2, CheckingBegins
  <2>2. flow'.at # "wait" => ~Checking'
    BY DEF Checking, Served, Stage
  <2>3. Cardinality(Spent) \in Nat /\ Cardinality(Spent') \in Nat
        /\ Cardinality(Spent) <= Cardinality(Spent')
    BY SpentGrows
  <2> QED
    BY <1>0, <2>1, <2>2, <2>3, WrongShape DEF WrongPINsPaid
<1> QED
  BY <1>1, <1>2

-----------------------------------------------------------------------------
\* The invariant of the client and the server together.

ServerInv ==
  /\ ServerTypeOK /\ CredentialsSpent /\ TicketsOK /\ LimboTokens
  /\ PinGate /\ SessionsVouched /\ GrantsVouched

CommandInv ==
  /\ FlowOK /\ CallServed /\ ExpiryKept
  /\ CacheFaithful /\ WrongPINsPaid

LEMMA ClientStarts == ClientInit => ServerInv /\ CommandInv
<1> SUFFICES ASSUME ClientInit
             PROVE  ServerInv /\ CommandInv
  OBVIOUS
<1>1. ServerTypeOK
  <2>1. TypeOK
    BY EmptyType DEF ClientInit, Init, AuthInit, TypeOK
  <2> QED
    BY <2>1, IdleOK DEF ClientInit, Init, ServerTypeOK, CallOK, At, Redeeming
<1>2. CredentialsSpent /\ TicketsOK
  BY EmptyKeys, FS_EmptySet DEF ClientInit, Init, AuthInit, CredentialsSpent, TicketsOK
<1>3. LimboTokens /\ SessionsVouched /\ GrantsVouched
  BY EmptyKeys DEF ClientInit, Init, AuthInit, LimboTokens, SessionsVouched, GrantsVouched,
     Redeeming, At, Idle
<1>4. PinGate
  BY PinGateStarts DEF ClientInit
<1>5. FlowOK /\ CallServed /\ ExpiryKept /\ CacheFaithful
  <2>1. flow = Start /\ cache = NoCache /\ token = None /\ wrong = 0 /\ mislaid = {}
    BY DEF ClientInit
  <2> QED
    BY <2>1, Started DEF FlowOK, LocalsOK, RestOK, NoCache, CallServed, Served, Stage, ExpiryKept,
       Checking, CacheFaithful
<1>6. WrongPINsPaid
  <2>1. wrong = 0 /\ ~Checking
    BY Started DEF ClientInit, Checking, Served, Stage
  <2> QED
    BY <1>2, <2>1, SpentCount DEF WrongPINsPaid
<1> QED
  BY <1>1, <1>2, <1>3, <1>4, <1>5, <1>6 DEF ServerInv, CommandInv

LEMMA ClientSteps ==
  ASSUME ServerInv, CommandInv, [ClientNext]_allVars
  PROVE  ServerInv' /\ CommandInv'
<1>1. [Next]_vars
  BY ClientImplements DEF ServerInv, CommandInv
<1>2. [AuthNext]_authVars
  BY <1>1, StepImplements DEF ServerInv
<1>3. TicketsOK' /\ Spent \subseteq Spent' /\ issued \subseteq issued'
  BY <1>2, TicketsStep DEF ServerInv
<1>4. granted \subseteq granted'
  BY <1>1, GrantedGrows DEF ServerInv
<1>5. ServerTypeOK' /\ LimboTokens' /\ PinGate'
  BY <1>1, ServerTypeStep, LimboStep, PinGateStep DEF ServerInv
<1>6. CredentialsSpent'
  BY <1>2, SpentStep DEF ServerInv, ServerTypeOK
<1>7. SessionsVouched' /\ GrantsVouched'
  BY <1>1, VouchStep DEF ServerInv
<1>8. FlowOK'
  BY <1>3, <1>4, LocalsStep, RestStep DEF ServerInv, CommandInv, FlowOK
<1>9. CallServed'
  BY WaitStep DEF ServerInv, CommandInv, FlowOK
<1>10. ExpiryKept'
  BY <1>2, ExpiryStep DEF ServerInv, CommandInv, FlowOK
<1>11. CacheFaithful'
  BY <1>2, <1>4, CacheStep DEF ServerInv, CommandInv
<1>12. WrongPINsPaid'
  BY <1>3, <1>6, WrongStep DEF ServerInv, CommandInv
<1> QED
  BY <1>3, <1>5, <1>6, <1>7, <1>8, <1>9, <1>10, <1>11, <1>12 DEF ServerInv, CommandInv

LEMMA ClientInvariant == ClientSpec => [](ServerInv /\ CommandInv)
BY ClientStarts, ClientSteps, PTL DEF ClientSpec

-----------------------------------------------------------------------------
\* The theorems.

\* Whatever a command does with its session file, its prompt and its retries, and whenever
\* it is killed, the server sees nothing but calls its handlers allow: what the server
\* guarantees holds of it unchanged.
THEOREM ClientImplementsServer == ClientSpec => Init /\ [][Next]_vars
<1>1. ClientInit => Init
  BY DEF ClientInit
<1>2. ServerInv /\ CommandInv /\ [ClientNext]_allVars => [Next]_vars
  BY ClientImplements DEF ServerInv, CommandInv
<1> QED
  BY <1>1, <1>2, ClientInvariant, PTL DEF ClientSpec

\* The locals of a command are typed, and a prompt that is open holds a ticket.
THEOREM ClientTypeCorrect == ClientSpec => []ClientTypeOK
<1>1. ServerInv /\ CommandInv => ClientTypeOK
  BY DEF ServerInv, CommandInv, FlowOK, LocalsOK, RestOK, ClientTypeOK, ServerTypeOK
<1> QED
  BY <1>1, ClientInvariant, PTL

\* The session file (viper.go) holds a session this client was given, never one granted to
\* a command that was gone, and never for longer than the server keeps it.
THEOREM ClientCacheFaithful == ClientSpec => []CacheFaithful
<1>1. CommandInv => CacheFaithful
  BY DEF CommandInv
<1> QED
  BY <1>1, ClientInvariant, PTL

\* Each wrong PIN of a prompt has cost one more ticket, and so one more challenge answered
\* with the GPG key (auth.go:88, server.go:339).
THEOREM ClientWrongPINsCostTickets == ClientSpec => []WrongPINsCostTickets
<1>1. ServerInv /\ CommandInv => WrongPINsCostTickets
  BY DEF CommandInv, WrongPINsPaid, WrongPINsCostTickets, Spent
<1> QED
  BY <1>1, ClientInvariant, PTL

=============================================================================
