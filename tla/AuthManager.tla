----------------------------- MODULE AuthManager -----------------------------
(***************************************************************************)
(* The server's in-memory authentication state, one action per method of   *)
(* AuthManager (internal/adapters/grpc/auth.go).  Every method holds a.mu  *)
(* from its first read to its last write, so each one is a single step.    *)
(* A method with several outcomes has one action per outcome; the outcome  *)
(* is decided by the guards, in the order the code tests them.             *)
(*                                                                         *)
(* A Go map from a random string to its expiry is a function whose domain  *)
(* is the set of keys present.  The 32 random bytes of generateTokenSafe   *)
(* never repeat, so a new key is one that was never issued.                *)
(***************************************************************************)
EXTENDS Integers, FiniteSets, Functions

CONSTANTS
  Nonces, Tickets, Tokens,  \* the values generateTokenSafe can return, by use
  NonceTTL, SessionTTL,     \* lifetimes (tickets live NonceTTL too)
  MaxSessions,              \* maxSessions
  PinLockoutBase, PinLockoutMax

ASSUME IdsAssumption ==
  /\ Nonces \cap Tickets = {}
  /\ Nonces \cap Tokens  = {}
  /\ Tickets \cap Tokens = {}

ASSUME LimitsAssumption ==
  /\ NonceTTL   \in Nat
  /\ SessionTTL \in Nat
  /\ MaxSessions \in Nat
  /\ PinLockoutBase \in Nat \ {0}
  /\ PinLockoutMax  \in Nat
  /\ PinLockoutBase <= PinLockoutMax

VARIABLES
  now,             \* the clock behind time.Now()
  nonces,          \* nonce  -> expiresAt
  sessions,        \* token  -> expiresAt
  unlockTickets,   \* ticket -> expiresAt
  pinConfigured,
  pinFailures,
  pinLockedUntil,  \* 0 is the zero time.Time
  issued,          \* history: every identifier ever generated
  origin           \* history: ticket -> its nonce, token -> its nonce or ticket

pinVars  == <<pinFailures, pinLockedUntil>>
histVars == <<issued, origin>>
authVars == <<now, nonces, sessions, unlockTickets, pinConfigured, pinFailures,
              pinLockedUntil, issued, origin>>

Ids == Nonces \cup Tickets \cup Tokens

MapInto(m, keys, values) == DOMAIN m \subseteq keys /\ m \in [DOMAIN m -> values]

TypeOK ==
  /\ now \in Nat
  /\ MapInto(nonces, Nonces, Nat)
  /\ MapInto(sessions, Tokens, Nat)
  /\ MapInto(unlockTickets, Tickets, Nat)
  /\ pinConfigured \in BOOLEAN
  /\ pinFailures    \in Nat
  /\ pinLockedUntil \in Nat
  /\ issued \subseteq Ids
  /\ MapInto(origin, Tickets \cup Tokens, Nonces \cup Tickets)

-----------------------------------------------------------------------------
\* Maps with expiry.

Live(expiresAt)     == now <= expiresAt         \* ~now.After(expiresAt)
Held(m, k)          == k \in DOMAIN m /\ Live(m[k])
Swept(m)            == Restrict(m, {k \in DOMAIN m : Live(m[k])})
Without(m, k)       == Restrict(m, DOMAIN m \ {k})
With(m, k, v)       == [x \in DOMAIN m \cup {k} |-> IF x = k THEN v ELSE m[x]]
Empty               == [x \in {} |-> 0]

\* pinLockoutBase * (1 << min(failures-1, 5)), capped, for failures >= 1.
Shifted(failures) == IF failures > 6 THEN 32 ELSE <<1, 2, 4, 8, 16, 32>>[failures]
\* Mutant: past the cap the back-off starts over instead of staying there.
BackoffWrapped(failures) ==
  LET backoff == PinLockoutBase * Shifted(failures)
  IN  IF backoff > PinLockoutMax THEN PinLockoutBase ELSE backoff

Backoff(failures) ==
  LET backoff == PinLockoutBase * Shifted(failures)
  IN  IF backoff > PinLockoutMax THEN PinLockoutMax ELSE backoff

-----------------------------------------------------------------------------
\* Challenges.

\* GenerateChallenge: drop the expired nonces, store a new one.
GenerateChallenge(n) ==
  /\ n \in Nonces \ issued
  /\ nonces' = With(Swept(nonces), n, now + NonceTTL)
  /\ issued' = issued \cup {n}
  /\ UNCHANGED <<now, sessions, unlockTickets, pinConfigured, pinVars, origin>>

\* VerifyNonce, "nonce not found" and "nonce expired".
NonceRefused(n) ==
  /\ ~Held(nonces, n)
  /\ nonces' = Without(nonces, n)
  /\ UNCHANGED <<now, sessions, unlockTickets, pinConfigured, pinVars, histVars>>

\* Mutant: the nonce is kept for a retry.
NonceKept(n) ==
  /\ Held(nonces, n)
  /\ UNCHANGED nonces

NonceConsumed(n) ==
  /\ Held(nonces, n)
  /\ nonces' = Without(nonces, n)

\* VerifyNonce with a PIN configured: an unlock ticket, never a session.
NonceToTicket(n, k) ==
  /\ NonceConsumed(n)
  /\ pinConfigured
  /\ k \in Tickets \ issued
  /\ unlockTickets' = With(Swept(unlockTickets), k, now + NonceTTL)
  /\ issued' = issued \cup {k}
  /\ origin' = With(origin, k, n)
  /\ UNCHANGED <<now, sessions, pinConfigured, pinVars>>

SessionsFull == Cardinality(DOMAIN Swept(sessions)) >= MaxSessions

AddSession(t, from) ==
  /\ ~SessionsFull
  /\ t \in Tokens \ issued
  /\ sessions' = With(Swept(sessions), t, now + SessionTTL)
  /\ issued' = issued \cup {t}
  /\ origin' = With(origin, t, from)

\* VerifyNonce without a PIN: a session at once.
NonceToSession(n, t) ==
  /\ NonceConsumed(n)
  /\ ~pinConfigured
  /\ AddSession(t, n)
  /\ UNCHANGED <<now, unlockTickets, pinConfigured, pinVars>>

\* VerifyNonce at the cap: ResourceExhausted, and the nonce is gone.
NonceToNothing(n) ==
  /\ NonceConsumed(n)
  /\ ~pinConfigured
  /\ SessionsFull
  /\ sessions' = Swept(sessions)
  /\ UNCHANGED <<now, unlockTickets, pinConfigured, pinVars, histVars>>

-----------------------------------------------------------------------------
\* Unlock tickets and sessions.

\* Mutant: a ticket survives a successful redemption.
TicketToSessionKept(k, t) ==
  /\ Held(unlockTickets, k)
  /\ AddSession(t, k)
  /\ UNCHANGED <<now, nonces, unlockTickets, pinConfigured, pinVars>>

\* RedeemUnlockTicket: the ticket is deleted before anything can fail.
TicketToSession(k, t) ==
  /\ Held(unlockTickets, k)
  /\ unlockTickets' = Without(unlockTickets, k)
  /\ AddSession(t, k)
  /\ UNCHANGED <<now, nonces, pinConfigured, pinVars>>

\* RedeemUnlockTicket, unknown or expired ticket.
TicketRefused(k) ==
  /\ ~Held(unlockTickets, k)
  /\ unlockTickets' = Without(unlockTickets, k)
  /\ UNCHANGED <<now, nonces, sessions, pinConfigured, pinVars, histVars>>

\* RedeemUnlockTicket at the cap: the ticket is spent for nothing.
TicketToNothing(k) ==
  /\ Held(unlockTickets, k)
  /\ SessionsFull
  /\ unlockTickets' = Without(unlockTickets, k)
  /\ sessions' = Swept(sessions)
  /\ UNCHANGED <<now, nonces, pinConfigured, pinVars, histVars>>

ValidToken(t) == Held(sessions, t)

\* validateToken: an expired session is deleted when it is presented.
ValidateToken(t) ==
  /\ sessions' = IF ValidToken(t) THEN sessions ELSE Without(sessions, t)
  /\ UNCHANGED <<now, nonces, unlockTickets, pinConfigured, pinVars, histVars>>

RevokeSession(t) ==
  /\ sessions' = Without(sessions, t)
  /\ UNCHANGED <<now, nonces, unlockTickets, pinConfigured, pinVars, histVars>>

InvalidateAllSessions ==
  /\ sessions' = Empty
  /\ UNCHANGED <<now, nonces, unlockTickets, pinConfigured, pinVars, histVars>>

\* SweepExpired, run by the five-minute ticker of StartSweeper.
SweepExpired ==
  /\ nonces'        = Swept(nonces)
  /\ sessions'      = Swept(sessions)
  /\ unlockTickets' = Swept(unlockTickets)
  /\ UNCHANGED <<now, pinConfigured, pinVars, histVars>>

-----------------------------------------------------------------------------
\* PIN attempts.

SetPINConfigured(configured) ==
  /\ pinConfigured' = configured
  /\ UNCHANGED <<now, nonces, sessions, unlockTickets, pinVars, histVars>>

RateLimited == now < pinLockedUntil             \* checkPINRateLimit

RecordPINFailure ==
  /\ pinFailures' = pinFailures + 1
  /\ pinLockedUntil' = now + Backoff(pinFailures + 1)
  /\ UNCHANGED <<now, nonces, sessions, unlockTickets, pinConfigured, histVars>>

ResetPINFailures ==
  /\ pinFailures' = 0
  /\ pinLockedUntil' = 0
  /\ UNCHANGED <<now, nonces, sessions, unlockTickets, pinConfigured, histVars>>

\* The process restarts: NewAuthManager, and NewServer sets pinConfigured.
NewAuthManager(configured) ==
  /\ nonces' = Empty
  /\ sessions' = Empty
  /\ unlockTickets' = Empty
  /\ pinConfigured' = configured
  /\ pinFailures' = 0
  /\ pinLockedUntil' = 0
  /\ UNCHANGED <<now, histVars>>

Tick ==
  /\ now' = now + 1
  /\ UNCHANGED <<nonces, sessions, unlockTickets, pinConfigured, pinVars, histVars>>

-----------------------------------------------------------------------------
AuthInit ==
  /\ now = 0
  /\ nonces = Empty
  /\ sessions = Empty
  /\ unlockTickets = Empty
  /\ pinConfigured \in BOOLEAN
  /\ pinFailures = 0
  /\ pinLockedUntil = 0
  /\ issued = {}
  /\ origin = Empty

ChallengeNext ==
  \E n \in Nonces :
    \/ GenerateChallenge(n)
    \/ NonceRefused(n)
    \/ NonceToNothing(n)
    \/ \E k \in Tickets : NonceToTicket(n, k)
    \/ \E t \in Tokens  : NonceToSession(n, t)

TicketNext ==
  \E k \in Tickets :
    \/ TicketRefused(k)
    \/ TicketToNothing(k)
    \/ \E t \in Tokens : TicketToSession(k, t)

SessionNext ==
  \/ \E t \in Tokens : ValidateToken(t) \/ RevokeSession(t)
  \/ InvalidateAllSessions
  \/ SweepExpired

PinNext ==
  \/ \E configured \in BOOLEAN : SetPINConfigured(configured) \/ NewAuthManager(configured)
  \/ RecordPINFailure
  \/ ResetPINFailures

\* Callers may call any method with any argument at any time.
AuthNext == ChallengeNext \/ TicketNext \/ SessionNext \/ PinNext \/ Tick

AuthSpec == AuthInit /\ [][AuthNext]_authVars

-----------------------------------------------------------------------------
\* Properties.

\* Whatever credential something was issued for is spent: no map still holds
\* it, and every identifier in use was generated by this manager.
CredentialsSpent ==
  /\ DOMAIN nonces \cup DOMAIN unlockTickets \cup DOMAIN sessions \subseteq issued
  /\ DOMAIN origin \subseteq issued
  /\ \A x \in DOMAIN origin :
       /\ origin[x] \in issued
       /\ origin[x] \notin DOMAIN nonces \cup DOMAIN unlockTickets

\* However the two issuing paths interleave with expiry, there are never more
\* than maxSessions sessions in the table (VerifyNonce, RedeemUnlockTicket).
SessionCap == Cardinality(DOMAIN sessions) <= MaxSessions

\* One nonce buys one ticket or one session and one ticket buys one session:
\* no two identifiers ever issued came from the same credential.
SingleUse ==
  \A x, y \in DOMAIN origin : origin[x] = origin[y] => x = y

\* Another failure never shortens a running lockout; the lock moves back only
\* when the failure counter is cleared with it (backoff doubling and its cap).
LockoutOnlyReset ==
  [][pinLockedUntil' < pinLockedUntil => pinFailures' = 0 /\ pinLockedUntil' = 0]_authVars

\* The lockout never exceeds the back-off of the recorded failures, so it is
\* over at most pinLockoutMax after the last failure.
LockoutBounded ==
  IF pinFailures = 0 THEN pinLockedUntil = 0
                     ELSE pinLockedUntil <= now + Backoff(pinFailures)

=============================================================================
