-------------------------- MODULE AuthManagerProofs --------------------------
(***************************************************************************)
(* The properties of AuthManager for any identifiers, lifetimes and cap.   *)
(***************************************************************************)
EXTENDS AuthManager, FiniteSetTheorems, TLAPS

-----------------------------------------------------------------------------
\* The three operations on maps with expiry.

\* Sweeping keeps a subset of the keys, deleting a key takes that key alone,
\* storing one adds it alone.
LEMMA SweptKeys == ASSUME NEW m PROVE DOMAIN Swept(m) \subseteq DOMAIN m
BY DEF Swept, Restrict

LEMMA WithoutKeys == ASSUME NEW m, NEW k PROVE DOMAIN Without(m, k) = DOMAIN m \ {k}
BY DEF Without, Restrict

LEMMA WithKeys ==
  ASSUME NEW m, NEW k, NEW v PROVE DOMAIN With(m, k, v) = DOMAIN m \cup {k}
BY DEF With

LEMMA EmptyKeys == DOMAIN Empty = {}
BY DEF Empty

\* The same operations keep a map typed.
LEMMA SweptType ==
  ASSUME NEW m, NEW keys, NEW values, MapInto(m, keys, values)
  PROVE  MapInto(Swept(m), keys, values)
BY DEF Swept, Restrict, MapInto

LEMMA WithoutType ==
  ASSUME NEW m, NEW k, NEW keys, NEW values, MapInto(m, keys, values)
  PROVE  MapInto(Without(m, k), keys, values)
BY DEF Without, Restrict, MapInto

LEMMA WithType ==
  ASSUME NEW m, NEW keys, NEW values, NEW k \in keys, NEW v \in values,
         MapInto(m, keys, values)
  PROVE  MapInto(With(m, k, v), keys, values)
BY DEF With, MapInto

LEMMA EmptyType == ASSUME NEW keys, NEW values PROVE MapInto(Empty, keys, values)
BY DEF Empty, MapInto

\* The doubled delay is positive, at most pinLockoutMax, and never decreases.
LEMMA BackoffFacts ==
  ASSUME NEW f \in Nat \ {0}
  PROVE  /\ Backoff(f) \in Nat
         /\ 0 < Backoff(f) /\ Backoff(f) <= PinLockoutMax
         /\ Backoff(f) <= Backoff(f + 1)
<1>1. /\ Shifted(f) \in Nat \ {0} /\ Shifted(f + 1) \in Nat
      /\ Shifted(f) <= Shifted(f + 1)
  <2>1. CASE f > 6
    BY <2>1 DEF Shifted
  <2>2. CASE f \in 1..6
    BY <2>2 DEF Shifted
  <2>3. QED
    BY <2>1, <2>2
<1> DEFINE a == PinLockoutBase * Shifted(f)
           b == PinLockoutBase * Shifted(f + 1)
<1>2. a \in Nat \ {0} /\ b \in Nat /\ a <= b
  <2>1. ASSUME NEW x \in Nat \ {0}, NEW y \in Nat \ {0}, NEW z \in Nat, y <= z
        PROVE  x * y \in Nat \ {0} /\ x * z \in Nat /\ x * y <= x * z
    BY <2>1
  <2>2. QED
    BY <1>1, <2>1, LimitsAssumption
<1> HIDE DEF a, b
<1>3. /\ Backoff(f) = IF a > PinLockoutMax THEN PinLockoutMax ELSE a
      /\ Backoff(f + 1) = IF b > PinLockoutMax THEN PinLockoutMax ELSE b
  BY DEF Backoff, a, b
<1>4. QED
  BY <1>2, <1>3, LimitsAssumption

-----------------------------------------------------------------------------
\* Type correctness.

\* Every method leaves well-typed state, whatever it is called with.
LEMMA TypeStep == TypeOK /\ [AuthNext]_authVars => TypeOK'
<1> SUFFICES ASSUME TypeOK, [AuthNext]_authVars
             PROVE  TypeOK'
  OBVIOUS
<1>a. /\ now + NonceTTL \in Nat /\ now + SessionTTL \in Nat
      /\ MapInto(Swept(nonces), Nonces, Nat)
      /\ MapInto(Swept(sessions), Tokens, Nat)
      /\ MapInto(Swept(unlockTickets), Tickets, Nat)
  BY LimitsAssumption, SweptType DEF TypeOK
<1>b. /\ \A n : MapInto(Without(nonces, n), Nonces, Nat)
      /\ \A t : MapInto(Without(sessions, t), Tokens, Nat)
      /\ \A k : MapInto(Without(unlockTickets, k), Tickets, Nat)
  BY WithoutType DEF TypeOK
<1>c. /\ \A n \in Nonces  : MapInto(With(Swept(nonces), n, now + NonceTTL), Nonces, Nat)
      /\ \A t \in Tokens  : MapInto(With(Swept(sessions), t, now + SessionTTL), Tokens, Nat)
      /\ \A k \in Tickets :
           MapInto(With(Swept(unlockTickets), k, now + NonceTTL), Tickets, Nat)
  BY <1>a, WithType
<1>d. \A x \in Tickets \cup Tokens, y \in Nonces \cup Tickets :
        MapInto(With(origin, x, y), Tickets \cup Tokens, Nonces \cup Tickets)
  BY WithType DEF TypeOK
<1>e. /\ MapInto(Empty, Nonces, Nat)
      /\ MapInto(Empty, Tokens, Nat)
      /\ MapInto(Empty, Tickets, Nat)
  BY EmptyType
<1> USE <1>a, <1>b, <1>c, <1>d, <1>e
<1>1. ASSUME NEW n \in Nonces, GenerateChallenge(n)
      PROVE  TypeOK'
  BY <1>1 DEF GenerateChallenge, TypeOK, Ids, pinVars
<1>2. ASSUME NEW n \in Nonces, NonceRefused(n) \/ NonceToNothing(n)
      PROVE  TypeOK'
  BY <1>2 DEF NonceRefused, NonceToNothing, NonceConsumed, TypeOK, pinVars, histVars
<1>3. ASSUME NEW n \in Nonces, NEW k \in Tickets, NonceToTicket(n, k)
      PROVE  TypeOK'
  BY <1>3 DEF NonceToTicket, NonceConsumed, TypeOK, Ids, pinVars
<1>4. ASSUME NEW n \in Nonces, NEW t \in Tokens, NonceToSession(n, t)
      PROVE  TypeOK'
  BY <1>4 DEF NonceToSession, NonceConsumed, AddSession, TypeOK, Ids, pinVars
<1>5. ASSUME NEW k \in Tickets, TicketRefused(k) \/ TicketToNothing(k)
      PROVE  TypeOK'
  BY <1>5 DEF TicketRefused, TicketToNothing, TypeOK, pinVars, histVars
<1>6. ASSUME NEW k \in Tickets, NEW t \in Tokens, TicketToSession(k, t)
      PROVE  TypeOK'
  BY <1>6 DEF TicketToSession, AddSession, TypeOK, Ids, pinVars
<1>7. ASSUME NEW t \in Tokens, ValidateToken(t) \/ RevokeSession(t)
      PROVE  TypeOK'
  BY <1>7 DEF ValidateToken, RevokeSession, TypeOK, pinVars, histVars
<1>8. CASE InvalidateAllSessions \/ SweepExpired
  BY <1>8 DEF InvalidateAllSessions, SweepExpired, TypeOK, pinVars, histVars
<1>9. ASSUME NEW configured \in BOOLEAN,
             SetPINConfigured(configured) \/ NewAuthManager(configured)
      PROVE  TypeOK'
  <2>1. CASE SetPINConfigured(configured)
    <3>1. pinConfigured' \in BOOLEAN
      BY <2>1, Zenon DEF SetPINConfigured
    <3>2. QED
      BY <2>1, <3>1, Zenon DEF SetPINConfigured, TypeOK, pinVars, histVars
  <2>2. CASE NewAuthManager(configured)
    <3>1. pinConfigured' \in BOOLEAN
      BY <2>2, Zenon DEF NewAuthManager
    <3>2. /\ MapInto(nonces', Nonces, Nat)
          /\ MapInto(sessions', Tokens, Nat)
          /\ MapInto(unlockTickets', Tickets, Nat)
          /\ pinFailures' \in Nat /\ pinLockedUntil' \in Nat
      BY <2>2 DEF NewAuthManager
    <3>3. QED
      BY <2>2, <3>1, <3>2, Zenon DEF NewAuthManager, TypeOK, histVars
  <2>3. QED
    BY <1>9, <2>1, <2>2
<1>10. CASE RecordPINFailure
  <2>1. Backoff(pinFailures + 1) \in Nat
    BY BackoffFacts DEF TypeOK
  <2>2. QED
    BY <1>10, <2>1 DEF RecordPINFailure, TypeOK, histVars
<1>11. CASE ResetPINFailures
  BY <1>11 DEF ResetPINFailures, TypeOK, histVars
<1>12. CASE Tick
  BY <1>12 DEF Tick, TypeOK, pinVars, histVars
<1>13. CASE UNCHANGED authVars
  BY <1>13 DEF authVars, TypeOK
<1>14. CASE ChallengeNext
  BY <1>14, <1>1, <1>2, <1>3, <1>4, Zenon DEF ChallengeNext
<1>15. CASE TicketNext
  BY <1>15, <1>5, <1>6, Zenon DEF TicketNext
<1>16. CASE SessionNext
  BY <1>16, <1>7, <1>8, Zenon DEF SessionNext
<1>17. CASE PinNext
  BY <1>17, <1>9, <1>10, <1>11, Zenon DEF PinNext
<1>18. QED
  BY <1>12, <1>13, <1>14, <1>15, <1>16, <1>17, Zenon DEF AuthNext

\* The state of AuthManager keeps its types: the maps hold expiry instants, the
\* failure counter never goes below zero.
THEOREM AuthTypeCorrect == AuthSpec => []TypeOK
<1>1. AuthInit => TypeOK
  BY EmptyType DEF AuthInit, TypeOK
<1>2. QED
  BY <1>1, TypeStep, PTL DEF AuthSpec

-----------------------------------------------------------------------------
\* Single use.  CredentialsSpent is the inductive part: a credential leaves its
\* map in the step that records what was issued for it.

LEMMA SpentStep ==
  TypeOK /\ CredentialsSpent /\ [AuthNext]_authVars => CredentialsSpent'
<1> SUFFICES ASSUME TypeOK, CredentialsSpent, [AuthNext]_authVars
             PROVE  CredentialsSpent'
  OBVIOUS
<1> USE IdsAssumption
<1>a. /\ DOMAIN Swept(nonces) \subseteq DOMAIN nonces
      /\ DOMAIN Swept(sessions) \subseteq DOMAIN sessions
      /\ DOMAIN Swept(unlockTickets) \subseteq DOMAIN unlockTickets
  BY SweptKeys
<1>b. /\ DOMAIN nonces \subseteq Nonces
      /\ DOMAIN sessions \subseteq Tokens
      /\ DOMAIN unlockTickets \subseteq Tickets
  BY DEF TypeOK, MapInto
<1>1. ASSUME NEW n \in Nonces, GenerateChallenge(n)
      PROVE  CredentialsSpent'
  <2>1. DOMAIN nonces' = DOMAIN Swept(nonces) \cup {n}
    BY <1>1, WithKeys DEF GenerateChallenge
  <2>2. n \notin issued /\ issued' = issued \cup {n}
        /\ UNCHANGED <<sessions, unlockTickets, origin>>
    BY <1>1 DEF GenerateChallenge
  <2>3. QED
    BY <2>1, <2>2, <1>a DEF CredentialsSpent
<1>2. ASSUME NEW n \in Nonces, NonceRefused(n) \/ NonceToNothing(n)
      PROVE  CredentialsSpent'
  <2>1. DOMAIN nonces' \subseteq DOMAIN nonces /\ DOMAIN sessions' \subseteq DOMAIN sessions
    BY <1>2, <1>a, WithoutKeys DEF NonceRefused, NonceToNothing, NonceConsumed
  <2>2. UNCHANGED <<unlockTickets, origin, issued>>
    BY <1>2 DEF NonceRefused, NonceToNothing, histVars
  <2>3. QED
    BY <2>1, <2>2 DEF CredentialsSpent
<1>3. ASSUME NEW n \in Nonces, NEW k \in Tickets, NonceToTicket(n, k)
      PROVE  CredentialsSpent'
  <2>1. /\ DOMAIN nonces' = DOMAIN nonces \ {n} /\ n \in DOMAIN nonces
        /\ DOMAIN unlockTickets' = DOMAIN Swept(unlockTickets) \cup {k}
        /\ UNCHANGED sessions
        /\ k \notin issued /\ issued' = issued \cup {k}
    BY <1>3, WithoutKeys, WithKeys DEF NonceToTicket, NonceConsumed, Held
  <2>2. /\ DOMAIN origin' = DOMAIN origin \cup {k} /\ origin'[k] = n
        /\ \A x \in DOMAIN origin \ {k} : origin'[x] = origin[x]
    <3>1. origin' = With(origin, k, n)
      BY <1>3 DEF NonceToTicket
    <3>2. QED
      BY <3>1 DEF With
  <2>3. QED
    BY <2>1, <2>2, <1>a, <1>b DEF CredentialsSpent
<1>4. ASSUME NEW n \in Nonces, NEW t \in Tokens, NonceToSession(n, t)
      PROVE  CredentialsSpent'
  <2>1. /\ DOMAIN nonces' = DOMAIN nonces \ {n} /\ n \in DOMAIN nonces
        /\ DOMAIN sessions' = DOMAIN Swept(sessions) \cup {t}
        /\ UNCHANGED unlockTickets
        /\ t \notin issued /\ issued' = issued \cup {t}
    BY <1>4, WithoutKeys, WithKeys DEF NonceToSession, NonceConsumed, AddSession, Held
  <2>2. /\ DOMAIN origin' = DOMAIN origin \cup {t} /\ origin'[t] = n
        /\ \A x \in DOMAIN origin \ {t} : origin'[x] = origin[x]
    <3>1. origin' = With(origin, t, n)
      BY <1>4 DEF NonceToSession, AddSession
    <3>2. QED
      BY <3>1 DEF With
  <2>3. QED
    BY <2>1, <2>2, <1>a, <1>b DEF CredentialsSpent
<1>5. ASSUME NEW k \in Tickets, TicketRefused(k) \/ TicketToNothing(k)
      PROVE  CredentialsSpent'
  <2>1. /\ DOMAIN unlockTickets' \subseteq DOMAIN unlockTickets
        /\ DOMAIN sessions' \subseteq DOMAIN sessions
    BY <1>5, <1>a, WithoutKeys DEF TicketRefused, TicketToNothing
  <2>2. UNCHANGED <<nonces, origin, issued>>
    BY <1>5 DEF TicketRefused, TicketToNothing, histVars
  <2>3. QED
    BY <2>1, <2>2 DEF CredentialsSpent
<1>6. ASSUME NEW k \in Tickets, NEW t \in Tokens, TicketToSession(k, t)
      PROVE  CredentialsSpent'
  <2>1. /\ DOMAIN unlockTickets' = DOMAIN unlockTickets \ {k} /\ k \in DOMAIN unlockTickets
        /\ DOMAIN sessions' = DOMAIN Swept(sessions) \cup {t}
        /\ UNCHANGED nonces
        /\ t \notin issued /\ issued' = issued \cup {t}
    BY <1>6, WithoutKeys, WithKeys DEF TicketToSession, AddSession, Held
  <2>2. /\ DOMAIN origin' = DOMAIN origin \cup {t} /\ origin'[t] = k
        /\ \A x \in DOMAIN origin \ {t} : origin'[x] = origin[x]
    <3>1. origin' = With(origin, t, k)
      BY <1>6 DEF TicketToSession, AddSession
    <3>2. QED
      BY <3>1 DEF With
  <2>3. QED
    BY <2>1, <2>2, <1>a, <1>b DEF CredentialsSpent
<1>7. CASE SessionNext
  <2>1. /\ DOMAIN nonces' \subseteq DOMAIN nonces
        /\ DOMAIN unlockTickets' \subseteq DOMAIN unlockTickets
        /\ DOMAIN sessions' \subseteq DOMAIN sessions
    <3>1. ASSUME NEW t \in Tokens, ValidateToken(t) \/ RevokeSession(t)
          PROVE  DOMAIN sessions' \subseteq DOMAIN sessions /\ UNCHANGED <<nonces, unlockTickets>>
      BY <3>1, WithoutKeys DEF ValidateToken, RevokeSession
    <3>2. CASE InvalidateAllSessions
      BY <3>2, EmptyKeys DEF InvalidateAllSessions
    <3>3. CASE SweepExpired
      BY <3>3, <1>a DEF SweepExpired
    <3>4. QED
      BY <1>7, <3>1, <3>2, <3>3 DEF SessionNext
  <2>2. UNCHANGED <<origin, issued>>
    BY <1>7 DEF SessionNext, ValidateToken, RevokeSession, InvalidateAllSessions,
                SweepExpired, histVars
  <2>3. QED
    BY <2>1, <2>2 DEF CredentialsSpent
<1>8. CASE PinNext \/ Tick \/ UNCHANGED authVars
  <2>1. /\ DOMAIN nonces' \subseteq DOMAIN nonces
        /\ DOMAIN unlockTickets' \subseteq DOMAIN unlockTickets
        /\ DOMAIN sessions' \subseteq DOMAIN sessions
    BY <1>8, EmptyKeys
    DEF PinNext, SetPINConfigured, NewAuthManager, RecordPINFailure, ResetPINFailures,
        Tick, authVars
  <2>2. UNCHANGED <<origin, issued>>
    BY <1>8 DEF PinNext, SetPINConfigured, NewAuthManager, RecordPINFailure,
                ResetPINFailures, Tick, authVars, histVars
  <2>3. QED
    BY <2>1, <2>2 DEF CredentialsSpent
<1>9. CASE ChallengeNext
  BY <1>9, <1>1, <1>2, <1>3, <1>4, Zenon DEF ChallengeNext
<1>10. CASE TicketNext
  BY <1>10, <1>5, <1>6, Zenon DEF TicketNext
<1>11. QED
  BY <1>7, <1>8, <1>9, <1>10, Zenon DEF AuthNext

\* Whatever was bought with a nonce or a ticket, that nonce or ticket is gone,
\* and nothing in the tables was made up elsewhere.
THEOREM AuthCredentialsSpent == AuthSpec => []CredentialsSpent
<1>1. AuthInit => CredentialsSpent
  BY EmptyKeys DEF AuthInit, CredentialsSpent
<1>2. QED
  BY <1>1, SpentStep, AuthTypeCorrect, PTL DEF AuthSpec

\* A nonce buys one ticket or one session, a ticket buys one session, however
\* often and however late it is presented again.
THEOREM AuthSingleUse == AuthSpec => []SingleUse
<1>1. AuthInit => TypeOK /\ CredentialsSpent /\ SingleUse
  BY EmptyType, EmptyKeys DEF AuthInit, TypeOK, CredentialsSpent, SingleUse
<1>2. TypeOK /\ CredentialsSpent /\ SingleUse /\ [AuthNext]_authVars => SingleUse'
  <2> SUFFICES ASSUME TypeOK, CredentialsSpent, SingleUse, [AuthNext]_authVars
               PROVE  SingleUse'
    OBVIOUS
  <2>1. ASSUME NEW x, NEW y, x \notin issued, origin' = With(origin, x, y),
               y \notin {origin[z] : z \in DOMAIN origin}
        PROVE  SingleUse'
    <3>1. /\ DOMAIN origin' = DOMAIN origin \cup {x} /\ origin'[x] = y
          /\ \A z \in DOMAIN origin \ {x} : origin'[z] = origin[z]
      BY <2>1 DEF With
    <3>2. QED
      BY <2>1, <3>1 DEF SingleUse, CredentialsSpent
  <2>2. ASSUME NEW n \in Nonces, NEW k \in Tickets, NonceToTicket(n, k)
        PROVE  SingleUse'
    BY <2>1, <2>2 DEF NonceToTicket, NonceConsumed, Held, CredentialsSpent
  <2>3. ASSUME NEW n \in Nonces, NEW t \in Tokens, NonceToSession(n, t)
        PROVE  SingleUse'
    BY <2>1, <2>3 DEF NonceToSession, NonceConsumed, AddSession, Held, CredentialsSpent
  <2>4. ASSUME NEW k \in Tickets, NEW t \in Tokens, TicketToSession(k, t)
        PROVE  SingleUse'
    BY <2>1, <2>4 DEF TicketToSession, AddSession, Held, CredentialsSpent
  <2>5. CASE UNCHANGED origin
    BY <2>5 DEF SingleUse
  <2>6. CASE ChallengeNext
    <3>1. ASSUME NEW n \in Nonces, GenerateChallenge(n) \/ NonceRefused(n) \/ NonceToNothing(n)
          PROVE  UNCHANGED origin
      BY <3>1 DEF GenerateChallenge, NonceRefused, NonceToNothing, histVars
    <3>2. QED
      BY <2>6, <2>2, <2>3, <2>5, <3>1, Zenon DEF ChallengeNext
  <2>7. CASE TicketNext
    <3>1. ASSUME NEW k \in Tickets, TicketRefused(k) \/ TicketToNothing(k)
          PROVE  UNCHANGED origin
      BY <3>1 DEF TicketRefused, TicketToNothing, histVars
    <3>2. QED
      BY <2>7, <2>4, <2>5, <3>1, Zenon DEF TicketNext
  <2>8. CASE SessionNext \/ PinNext \/ Tick \/ UNCHANGED authVars
    <3>1. UNCHANGED origin
      BY <2>8 DEF SessionNext, ValidateToken, RevokeSession, InvalidateAllSessions, SweepExpired,
                  PinNext, SetPINConfigured, NewAuthManager, RecordPINFailure, ResetPINFailures,
                  Tick, authVars, histVars
    <3>2. QED
      BY <2>5, <3>1
  <2>9. QED
    BY <2>6, <2>7, <2>8, Zenon DEF AuthNext
<1>3. QED
  BY <1>1, <1>2, TypeStep, SpentStep, PTL DEF AuthSpec

-----------------------------------------------------------------------------
\* The session cap.

\* Sweeping a finite table leaves a finite, no larger one.
LEMMA SweptFinite ==
  ASSUME IsFiniteSet(DOMAIN sessions)
  PROVE  /\ IsFiniteSet(DOMAIN Swept(sessions))
         /\ Cardinality(DOMAIN Swept(sessions)) <= Cardinality(DOMAIN sessions)
BY SweptKeys, FS_Subset

\* A step keeps the table within the cap, or it shrinks it.
LEMMA CapStep ==
  ASSUME TypeOK, IsFiniteSet(DOMAIN sessions), SessionCap, [AuthNext]_authVars
  PROVE  IsFiniteSet(DOMAIN sessions') /\ Cardinality(DOMAIN sessions') <= MaxSessions
<1>1. ASSUME DOMAIN sessions' \subseteq DOMAIN sessions
      PROVE  IsFiniteSet(DOMAIN sessions') /\ Cardinality(DOMAIN sessions') <= MaxSessions
  <2>1. /\ IsFiniteSet(DOMAIN sessions')
        /\ Cardinality(DOMAIN sessions') <= Cardinality(DOMAIN sessions)
    BY <1>1, FS_Subset
  <2>2. Cardinality(DOMAIN sessions') \in Nat /\ Cardinality(DOMAIN sessions) \in Nat
    BY <2>1, FS_CardinalityType
  <2>3. QED
    BY <2>1, <2>2, LimitsAssumption DEF SessionCap
<1>2. ASSUME NEW t, NEW from, AddSession(t, from)
      PROVE  IsFiniteSet(DOMAIN sessions') /\ Cardinality(DOMAIN sessions') <= MaxSessions
  <2>1. DOMAIN sessions' = DOMAIN Swept(sessions) \cup {t}
    BY <1>2, WithKeys DEF AddSession
  <2>2. IsFiniteSet(DOMAIN Swept(sessions))
    BY SweptFinite
  <2>3. /\ IsFiniteSet(DOMAIN sessions')
        /\ Cardinality(DOMAIN sessions') \in Nat
        /\ Cardinality(DOMAIN Swept(sessions)) \in Nat
        /\ Cardinality(DOMAIN sessions') <= Cardinality(DOMAIN Swept(sessions)) + 1
    <3> DEFINE S == DOMAIN Swept(sessions)
    <3>1. /\ IsFiniteSet(S \cup {t})
          /\ Cardinality(S \cup {t}) = IF t \in S THEN Cardinality(S) ELSE Cardinality(S) + 1
      BY <2>2, FS_AddElement, Zenon
    <3>2. Cardinality(S) \in Nat
      BY <2>2, FS_CardinalityType
    <3> HIDE DEF S
    <3>3. QED
      BY <2>1, <3>1, <3>2 DEF S
  <2>4. ~(Cardinality(DOMAIN Swept(sessions)) >= MaxSessions)
    BY <1>2 DEF AddSession, SessionsFull
  <2>5. QED
    BY <2>3, <2>4, LimitsAssumption
<1>a. DOMAIN Swept(sessions) \subseteq DOMAIN sessions
  BY SweptKeys
<1>3. CASE ChallengeNext
  <2>1. ASSUME NEW n \in Nonces, NEW t \in Tokens, NonceToSession(n, t)
        PROVE  AddSession(t, n)
    BY <2>1 DEF NonceToSession
  <2>2. ASSUME NEW n \in Nonces,
               \/ GenerateChallenge(n) \/ NonceRefused(n) \/ NonceToNothing(n)
               \/ \E k \in Tickets : NonceToTicket(n, k)
        PROVE  DOMAIN sessions' \subseteq DOMAIN sessions
    BY <2>2, <1>a DEF GenerateChallenge, NonceRefused, NonceToNothing, NonceToTicket
  <2>3. QED
    BY <1>1, <1>2, <1>3, <2>1, <2>2, Zenon DEF ChallengeNext
<1>4. CASE TicketNext
  <2>1. ASSUME NEW k \in Tickets, NEW t \in Tokens, TicketToSession(k, t)
        PROVE  AddSession(t, k)
    BY <2>1 DEF TicketToSession
  <2>2. ASSUME NEW k \in Tickets, TicketRefused(k) \/ TicketToNothing(k)
        PROVE  DOMAIN sessions' \subseteq DOMAIN sessions
    BY <2>2, <1>a DEF TicketRefused, TicketToNothing
  <2>3. QED
    BY <1>1, <1>2, <1>4, <2>1, <2>2, Zenon DEF TicketNext
<1>5. CASE SessionNext
  <2>1. ASSUME NEW t \in Tokens, ValidateToken(t) \/ RevokeSession(t)
        PROVE  DOMAIN sessions' \subseteq DOMAIN sessions
    BY <2>1, WithoutKeys DEF ValidateToken, RevokeSession
  <2>2. CASE InvalidateAllSessions
    BY <1>1, <2>2, EmptyKeys DEF InvalidateAllSessions
  <2>3. CASE SweepExpired
    BY <1>1, <1>a, <2>3 DEF SweepExpired
  <2>4. QED
    BY <1>1, <1>5, <2>1, <2>2, <2>3, Zenon DEF SessionNext
<1>6. CASE PinNext \/ Tick \/ UNCHANGED authVars
  <2>1. DOMAIN sessions' \subseteq DOMAIN sessions
    BY <1>6, EmptyKeys DEF PinNext, SetPINConfigured, NewAuthManager, RecordPINFailure,
                           ResetPINFailures, Tick, authVars
  <2>2. QED
    BY <1>1, <2>1
<1>7. QED
  BY <1>3, <1>4, <1>5, <1>6, Zenon DEF AuthNext

\* There are never more than maxSessions sessions, whichever path issues them.
THEOREM AuthSessionCap == AuthSpec => []SessionCap
<1> DEFINE FiniteCap == IsFiniteSet(DOMAIN sessions) /\ SessionCap
<1>1. AuthInit => FiniteCap
  BY EmptyKeys, FS_EmptySet, LimitsAssumption DEF AuthInit, SessionCap
<1>2. TypeOK /\ FiniteCap /\ [AuthNext]_authVars => FiniteCap'
  BY CapStep DEF SessionCap
<1>3. FiniteCap => SessionCap
  OBVIOUS
<1> HIDE DEF FiniteCap
<1>4. QED
  BY <1>1, <1>2, <1>3, AuthTypeCorrect, PTL DEF AuthSpec

-----------------------------------------------------------------------------
\* The PIN lockout.

LEMMA LockoutStep == TypeOK /\ LockoutBounded /\ [AuthNext]_authVars => LockoutBounded'
<1> SUFFICES ASSUME TypeOK, LockoutBounded, [AuthNext]_authVars
             PROVE  LockoutBounded'
  OBVIOUS
<1>1. CASE RecordPINFailure
  <2>1. Backoff(pinFailures + 1) \in Nat
    BY BackoffFacts DEF TypeOK
  <2>2. QED
    BY <1>1, <2>1 DEF RecordPINFailure, LockoutBounded, TypeOK, histVars
<1>2. CASE ResetPINFailures \/ \E configured \in BOOLEAN : NewAuthManager(configured)
  BY <1>2 DEF ResetPINFailures, NewAuthManager, LockoutBounded
<1>3. CASE Tick
  <2>1. pinFailures # 0 => Backoff(pinFailures) \in Nat
    BY BackoffFacts DEF TypeOK
  <2>2. QED
    BY <1>3, <2>1 DEF Tick, pinVars, LockoutBounded, TypeOK
<1>4. CASE UNCHANGED <<now, pinFailures, pinLockedUntil>>
  BY <1>4 DEF LockoutBounded
<1>5. CASE ChallengeNext \/ TicketNext \/ SessionNext \/ UNCHANGED authVars
  BY <1>4, <1>5
  DEF ChallengeNext, TicketNext, SessionNext, GenerateChallenge, NonceRefused, NonceToNothing,
      NonceToTicket, NonceToSession, TicketRefused, TicketToNothing, TicketToSession,
      ValidateToken, RevokeSession, InvalidateAllSessions, SweepExpired, authVars, pinVars
<1>6. CASE PinNext
  BY <1>1, <1>2, <1>4, <1>6 DEF PinNext, SetPINConfigured, pinVars
<1>7. QED
  BY <1>3, <1>5, <1>6, Zenon DEF AuthNext

\* The lock lasts at most the back-off of the failures on record.
THEOREM AuthLockoutBounded == AuthSpec => []LockoutBounded
<1>1. AuthInit => LockoutBounded
  BY DEF AuthInit, LockoutBounded
<1>2. QED
  BY <1>1, LockoutStep, AuthTypeCorrect, PTL DEF AuthSpec

\* A further failure never shortens the lock: the back-off grows up to its cap
\* and the clock does not go back.
THEOREM AuthLockoutOnlyReset == AuthSpec => LockoutOnlyReset
<1>1. TypeOK /\ LockoutBounded /\ [AuthNext]_authVars =>
        [pinLockedUntil' < pinLockedUntil => pinFailures' = 0 /\ pinLockedUntil' = 0]_authVars
  <2> SUFFICES ASSUME TypeOK, LockoutBounded, AuthNext, pinLockedUntil' < pinLockedUntil
               PROVE  pinFailures' = 0 /\ pinLockedUntil' = 0
    OBVIOUS
  <2>1. CASE RecordPINFailure
    <3>1. Backoff(pinFailures + 1) \in Nat
      BY BackoffFacts DEF TypeOK
    <3>2. pinFailures # 0 => /\ Backoff(pinFailures) \in Nat
                            /\ Backoff(pinFailures) <= Backoff(pinFailures + 1)
      BY BackoffFacts DEF TypeOK
    <3>3. pinLockedUntil <= now + Backoff(pinFailures + 1)
      BY <3>1, <3>2 DEF LockoutBounded, TypeOK
    <3>4. QED
      BY <2>1, <3>1, <3>3 DEF RecordPINFailure, TypeOK
  <2>2. CASE PinNext
    BY <2>1, <2>2 DEF PinNext, SetPINConfigured, NewAuthManager, ResetPINFailures, pinVars, TypeOK
  <2>3. CASE ChallengeNext \/ TicketNext \/ SessionNext \/ Tick
    BY <2>3
    DEF ChallengeNext, TicketNext, SessionNext, GenerateChallenge, NonceRefused, NonceToNothing,
        NonceToTicket, NonceToSession, TicketRefused, TicketToNothing, TicketToSession,
        ValidateToken, RevokeSession, InvalidateAllSessions, SweepExpired, Tick, pinVars, TypeOK
  <2>4. QED
    BY <2>2, <2>3 DEF AuthNext
<1>2. QED
  BY <1>1, AuthTypeCorrect, AuthLockoutBounded, PTL DEF AuthSpec, LockoutOnlyReset

=============================================================================
