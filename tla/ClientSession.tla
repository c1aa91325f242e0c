---------------------------- MODULE ClientSession ----------------------------
(***************************************************************************)
(* One user's client against the server: the session cache file            *)
(* (internal/adapters/config/viper.go), the authentication flow of         *)
(* internal/app/auth.go with its PIN retries, the deferred variant of      *)
(* internal/adapters/cli/cliconfig/cliconfig.go, which has the same        *)
(* validator, and the terminal prompt that drives it                       *)
(* (internal/adapters/gui/pin/tty.go).                                     *)
(*                                                                         *)
(* The client's calls are the server's: it starts handlers of SekeveServer *)
(* and reacts to the step that ends them.  The calls of others are those   *)
(* that can end its session or use up its identifiers: SetPIN with any     *)
(* token, and what is left of the calls of a command that is gone.  Logins *)
(* of others take further challenges, tickets and tokens, as those of this *)
(* user's earlier commands do, and are in SekeveServer's own runs.         *)
(***************************************************************************)
EXTENDS SekeveServer

CONSTANT MaxTTYIterations   \* maxTTYIterations

ASSUME IterationsAssumption == MaxTTYIterations \in Nat \ {0}
ASSUME SlotsAssumption == None \notin Handlers

VARIABLES
  cache,   \* the session file: its token (None: no file) and expires_at
  token,   \* the token the gRPC client sends
  flow,    \* the running command: where it is, and the locals of its validator
  wrong,   \* history: the wrong PINs answered to this prompt
  mislaid  \* history: the tokens granted to a command that was gone

clientVars == <<cache, token, flow, wrong, mislaid>>
allVars == <<vars, clientVars>>

NoCache == [token |-> None, expiresAt |-> 0]

Start == [at |-> "start", nonce |-> None, ticket |-> None, slot |-> None,
          attempts |-> 0, prompts |-> 0, expires |-> 0]

Stages == {"start", "auth", "verify", "prompt", "wait", "reauth", "reverify",
           "ready", "denied", "failed", "done"}

Flow == [at : Stages, nonce : Nonces \cup {None}, ticket : Tickets \cup {None},
         slot : Handlers \cup {None}, attempts : Nat, prompts : Nat, expires : Nat]

ClientTypeOK ==
  /\ ServerTypeOK
  /\ cache \in [token : Tokens \cup {None}, expiresAt : Nat]
  /\ token \in Tokens \cup {None}
  /\ flow \in Flow
  /\ wrong \in Nat
  /\ mislaid \subseteq Tokens
  /\ flow.at \in {"prompt", "wait", "reauth", "reverify"} => flow.ticket \in Tickets

Stage(s) == flow.at = s
Enter(s) == flow' = [flow EXCEPT !.at = s]

-----------------------------------------------------------------------------
\* The cache, and the GPG round trip.

CacheHolds == cache.token # None /\ now <= cache.expiresAt

\* AuthenticateSession: a cached session is used without asking the server.
UseCachedSession ==
  /\ Stage("start")
  /\ CacheHolds
  /\ token' = cache.token
  /\ Enter("ready")
  /\ UNCHANGED <<vars, cache, wrong, mislaid>>

NoCachedSession ==
  /\ Stage("start")
  /\ ~CacheHolds
  /\ Enter("auth")
  /\ UNCHANGED <<vars, cache, token, wrong, mislaid>>

\* Client.Authenticate, first half: challenge received and decrypted.
RequestChallenge ==
  \E n \in Nonces :
    /\ \/ Stage("auth")   /\ flow' = [flow EXCEPT !.at = "verify",   !.nonce = n]
       \/ Stage("reauth") /\ flow' = [flow EXCEPT !.at = "reverify", !.nonce = n]
    /\ Authenticate(n)
    /\ UNCHANGED <<cache, token, wrong, mislaid>>

\* Mutant: the session is cached for its full lifetime from now.
CacheSessionAnew(t, expiresAt) ==
  /\ token' = t
  /\ cache' = [token |-> t, expiresAt |-> expiresAt + SessionTTL]

\* cacheSession: the token is set and saved until the server's expiry.
CacheSession(t, expiresAt) ==
  /\ token' = t
  /\ cache' = [token |-> t, expiresAt |-> expiresAt]

\* Second half, without a PIN.
LoggedIn ==
  \E t \in Tokens :
    /\ Stage("verify")
    /\ VerifyToSession(flow.nonce, t)
    /\ CacheSession(t, now + SessionTTL)
    /\ Enter("ready")
    /\ UNCHANGED <<wrong, mislaid>>

\* Second half, with a PIN: the prompt opens.
PINRequired ==
  \E k \in Tickets :
    /\ Stage("verify")
    /\ VerifyToTicket(flow.nonce, k)
    /\ flow' = [flow EXCEPT !.at = "prompt", !.ticket = k, !.attempts = 0, !.prompts = 0]
    /\ wrong' = 0
    /\ UNCHANGED <<cache, token, mislaid>>

\* The prompt loop: validate has answered an error that is not fatal.
NextPrompt(f) == flow' = [f EXCEPT !.at = "prompt", !.prompts = @ + 1]

\* ErrSessionExpired: a new ticket, and the attempts start over.
TicketRenewed ==
  \E k \in Tickets :
    /\ Stage("reverify")
    /\ VerifyToTicket(flow.nonce, k)
    /\ NextPrompt([flow EXCEPT !.ticket = k, !.attempts = 0])
    /\ UNCHANGED <<cache, token, wrong, mislaid>>

\* Either half can fail; during a prompt that is fatal too.
AuthenticationFails ==
  /\ flow.at \in {"verify", "reverify"}
  /\ VerifyFails(flow.nonce)
  /\ Enter("failed")
  /\ UNCHANGED <<cache, token, wrong, mislaid>>

-----------------------------------------------------------------------------
\* The PIN prompt and its validator.

PromptOpen == Stage("prompt") /\ flow.prompts < MaxTTYIterations

\* Unlock is refused by CheckPINRateLimit: ErrRateLimited, an attempt.
SubmitTooSoon ==
  /\ PromptOpen
  /\ RateLimited
  /\ NextPrompt([flow EXCEPT !.attempts = @ + 1])
  /\ UNCHANGED <<vars, cache, token, wrong, mislaid>>

SubmitPIN ==
  \E h \in Handlers, p \in PINs :
    /\ PromptOpen
    /\ UnlockCall(h, flow.ticket, p)
    /\ flow' = [flow EXCEPT !.at = "wait", !.slot = h, !.attempts = @ + 1]
    /\ UNCHANGED <<cache, token, wrong, mislaid>>

\* The user gives up, or the loop has run maxTTYIterations times.
PromptEnds ==
  /\ Stage("prompt")
  /\ Enter("failed")
  /\ UNCHANGED <<vars, cache, token, wrong, mislaid>>

Waiting(h) == Stage("wait") /\ flow.slot = h

\* The server works on the call.
UnlockProceeds ==
  \E h \in Handlers :
    /\ Waiting(h)
    /\ \/ UnlockRedeem(h) /\ (Redeeming(h))' /\ flow' = [flow EXCEPT !.expires = now + SessionTTL]
       \/ (UnlockRead(h) \/ UnlockRecord(h)) /\ UNCHANGED flow
    /\ UNCHANGED <<cache, token, wrong, mislaid>>

\* Every error of RedeemUnlockTicket is Unauthenticated, the full table too:
\* ErrSessionExpired, and the client authenticates again.
TicketNotAccepted ==
  \E h \in Handlers :
    /\ Waiting(h)
    /\ UnlockRedeem(h) /\ ~(Redeeming(h))'
    /\ Enter("reauth")
    /\ UNCHANGED <<cache, token, wrong, mislaid>>

\* PermissionDenied is fatal from the third attempt on; FailedPrecondition is.
PINNotAccepted ==
  \E h \in Handlers :
    /\ Waiting(h)
    /\ UnlockRevoke(h)
    /\ wrong' = IF call[h].read = None THEN wrong ELSE wrong + 1
    /\ IF call[h].read = None \/ flow.attempts >= 3 THEN Enter("failed") ELSE NextPrompt(flow)
    /\ UNCHANGED <<cache, token, mislaid>>

Unlocked ==
  \E h \in Handlers :
    /\ Waiting(h)
    /\ UnlockGrant(h)
    /\ CacheSession(call[h].token, flow.expires)
    /\ Enter("ready")
    /\ UNCHANGED <<wrong, mislaid>>

-----------------------------------------------------------------------------
\* The command itself.

\* Its RPCs go through the interceptor; nothing reacts to Unauthenticated.
UseToken ==
  /\ Stage("ready")
  /\ CheckToken(token)
  /\ Enter(IF ValidToken(token) THEN "done" ELSE "denied")
  /\ UNCHANGED <<cache, token, wrong, mislaid>>

\* The command ends, or is killed wherever it is; another one starts.
NextCommand ==
  /\ ~Stage("start")
  /\ flow' = Start
  /\ token' = None
  /\ wrong' = 0
  /\ UNCHANGED <<vars, cache, mislaid>>

\* sekeve init --force
ClearSession ==
  /\ Stage("start")
  /\ cache.token # None
  /\ cache' = NoCache
  /\ UNCHANGED <<vars, token, flow, wrong, mislaid>>

\* Calls of others that change the PIN, and those of a command that is gone.
OtherCalls ==
  /\ \/ \E h \in Handlers, t \in Tokens, p, q \in PINs : SetPINCall(h, t, p, q)
     \/ \E h \in Handlers :
          /\ ~Waiting(h)
          /\ HandlerStep(h)
  /\ mislaid' = mislaid \cup (granted' \ granted)
  /\ UNCHANGED <<cache, token, flow, wrong>>

\* The server stops and starts.  The client's connection has no keepalive and its call
\* no deadline (client.go:31): a command that waits for an answer goes on waiting, and
\* no handler has its call any more.
ServerRestarts ==
  /\ Restart
  /\ flow' = IF Stage("wait") THEN [flow EXCEPT !.slot = None] ELSE flow
  /\ UNCHANGED <<cache, token, wrong, mislaid>>

\* When the connection reports the loss, if it ever does: the default case, fatal.
CallLost ==
  /\ Stage("wait")
  /\ flow.slot = None
  /\ Enter("failed")
  /\ UNCHANGED <<vars, cache, token, wrong, mislaid>>

TimePasses == (Sweeper \/ Clock) /\ UNCHANGED clientVars

ClientInit ==
  /\ Init
  /\ cache = NoCache
  /\ token = None
  /\ flow = Start
  /\ wrong = 0
  /\ mislaid = {}

ClientNext ==
  \/ UseCachedSession \/ NoCachedSession \/ RequestChallenge
  \/ LoggedIn \/ PINRequired \/ TicketRenewed \/ AuthenticationFails
  \/ SubmitTooSoon \/ SubmitPIN \/ PromptEnds
  \/ UnlockProceeds \/ TicketNotAccepted \/ PINNotAccepted \/ Unlocked
  \/ UseToken \/ NextCommand \/ ClearSession
  \/ OtherCalls \/ ServerRestarts \/ CallLost \/ TimePasses

ClientSpec == ClientInit /\ [][ClientNext]_allVars

-----------------------------------------------------------------------------
\* Properties.

\* The cache only ever holds a token the server gave this client after its PIN,
\* and never keeps it longer than the server does.
CacheFaithful ==
  cache.token # None =>
    /\ cache.token \in granted \ mislaid
    /\ cache.token \in DOMAIN sessions => cache.expiresAt <= sessions[cache.token]

\* Every wrong PIN of a prompt cost a ticket of its own, and so a challenge
\* answered with the GPG key.
WrongPINsCostTickets ==
  wrong <= Cardinality({k \in Tickets \cap DOMAIN origin : k \notin DOMAIN unlockTickets})

\* auth.go:89 ends the prompt with "too many failed PIN attempts" at three:
\* no prompt goes on after a third wrong PIN.
RetryLimit == wrong >= 3 => flow.at \in {"failed", "start"}
=============================================================================
