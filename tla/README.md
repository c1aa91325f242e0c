# Sekeve in TLA+

Sekeve keeps GPG-encrypted entries (logins, secrets, notes) on a gRPC server and
serves them to a CLI and a GTK overlay. The server authenticates a client by a
GPG challenge and, when a PIN is configured, by an *unlock ticket* that is
redeemed together with the PIN. This directory models the parts of the program
that keep state across calls, goroutines, transactions and restarts, checks them
with TLC on small instances, and proves the central properties of the
authentication, the storage, the clients, the overlay and the import with TLAPS for every
instance.

## 1. Inventory

Paths are relative to `src/`; `A` is `internal/adapters`.

| Part | State it keeps | Operations | Talks to |
|---|---|---|---|
| Authentication manager, `A/grpc/auth.go` | nonces, unlock tickets and sessions with their expiry; `pinConfigured`; failure counter and lockout; one mutex | GenerateChallenge, VerifyNonce, RedeemUnlockTicket, validateToken, RevokeSession, InvalidateAllSessions, SweepExpired, RecordPINFailure, ResetPINFailures, SetPINConfigured | called by every RPC handler and the sweeper goroutine |
| gRPC server, `A/grpc/server.go` | none of its own; one goroutine per call, whose locals matter between sections | Authenticate, VerifyChallenge, Unlock, SetPIN, HasPIN, entry RPCs behind an interceptor | manager, storage, crypto |
| Storage, `A/storage/bbolt.go` | bbolt file: `entries`, `index_type`, `auth` buckets | Create, Update, GetByID, List, DeleteByID, StorePINHash, GetPINHash, DeletePINHash, StoreAuthKey | called by handlers; bbolt serialises writers |
| Client authentication, `internal/app/auth.go`, `A/cli/cliconfig`, `A/grpc/client.go`, `A/config/viper.go`, `A/gui/pin/tty.go` | session cache file, token of the gRPC client, locals of the PIN validator | cached login, GPG login, PIN retries, deferred PIN for the overlay, session clearing | server over gRPC; one prompt at a time |
| GTK PIN prompt, `A/gui/pin/pin.go`, `A/gui/app.go` | attempt, timer goroutine, queued idle callbacks, result cell | submit, validate (goroutine), timeout, reset, Escape | the validator above; the omnibox or its own window |
| Omnibox, `A/gui/omnibox/*.go`, `A/gui/widget/tabbar.go` | current mode, category, view, loaded entries, detail buffers, visible widgets, focus ring | mode and category switches, filter, select, open, copy, save, add, Escape | vault service, from goroutines; results come back as idle callbacks |
| Vault service and commands, `internal/domain/service/vault.go`, `A/cli/client/{add,get,dmenu,edit,rm,list}.go` | none between calls; an edit keeps a copy of the entry while its editor is open | encrypt/decrypt around the entry RPCs; resolve a search to one entry | server, crypto |
| Import, `A/cli/client/{import,bitwarden}.go` | known keys, counters, a channel of items, a pool of goroutines | export, wipe, classify, deduplicate, add in parallel | vault service, bw, progress UI in a goroutine |
| Search, `internal/domain/service/search.go`, `pkg/fuzzysearch` | none | filter, score, sort | commands, omnibox |
| Secret injection, `A/cli/client/{inject,resolve,dotenv}.go` | none | name to entry, environment merge | vault service |
| GPG, notifications, logging, styles, layer shell, clipboard, onboarding | files or a terminal | I/O | external programs |

### What is hard here

* Handlers of concurrent RPCs interleave between the mutex sections of the
  manager and the transactions of the store. `Unlock` adds a session before it
  verifies the PIN; `SetPIN` stores a PIN, then sets the flag, then drops the
  sessions.
* The server may stop between any two of those steps, and everything but the
  bbolt file is then gone.
* Tickets, nonces, sessions, the lockout and the client's cache expire on clocks
  nobody synchronises with the calls in flight.
* Storage transactions touch several keys; failures and crashes fall between.
* The overlay runs loads, saves and PIN validations in goroutines and applies
  their results later, in callbacks that may find another view on the screen.
* Entries have no version: a command or a form reads one, waits for its user and
  writes it back, while others change or delete it.
* An import adds in parallel, and any of its calls can fail after the server has
  applied it; the next run must then recognise what is there.

`PROJECT.json` lists these hazards line by line with the properties that guard
against each of them.

### What correctness means

| Part | Properties |
|---|---|
| Manager | a credential buys one thing once; the session table never outgrows its cap; the lockout only moves forward until it is reset, and never longer than its cap |
| Server | no session of a replaced PIN is usable after the replacement; a session whose PIN is not verified is never known to a client and never left behind; the PIN flag agrees with the store, also after a crash; the lock is outrun by concurrency at most, never by repetition |
| Storage | operations are atomic under failure and crash; the type index is exact but for rows of entries that were unreadable when they were deleted, and those mislead no list; a PIN record is whole |
| Client | the cache holds only what the server granted, no longer than the server does; wrong PINs cost a GPG round trip each |
| GTK prompt | the prompt succeeds only for an accepted PIN; the timer gives up only after inactivity, and takes no PIN back that was accepted before it looked (`pin.go:142-146`); the prompt ends |
| Omnibox | one view with its bars and its focus ring, whichever callback switched to it; a row stands for the entry it shows; the rows come to rest at the best of what was loaded for the category and the query |
| Vault commands, forms, injection | whoever wrote last, an entry is encrypted once and its name and metadata tell of its payload; no secret is stored, shown or injected for another entry; an ambiguous search is never resolved unasked; what was deleted stays deleted |
| Import | the summary is true; repeated runs make no duplicates, except by requests that arrive after they were given up; a wipe that fails half-way is not followed by an import; the import ends |
| Search | the hits are exactly the texts in which every word of the query is a subsequence, best first |

## 2. Modules

| Module | Models | Extends |
|---|---|---|
| `AuthManager` | `auth.go`, one action per method and outcome | |
| `SekeveServer` | the PIN-aware handlers of `server.go`, one action per critical section, restarts | `AuthManager` |
| `ClientSession` | the client's flow from cached token to granted session, driving the server's handlers | `SekeveServer` |
| `VaultStore` | abstract: what the storage port promises | |
| `BboltStore` | `bbolt.go`, one action per bucket operation, failures and crashes | refines `VaultStore` |
| `PINPrompt` | `pin.go` with the main loop of `gui/app.go`: both prompts, their validating and timer goroutines | |
| `FuzzySearch` | `pkg/fuzzysearch`: the score of a word, the best matches of a query | |
| `SearchView` | `search.go` of the omnibox: loads, category filter, query, debounce, rows | `FuzzySearch` |
| `Omnibox` | views, tab bars, forms and focus ring around the list; goroutines that open, copy and save | `SearchView` |
| `VaultEntries` | entries as the clients know them: envelope and payload, names, encryption, search, fields | |
| `VaultClients` | add, get, dmenu --copy, edit, rm, inject and the forms of the omnibox on one vault | `VaultEntries` |
| `Import` | `import.go`, `bitwarden.go`: an import, its goroutines and its failures, run again | |
| `*Proofs` | theorems of the module they are named after | that module, `TLAPS` |
| `MC*` | bounds and symmetry for TLC | that module |

**AuthManager.** Every method of the manager holds its mutex from first read to
last write, so a method is one step. Methods with several outcomes have one
action for each (`NonceToTicket`, `NonceToSession`, `NonceToNothing`,
`NonceRefused`). A Go map with expiries is a function; `Live` is
`!now.After(expiresAt)`. Identifiers come from 32 random bytes, so a new one has
never been issued (`issued`); `origin` remembers what each was issued for. Both
are history variables.

**SekeveServer.** `call[h]` holds the locals of the handler in slot `h` and the
label of its next section, named after the handler and what it does next
(`u_redeem`, `u_read`, `u_record`, `u_revoke`, `u_grant`; `s_read`, `s_check`,
`s_record`, `s_reset`, `s_store`, `s_configure`, `s_invalidate`). Single-section handlers
are single actions. `Restart` forgets all but `pinStored`. History: `granted`
(tokens sent to a client), `pinSerial` and `vouched` (which PIN a granted token
was given for), `guesses` (wrong PINs recorded while locked). A PIN hash accepts
exactly its own PIN; validation of key identifiers and PIN format, and request
errors before any state changes, are stuttering.

**ClientSession.** The client starts handlers of the server and reacts to the
step that ends them. `OtherCalls` are the calls that can end its session or race its PIN: `SetPIN` with
any token, and what is left of the calls of a command that is gone. Logins of others are
not among them; they take further identifiers, as this user's earlier commands do, and meet each
other in the runs of the server. `ServerRestarts` leaves a command waiting whose handler is
gone, and `CallLost` is the transport reporting that, whenever it does: the connection has no
keepalive and the call no deadline (client.go:31), so nothing says that every submission is answered. `app/auth.go` and
`cliconfig.go` hold the same validator twice, once with an immediate and once
with a deferred prompt; the model is both. The prompt is the terminal one.

**VaultStore, BboltStore.** `disk` is the committed state, `work` the private copy of
the one write transaction; `Commit` installs it, `Rollback` and `Reopen` drop
it. Readers see `disk`. bbolt itself (exclusive writer, snapshot reads, atomic
commit) is external. Entries are stored as JSON; `damaged` are those that no longer unmarshal, or did
not when they were deleted. bbolt locks its file, so that happens only while the process is
down (`Reopen`). `UpdateGet` fails on such an entry, `List` fails when it meets one, and `DeleteByID` deletes it
and leaves its index row (bbolt.go:265-266): `IndexExact` allows these rows and no others, and
says that no list is misled by them. For `VaultStore` the vault is what was stored: a damaged entry
can be deleted and not updated.

**PINPrompt.** GTK callbacks run on one thread, one at a time, so a callback is one
action and `idle` is the queue filled by `glib.IdleAddOnce`. A goroutine goes from
one channel or timer operation to the next; `watch` names where the timer goroutine
is. Parked in a `select` it takes the first event that comes up; coming back to the
`select` it takes any that is ready, the random choice of Go. `embedded` chooses between
`PINPane`, which closes `doneCh` before it queues a final result, and `PromptGUI`,
which does not. History: `idleFor`, `accepted`.

**SearchView, Omnibox.** User input, timers and queued callbacks are steps of the
GTK thread; `loadEntries`, `openDetail`, `CopySelected` and `doSave` are goroutines in slots
(`Loads`, `Tasks`) that talk to the server and queue a callback, which may find
another view on the screen. `timers` holds GTK's own delay of `search-changed` and the
debounce timer; an older debounce version is a queued callback that is dropped.
`matches` are indices of `entries`, ranked; a row stands for one of those, or, when there
are none (the slice is nil), for an entry itself (`EntryIndex`). `shown` is the visible flag of every
widget the mode switches touch; `ring` tells for which view and form the focus ring
was built. The process ends with the overlay (`over`).
`SearchView` has no run of its own: `Omnibox` composes it, and its properties are checked there.

**FuzzySearch.** The scoring loop as a recursive function over the characters of the
target (`Loop`), and `Search` on top of it: the scores of a query's words (`Scores`, `Total`), the
items every word matches (`Matches`), and their order (`Better`, listed by `Ordered`). Go's
`sort.Slice` promises no order among equal scores and the model takes that of the list;
neither `RowsSettle` nor `SearchFinds` depends on it. `Parts` takes the elements
of a sequence at given indices, for the filters that append in a loop. `Fits` states what a match is without the loop (every
word a subsequence of the name); `RowsSettle` compares the rows on the screen with it.
An exact match scores 1000; only a query of more than sixty characters could score more.

**VaultEntries, VaultClients.** A secret value is known by the entry it was typed for, a
payload by its fields and the number of layers of encryption. A command is a `job` that
stops wherever the code waits for the server or for its user: `shown` is what the user
sees or has in the editor, `child` is the process that inject starts. `opening` are details fetched
for the omnibox whose callback has not run, `saving` what its saves are writing. A note
behaves like a secret and is one. List calls that only print are left out. `Encrypt` returns
an envelope of its own, where vault.go:36 and 102 write the ciphertext into the caller's; no caller
uses its envelope for another write, so `EntriesWhole` is about what is read and written back and
says nothing of an envelope written twice.

**Import.** `stage` is the main goroutine, `queue` the channel, `pool` the goroutines
that have not left, `adding` the items whose call is out. `Create` is the server applying
a call, `AddSucceeds` and `AddFails` its answer, `late` what was given up and may still
arrive (`LateAdd`). `Interrupt` cancels the context; `Die` is a kill, or Ctrl+C at the
spinner. Other clients add and delete meanwhile. Keys are sequences, so that a colon
inside a site and the colons of `deduplicationKey` can meet.

## 3. Runs

| Run | Question | Bounds |
|---|---|---|
| `server` | Do credentials, sessions, the lockout and the PIN survive every interleaving of two calls with restarts? Is every section one method of the manager or none? | 2 handlers, 2 nonces/tickets/tokens, 2 PINs, 3 ticks, 3 stored PINs |
| `server_live` | Do sessions of an old PIN end? | 2 handlers, 1 tick |
| `set_pin_race` | violation: two first-time `SetPIN` calls | 2 handlers |
| `store` | Is the index exact and every list right, whatever is damaged, and does the store implement `VaultStore`? | 2 ids, 2 types and "unspecified", 2 concurrent calls |
| `client` | Is the cache faithful, and are retries paid for? | 2 handlers, one client, 2 ticks, 2 stored PINs |
| `pin_retries` | violation: the retry limit | 3 of each identifier, 2 ticks |
| `pin_prompt` | Do submissions, results, the timer, Escape and a cancelled context meet without harm, and does the prompt end? | 2 validators, timeout of 2 ticks, both prompts |
| `omnibox` | Do views, bars, focus and rows agree after any interleaving of input, loads, saves and timers? | 3 entries of 2 types, names and queries over 3 characters, 2 rows at most, 1 load, 1 task, 1 queued callback; 2 entries stored at first |
| `reload_order` | violation: the reload after a save | as `omnibox`, 2 loads, whatever is stored at first |
| `import` | Is the summary true, are there no duplicates, does it end, whatever fails? | 6 items of every kind, 2 goroutines, 2 runs, 2 entries of others |
| `import_cancel` | violation: the summary of an interrupted import | as `import`, 1 run |
| `vault_clients` | Do commands and forms that race on one vault keep its entries whole and apart? | an imported login and one more entry, one command, the omnibox with one save |

Why these bounds are enough to be interesting: two handlers are the smallest
number at which sections of different calls interleave, and every hazard of the
server is one between two calls. Three stored PINs allow a replacement of a
replacement. Two ids and two clients let a delete or an update of the same entry
meet an update. In the run of the vault one command and the omnibox are the two
that race: they read, wait and write in every order, and an entry is added, edited and
deleted under both. The export has two keys that only the colons make equal, one the vault already
holds, and items of each kind that is skipped; two goroutines and two
runs let a call fail in one and its item be met again in the other. Lifetimes of one tick and two or three ticks of time let
everything expire while a call is in flight, and outlive it. The lockout reaches the cap of
its back-off (base 1, cap 2) with the second failure. Three entries with a limit of two rows make
limit, category and query all cut something off; the run starts with two of them (`MCInit`)
and saves the third, and with the categories lists of every length occur. What is stored
at first is arbitrary in `reload_order` and in the theorems. The clock and the fresh identifiers
are finite; `now` and `pinSerial` are bounded in the MC modules' next-state relation
(`MaxTime`, `MaxSerial`), runs of an import by `MaxRuns`, what others delete during it
by `Removable`, queued callbacks and fetched entries of the omnibox by `MaxIdle` and
`MaxFlight`, and the texts a user types by the sets `Sites`, `Usernames`, `Names` and
`Queries`. The prompt's queue needs no bound.
`CHECK_DEADLOCK FALSE` is set where the system really stops: when the prompt's window
is closed and its goroutines have ended, when the overlay is closed, and when the last
run of an import is over. All other
runs check for deadlock.
Symmetry is declared over sets of interchangeable identifiers in runs without
liveness; action properties that compare only ages and counts are symmetric.

**Fairness.** Weak fairness is assumed of each handler's next section: the Go
scheduler keeps running a goroutine that is ready, and none of the sections waits for
anything but a mutex or bbolt's write lock, both held for a bounded time. No
fairness is assumed of users, clients, the clock, the sweeper or restarts. `PINPrompt`
assumes it of the goroutines' own steps, of the main loop and of time: `PromptEnds`
is about a timer. The server that validates a PIN may never answer there. `Import`
assumes it of its main goroutine, of its pool as a whole, and of each call that is out: gRPC
and gpg return, with an answer or an error. It assumes nothing of interrupts, of
other clients, or of a request that was given up.

### Findings

* `set_pin_race`: `SetPIN` reads the PIN record (server.go:308) and stores a new
  one (server.go:325) with nothing held in between; two calls that both found no PIN both
  store theirs, the second without the current PIN that server.go:302 requires.
  `PINChangeChecked` states what does hold.
* `pin_retries`: the server spends the ticket whatever the PIN, so the attempt
  after a wrong PIN re-authenticates and sets `attempts = 0`
  (app/auth.go:101). The prompt goes on after three wrong PINs.
  `WrongPINsCostTickets` states what does hold.
* `reload_order`: `loadEntries` keeps whatever list it got, whenever it got it
  (search.go:263). A load that was started before a save and answered late replaces
  the reload made for that save (omnibox.go:305), and the new entry disappears
  from the list. `RowsSettle` states what does hold.

* `import_cancel`: an interrupt without a terminal on stderr makes the goroutines leave
  with items still in the channel (import.go:362-363). Nothing counts those,
  no error is returned, and "Import complete" (import.go:160) is printed over
  counts that do not add up. `CountsFaithful` states what does hold.

Seen while modelling, and covered by no property because nothing promises otherwise
or the code cannot be reached:

* `switchToDetailView` hides both bars (omnibox.go:357-358) and `setMode` shows only the
  mode bar again (265-268), so after a detail view the category bar stays hidden and its
  categories are reached by keyboard only. `OneView` leaves it out.
* `SessionToken` (viper.go:80) goes by the local clock alone, `AuthenticateSession` uses the cached
  token without asking the server (app/auth.go:22-26), and nothing clears the cache when the
  server refuses it. After a restart or a change of the PIN, `dmenu --ensure-session` reports
  success (dmenu.go:45) and commands fail until the cached hour is over, though config.go:11
  promises the token "if still valid". `ClientSession` reaches the case (`denied`), which no
  property rules out; `CacheFaithful` states the other direction.
* Ctrl+C at the import's spinner ends the wait with a nil result (import.go:192), which
  the summary dereferences (160); the goroutines go with the process. `Import` takes
  it as `Die`.
* When `bw export` fails, `exportFromBitwardenCLI` returns without `bw lock` (import.go:274), although
  its comment says "The vault is re-locked after export." (223).
* The repository's README.md:164 shows the export as a positional argument; the command
  takes `--file`.
* Edits, in the editor and in the detail form, derive a login's name again from site
  and username, also for imported logins, whose name was the item's.

## 4. Proofs

All for every number of handlers, clients, identifiers, entries and PINs and every lifetime; the
assumptions are those named in the modules (`IdsAssumption`, `LimitsAssumption`,
`NoneAssumption`, `HandlersAssumption`, `StoreAssumption`, `TextsAssumption`,
`ClientsAssumption`, `IterationsAssumption`, `ExportAssumption`, `TypesAssumption`,
`LoginAssumption` and the like): distinct sentinels, positive lifetimes, an import that made its
envelopes as `bitwarden.go` does, finitely many ids (they are strings of a fixed length), and a
`MaxResults` that is positive (search.go:24 sets it to 20).

| Theorem | Argument |
|---|---|
| `AuthTypeCorrect`, `ServerTypeCorrect` | inductive by themselves; one step per action |
| `AuthCredentialsSpent` | identifiers in the tables are issued, and an origin never returns to them because new identifiers are not issued ones |
| `AuthSingleUse` | inductive with `CredentialsSpent`: what a new identifier is issued for was in a table until this step, so nothing had been issued for it before |
| `AuthSessionCap` | `AddSession` tests the cap on the swept table; every other step restricts it |
| `AuthLockoutBounded`, `AuthLockoutOnlyReset` | `Backoff` grows with the failures up to its cap (lemma); the lock is at most one back-off ahead of the clock |
| `ServerImplementsAuth` | every section of a handler is one action of `AuthNext` or leaves the manager alone, so the theorems above hold of the server |
| `ServerLimboTokens` | redeemed tokens are fresh, and granted only by the step that ends the call |
| `ServerNoOrphanSessions`, `ServerPinGate` | by `LimboTokens` and the labels that hold a half-done change |
| `ServerSessionsVouched`, `ServerGrantsVouched` | inductive invariant `PinGate /\ SessionsVouched /\ GrantsVouched /\ LimboTokens /\ ServerTypeOK`. `SessionsVouched` alone is not inductive: `UnlockGrant` publishes a session whose PIN was read earlier, and `GrantsVouched` says that the record is still the same or the session is gone; that in turn needs the token to be nobody else's (`LimboTokens`), and `NonceToSession` needs the flag to agree with the store (`PinGate`) |
| `BboltStoreProofs`: `TypeCorrect`, `IndexKept`, `ImplementsVault` | `IInv` says, for the label of the call that holds the write lock, what `work` is in terms of `disk` (`SoFar`): so far the entry is in and its row is not, the old row is out, and so on. Nothing about `disk` alone is inductive, because `Commit` replaces it by `work`; what is committed is the `Outcome` of the operation, and each outcome is one action of `VaultStore`. Ids on their way (`NewOK`) are in no bucket and belong to one call, which is why `Create` never overwrites; entries are never younger than the clock, which is why `updatedAt` never moves back. Everything but `Commit` and `Tick` stutters. `IndexKept` looks at the rows of entries that are stored or were readable when deleted (`Live`): those are exact whether the deletion of a damaged entry left its row (`Unindexed`) or not |
| `VaultClientsProofs`: `StoredWhole`, `SecretsStay`, `MatchesSole`, `DeletedStays`, `TypeCorrect` | `IInv` says of every envelope, stored, shown, in a form or on its way, that it was made for the entry it is with (`Made`), and has no layer of encryption before it is written and one after (`Plain`, `Stored`). `EntriesWhole` alone is not inductive: an edit writes back what it read earlier. `AddingOK` keeps ids on their way to `AddEntry` apart from those given out, so that an add never overwrites another's entry |
| `ServerGuessesBounded` | a step keeps the guesses and lets no call past the rate limit, or the lock is open after it, or it records the guess of a call that leaves `PastRateLimit` (`LockShape`); the first guess under a new lock is one of the handlers |
| `ServerPINChangeChecked` | `ReadsOK`: a `SetPIN` about to store has supplied the PIN it read or found none, and what it read is what is stored as long as the serial is the one it read |
| `ClientImplementsServer`, `ClientTypeCorrect` | every step of a command is a call, a handler's section or nothing to the server. That needs the command's locals to name a nonce that was issued and a ticket (`LocalsOK`): `VerifyChallenge` and `UnlockCall` are only made with those |
| `ClientCacheFaithful` | inductive with the server's `ServerInv`. The file is written with an expiry the client was told when the ticket was redeemed: `ExpiryKept` says that it is still the session's when the grant arrives, or the session is gone; a session never gets another expiry because its token is never issued again (`SessionsKept`). While a command waits, the handler of its call works on its own ticket, until a restart leaves the call without one (`Served`) |
| `ClientWrongPINsCostTickets` | `WrongPINsPaid`: the tickets spent (`Spent`) only grow, and while a call is checking a PIN one more of them has been paid than wrong PINs were answered |
| `PINPromptProofs`: `PromptTypeCorrect`, `PromptResultFaithful`, `PromptAcceptedIsKept` | one attempt is under way at most, in a goroutine, in the callback queue or decided (`OneAttempt`); a success in any of these places is one validate returned (`Accepted`); an accepted PIN that is not on its way to close `doneCh` has closed it (`Kept`) |
| `PromptTimeoutAfterInactivity` | `TimerOK`: what is left on the parked timer and the time since the last submission make up the timeout at least |
| `OmniboxProofs`: `OmniboxOneView`, `OmniboxTabsAgree`, `OmniboxRingFresh` | inductive together (`ViewsOK`): a callback switches view, bars and ring in one step, and the others touch none of them |
| `ScoreTells` | the loop of `Score` is greedy: after each character of the target it has matched the longest beginning of the query that occurs so far (`Greedy`), because the last character of an embedding is either the target's last or embedded before it (`EmbedsBefore`). The score counts every match at least once, so it is positive when the whole query was matched |
| `SearchFinds` | the hits are the items the query fits, by `ScoreTells` for each word; `Better` is a strict linear order on their matches (`MatchesOrdered`), and `Ordered` lists a finite set in such an order, each element once (`OrderedSorts`: the rank of an element is a bijection) |
| `OmniboxTypeCorrect`, `OmniboxRowsTell`, `OmniboxRowsSettle` | inductive invariant `ListOK`. `RowsSettle` speaks of quiet states only and is not inductive: `Filtered` and `Settled` say that entries, or matches and rows, are out of date only while the callback or the timer that rebuilds them is on its way, and `Dropped` that a keystroke discards no callback of a load. `RowsTell` needs what the rows were built from, stale or not (`Stand`); the details that are opened need `ViewTypes`. That what is rebuilt is the best of the list is `SearchFinds` |
| `ImportProofs`: `ImportTypeCorrect`, `ImportCountsFaithful` | `CountsOK`: every item is in a count, in the queue or with a goroutine; imported ones are in the store, and what is or may get there is no more than imported and failed together. The sets are counted with the lemmas on finite sets |
| `ImportNoTwins` | `KeysOK`: entries whose caller was told the truth have different keys, and an item still to be stored has a key none of them and no other such item has |
| `ImportWipesFirst` | `WipeOK`: what the wipe has listed and is in the vault is still `doomed`, and nothing is when the items' stage begins |

The provers cannot instantiate an induction theorem, whose parameter is an operator. Where an
induction cannot be avoided (`Loop`, `Total`), `Induction` states it over a set of numbers and is
proved from the well-foundedness of inclusion between finite sets (`Smallest`, `Least`). The
recursive functions are shown to satisfy their equations with `Iteration`: a function each of
whose values is given by the one before exists.

Every invariant and action property that a passing run checks is a theorem, but for the
liveness properties (`PromptEnds`, `ImportEnds`, `StaleSessionsEnd`), which stay with TLC:
fairness and ENABLED are beyond the prover. So do the four runs that exhibit a violation, of
which there is nothing to prove.

## 5. Not modelled

* GPG, bw and the child process of inject: external programs. A ciphertext is a number of
  layers around its fields, a decrypted challenge an opaque value.
* The entry RPCs as a whole: their token check is the interceptor in `SekeveServer`,
  their transaction is an operation of `BboltStore`; the two share no state.
* Starting and stopping the listener, `GracefulStop`: a stop is `Restart`.
* The commands that only read and print (list, search, dmenu --list), and the prompts of
  pin: its call is `SetPIN` in `SekeveServer`.
* Lines of a .env file and how they are merged with the environment: the references that result
  are a constant of `VaultClients`.
* A second press of Save before the first has ended, which adds an entry twice: both saves are
  steps of `VaultClients` and `Omnibox`, and nothing promises one entry.
* `OmniboxModeAdd` and `RestoreState`: nothing in the program uses them.
* `Next` and `Prev` of the focus ring and of the row selection beyond the bounds:
  index arithmetic.
* Onboarding and configuration: interactive input and file layout; only the clearing
  of the cached session is in `ClientSession`.
* Output, styles, notifications, clipboard, layer shell, logging, generated code, mocks.

## 6. Plan

Done, in this order because what goes wrong first costs most: authentication and
its proofs, storage, client, prompt, omnibox, import, vault clients, search, and the proofs
of all of them, what the list of the omnibox shows last.
