-------------------------------- MODULE Import --------------------------------
(***************************************************************************)
(* `sekeve import bitwarden` (internal/adapters/cli/client/import.go and   *)
(* bitwarden.go): the export is read, with --force the vault is wiped, the *)
(* items are classified and deduplicated, and a pool of workers adds them. *)
(*                                                                         *)
(* A call can fail with or without having reached the server, the command  *)
(* can be interrupted (without a terminal on stderr the context is         *)
(* cancelled and the import goes on to its end) or die (a kill, or Ctrl+C  *)
(* at the spinner, which returns from runImportWithSpinner without a       *)
(* result), and it can be run again.                                       *)
(***************************************************************************)
EXTENDS Integers, Sequences, FiniteSets

CONSTANTS
  Export,         \* the items of the export, in their order
  Others,         \* the envelopes other clients store, in an order of their own
  Existing,       \* those of them, by number, that are stored before
  Removable,      \* bound: the entries other clients may delete
  Workers,        \* importWorkers
  MaxRuns         \* bound: how often the command is run

ASSUME WorkersAssumption == Workers \in Nat \ {0}

ASSUME ExportAssumption ==
  /\ Len(Export) \in Nat /\ DOMAIN Export = 1..Len(Export)
  /\ Existing \subseteq DOMAIN Others
  /\ MaxRuns \in Nat

VARIABLES
  vault,      \* the ids of the entries the server has
  stored,     \* history: the ids of the entries it has ever stored
  late,       \* history: requests given up without an answer
  stage,      \* where the main goroutine is
  run,        \* how often the command was started
  force,      \* its --force flag
  cancelled,  \* the context is done
  doomed,     \* the ids wipeEntries has listed and not yet deleted
  listed,     \* history: the ids it had listed
  counts,     \* importResult
  queue,      \* the channel: the items no goroutine has taken
  pool,       \* how many goroutines are left
  adding      \* the items whose AddEntry has not returned

vaultVars == <<vault, stored, late>>
wipeVars  == <<doomed, listed>>
workVars  == <<queue, pool, adding>>
vars == <<vaultVars, stage, run, force, cancelled, wipeVars, counts, workVars>>

Ended  == {"failed", "complete", "dead"}
Stages == Ended \cup {"start", "export", "connect", "wipe_list", "wipe", "list", "work"}
Items  == DOMAIN Export

\* Ids are random and new. Here an entry's is who asked for it: a run and the item,
\* or 0 and the number of another client's envelope.
Ids == ((1..MaxRuns) \X Items) \cup ({0} \X DOMAIN Others)

NoCounts == [imported |-> 0, duplicates |-> 0, failed |-> 0, unsupported |-> 0, invalid |-> 0]

TypeOK ==
  /\ vault \subseteq stored /\ stored \subseteq Ids /\ late \subseteq Ids
  /\ stage \in Stages /\ run \in 0..MaxRuns /\ force \in BOOLEAN /\ cancelled \in BOOLEAN
  /\ doomed \subseteq listed /\ listed \subseteq stored
  /\ \A c \in DOMAIN counts : counts[c] \in 0..Len(Export)
  /\ queue \subseteq Items /\ adding \subseteq Items \ queue
  /\ pool \in 0..Workers /\ Cardinality(adding) <= pool

-----------------------------------------------------------------------------
\* bitwarden.go, and the keys duplicates are recognised by.

isImportableItem(item) == item.name # <<>> /\ item.type \in {"login", "note"}

\* An item without a login object has neither site nor username.
MapToEnvelope(item) ==
  IF item.type = "login"
    THEN [type |-> "login", name |-> item.name, site |-> item.site, username |-> item.username]
    ELSE [type |-> item.type, name |-> item.name]

EnvelopeOf(id) == IF id[1] = 0 THEN Others[id[2]] ELSE MapToEnvelope(Export[id[2]])

\* The parts are joined with colons, and sites have colons of their own. A login
\* without Meta goes by its name.
deduplicationKey(e) ==
  IF e.type = "login" /\ "site" \in DOMAIN e
    THEN <<"login", ":">> \o e.site \o <<":">> \o e.username
    ELSE <<e.type, ":">> \o e.name

KeyOf(i) == deduplicationKey(MapToEnvelope(Export[i]))

importable == {i \in Items : isImportableItem(Export[i])}

\* Mutant: an item is compared with the vault only, not with the items before it.
NewItemsByVault(seen) == {i \in importable : KeyOf(i) \notin seen}

\* The items left to import: importable, and the first with a key not seen yet.
NewItems(seen) ==
  {i \in importable : KeyOf(i) \notin seen \cup {KeyOf(j) : j \in importable \cap 1..i - 1}}

Classified(seen) ==
  LET blank == {i \in Items : Export[i].name = <<>>} IN
  [NoCounts EXCEPT !.duplicates  = Cardinality(importable) - Cardinality(NewItems(seen)),
                   !.unsupported = Cardinality(Items \ (importable \cup blank)),
                   !.invalid     = Cardinality(blank)]

-----------------------------------------------------------------------------
\* The server, and its other clients.

Store(id) == vault' = vault \cup {id} /\ stored' = stored \cup {id}

OtherAdds ==
  /\ \E id \in ({0} \X DOMAIN Others) \ stored : Store(id)
  /\ UNCHANGED <<late, stage, run, force, cancelled, wipeVars, counts, workVars>>

OtherDeletes ==
  /\ \E id \in vault \cap Removable : vault' = vault \ {id}
  /\ UNCHANGED <<stored, late, stage, run, force, cancelled, wipeVars, counts, workVars>>

\* A request whose caller has given up or died reaches the server all the same.
LateAdd ==
  /\ \E id \in late \ stored : Store(id)
  /\ UNCHANGED <<late, stage, run, force, cancelled, wipeVars, counts, workVars>>

-----------------------------------------------------------------------------
\* runImportBitwarden up to the import proper. A call fails under a context that is done.

GoTo(s) == stage' = s

ForgetRun ==
  /\ cancelled' = FALSE
  /\ doomed' = {} /\ listed' = {} /\ counts' = NoCounts
  /\ queue' = {} /\ pool' = 0 /\ adding' = {}

\* The command is started, for the first time or again.
Start ==
  /\ stage \in Ended \cup {"start"} /\ run < MaxRuns
  /\ run' = run + 1
  /\ force' \in BOOLEAN
  /\ GoTo("export")
  /\ ForgetRun
  /\ UNCHANGED vaultVars

\* --file, or bw unlock, export and lock; no file, no export, or an encrypted one.
ReadExport ==
  /\ stage = "export"
  /\ GoTo("connect") \/ GoTo("failed")
  /\ UNCHANGED <<vaultVars, run, force, cancelled, wipeVars, counts, workVars>>

ConnectAndAuth ==
  /\ stage = "connect"
  /\ \/ ~cancelled /\ GoTo(IF force THEN "wipe_list" ELSE "list")
     \/ GoTo("failed")
  /\ UNCHANGED <<vaultVars, run, force, cancelled, wipeVars, counts, workVars>>

WipeList ==
  /\ stage = "wipe_list"
  /\ \/ ~cancelled /\ doomed' = vault /\ listed' = vault /\ GoTo("wipe")
     \/ UNCHANGED wipeVars /\ GoTo("failed")
  /\ UNCHANGED <<vaultVars, run, force, cancelled, counts, workVars>>

\* Mutant: an entry that cannot be deleted is skipped, whatever the error.
WipeEntrySkipped ==
  /\ stage = "wipe"
  /\ \E id \in doomed :
       /\ doomed' = doomed \ {id}
       /\ vault' \in {vault, vault \ {id}}
  /\ UNCHANGED <<stored, late, stage, run, force, cancelled, listed, counts, workVars>>

\* One DeleteEntry of wipeEntries: deleted, not found any more, or an error, with
\* the entry deleted or not, which ends the command.
WipeEntry ==
  /\ stage = "wipe"
  /\ \E id \in doomed :
       /\ doomed' = doomed \ {id}
       /\ \/ ~cancelled /\ vault' = vault \ {id} /\ UNCHANGED stage
          \/ vault' \in {vault, vault \ {id}} /\ GoTo("failed")
  /\ UNCHANGED <<stored, late, run, force, cancelled, listed, counts, workVars>>

-----------------------------------------------------------------------------
\* processImport.

\* Classification, and the pool: min(importWorkers, total) goroutines.
Process(seen) ==
  LET new == NewItems(seen) IN
  /\ counts' = Classified(seen)
  /\ queue' = new
  /\ pool' = IF Workers < Cardinality(new) THEN Workers ELSE Cardinality(new)
  /\ GoTo(IF new = {} THEN "complete" ELSE "work")
  /\ UNCHANGED <<vaultVars, run, force, cancelled, wipeVars, adding>>

\* --force: everything listed is gone, nothing is looked up.
ProcessAfterWipe == stage = "wipe" /\ doomed = {} /\ Process({})

ListExisting ==
  /\ stage = "list" /\ ~cancelled
  /\ Process({deduplicationKey(EnvelopeOf(id)) : id \in vault})

ListFails ==
  /\ stage = "list"
  /\ GoTo("failed")
  /\ UNCHANGED <<vaultVars, run, force, cancelled, wipeVars, counts, workVars>>

SomeoneIdle == stage = "work" /\ Cardinality(adding) < pool

\* The channel holds the new items in the order of the export.
IsNext(i) == i \in queue /\ \A j \in queue : i <= j

\* The select takes an item, and AddEntry is on its way.
Take ==
  /\ SomeoneIdle /\ ~cancelled
  /\ \E i \in Items : IsNext(i) /\ adding' = adding \cup {i} /\ queue' = queue \ {i}
  /\ UNCHANGED <<vaultVars, stage, run, force, cancelled, wipeVars, counts, pool>>

\* The select takes an item though the context is done: gpg is not started.
TakeCancelled ==
  /\ SomeoneIdle /\ cancelled
  /\ \E i \in Items : IsNext(i) /\ queue' = queue \ {i}
  /\ counts' = [counts EXCEPT !.failed = @ + 1]
  /\ UNCHANGED <<vaultVars, stage, run, force, cancelled, wipeVars, pool, adding>>

\* Mutant: the channel is never closed.
LeaveCancelled ==
  /\ SomeoneIdle /\ cancelled
  /\ pool' = pool - 1
  /\ UNCHANGED <<vaultVars, stage, run, force, cancelled, wipeVars, counts, queue, adding>>

\* Mutant: a goroutine that is adding leaves when the context is done.
LeaveBusy ==
  /\ stage = "work" /\ pool > 0
  /\ queue = {} \/ cancelled
  /\ pool' = pool - 1
  /\ UNCHANGED <<vaultVars, stage, run, force, cancelled, wipeVars, counts, queue, adding>>

\* The channel is closed and empty, or the context is done.
Leave ==
  /\ SomeoneIdle
  /\ queue = {} \/ cancelled
  /\ pool' = pool - 1
  /\ UNCHANGED <<vaultVars, stage, run, force, cancelled, wipeVars, counts, queue, adding>>

\* CreateEntry is applied by the server.
Create(i) ==
  /\ i \in adding /\ <<run, i>> \notin stored
  /\ Store(<<run, i>>)
  /\ UNCHANGED <<late, stage, run, force, cancelled, wipeVars, counts, workVars>>

AddSucceeds(i) ==
  /\ i \in adding /\ <<run, i>> \in stored
  /\ counts' = [counts EXCEPT !.imported = @ + 1]
  /\ adding' = adding \ {i}
  /\ UNCHANGED <<vaultVars, stage, run, force, cancelled, wipeVars, queue, pool>>

\* Mutant: a failed call is not counted.
AddFailsUncounted(i) ==
  /\ i \in adding
  /\ late' = late \cup ({<<run, i>>} \ stored)
  /\ adding' = adding \ {i}
  /\ UNCHANGED <<vault, stored, stage, run, force, cancelled, wipeVars, counts, queue, pool>>

\* gpg fails, or the call does: before the server has applied it, or after.
AddFails(i) ==
  /\ i \in adding
  /\ counts' = [counts EXCEPT !.failed = @ + 1]
  /\ late' = late \cup ({<<run, i>>} \ stored)
  /\ adding' = adding \ {i}
  /\ UNCHANGED <<vault, stored, stage, run, force, cancelled, wipeVars, queue, pool>>

\* wg.Wait returns, and the summary is printed.
Complete ==
  /\ stage = "work" /\ pool = 0
  /\ GoTo("complete")
  /\ UNCHANGED <<vaultVars, run, force, cancelled, wipeVars, counts, workVars>>

-----------------------------------------------------------------------------
Running == stage \notin Ended \cup {"start"}

\* An interrupt cancels the context (root.go); nothing ends by itself.
Interrupt ==
  /\ Running /\ ~cancelled
  /\ cancelled' = TRUE
  /\ UNCHANGED <<vaultVars, stage, run, force, wipeVars, counts, workVars>>

\* The process is gone, and with it the callers of what is on its way. Ctrl+C at
\* the spinner ends the same way: the result it returns is nil.
Die ==
  /\ Running
  /\ GoTo("dead")
  /\ ForgetRun
  /\ late' = late \cup (({run} \X adding) \ stored)
  /\ UNCHANGED <<vault, stored, run, force>>

Init ==
  /\ vault = {0} \X Existing /\ stored = {0} \X Existing /\ late = {}
  /\ stage = "start" /\ run = 0 /\ force = FALSE /\ cancelled = FALSE
  /\ doomed = {} /\ listed = {} /\ counts = NoCounts
  /\ queue = {} /\ pool = 0 /\ adding = {}

Main ==
  \/ ReadExport \/ ConnectAndAuth
  \/ WipeList \/ WipeEntry \/ ProcessAfterWipe \/ ListExisting \/ ListFails
  \/ Complete

Loop   == Take \/ TakeCancelled \/ Leave
Add(i) == Create(i) \/ AddSucceeds(i) \/ AddFails(i)

Next ==
  \/ Start \/ Main \/ Loop \/ Interrupt \/ Die
  \/ \E i \in Items : Add(i)
  \/ OtherAdds \/ OtherDeletes \/ LateAdd

\* The goroutines run on, and every call returns, with an answer or an error.
Spec == Init /\ [][Next]_vars /\ WF_vars(Main) /\ WF_vars(Loop) /\ \A i \in Items : WF_vars(Add(i))

-----------------------------------------------------------------------------
\* Properties.

Counted == counts.imported + counts.duplicates + counts.failed + counts.unsupported + counts.invalid

\* The summary of a run nobody interrupted accounts for every item, and what the server
\* has stored for the run is what it calls imported and, of what it calls failed,
\* any part: a failed item can be in the vault, an imported one cannot be missing
\* (import.go:369-374).
CountsFaithful ==
  stage = "complete" =>
    /\ LET mine == {id \in stored : id[1] = run}
       IN  counts.imported <= Cardinality(mine) /\ Cardinality(mine) <= counts.imported + counts.failed
    /\ ~cancelled => Counted = Len(Export)

\* Running the import again, after any failure, kill or interrupt, leaves no two imported
\* entries with one key, except where a request was applied after its caller had
\* given it up (import.go:292-334, 369).
NoTwins ==
  \A x, y \in {id \in vault \ late : id[1] > 0} :
    deduplicationKey(EnvelopeOf(x)) = deduplicationKey(EnvelopeOf(y)) => x = y

\* A forced run stores nothing while an entry its wipe has listed is still in the vault: a
\* wipe that fails half-way is not followed by an import (import.go:141-146, 198-216).
WipeFirst ==
  force /\ (\E i \in Items : <<run, i>> \in stored) => listed \cap vault = {}

\* An import ends, also when calls fail, goroutines outnumber the items or the context
\* is done before the queue is empty (import.go:355-383).
ImportEnds == Running ~> ~Running

\* "Import complete" (import.go:160) accounts for every item of the export.
ImportComplete == stage = "complete" => Counted = Len(Export)
=============================================================================
