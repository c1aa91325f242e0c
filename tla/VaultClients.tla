---------------------------- MODULE VaultClients ----------------------------
(***************************************************************************)
(* The commands add, get, dmenu --copy, edit, rm and inject                *)
(* (internal/adapters/cli/client) and the forms of the omnibox (add.go and *)
(* detail.go), working on one vault. Between what a command lists, fetches,*)
(* shows to its user and writes back, the others change the vault; any     *)
(* call can fail, before or after the server has applied it.               *)
(***************************************************************************)
EXTENDS VaultEntries, FiniteSets

CONSTANTS
  NoId,        \* no entry
  Commands,    \* slots for running commands
  Imported,    \* the entries an import has left: id -> envelope, not encrypted yet
  Sites, Usernames, Names, Queries,   \* bounds: the texts a user types
  Refs,        \* the references of the .env files, in their order: query and field
  MaxFlight    \* bound: openings, and saves, of the omnibox at a time

\* An import derives name and metadata from the payload it makes (bitwarden.go).
ASSUME ClientsAssumption ==
  /\ NoId \notin Ids /\ IsFiniteSet(Ids) /\ Ids # {}
  /\ Sites \cup Usernames \cup Names \cup Queries \subseteq Texts
  /\ Refs \in Seq([query : Texts, field : Fields])
  /\ DOMAIN Imported \subseteq Ids /\ Imported \in [DOMAIN Imported -> Envelope]
  /\ \A id \in DOMAIN Imported :
       Told(Imported[id]) /\ Imported[id].payload.layers = 0 /\ Imported[id].payload.body.value = id

VARIABLES
  vault,       \* the server's entries: id -> envelope
  used,        \* the ids it has given out
  job,         \* the commands
  opening,     \* the entries fetched for the omnibox, their callbacks queued
  form,        \* its form: the entry, or NoId in the add view, and the fields
  saving       \* the envelopes its saves are writing

guiVars == <<opening, form, saving>>
vars    == <<vault, used, job, guiVars>>

Kinds  == {"get", "copy", "edit", "rm", "add", "inject"}
Stages == {"idle", "refs", "get", "shown", "write", "delete", "child"}

\* With or without a terminal; the entries found for the search or the references; the
\* entry the command is about; the values inject has resolved.
Job == [cmd : Kinds, at : Stages, tty : BOOLEAN,
        matched : Seq(SUBSET Ids), id : Ids \cup {NoId}, env : Envelope,
        values : Seq([id : Ids, read : Ids \cup Texts])]

NoBody == NamedBody(Blank, CHOOSE id \in Ids : TRUE)
NoEnv  == NamedEnvelope(Blank, NoBody.value)
Idle   == [cmd |-> "get", at |-> "idle", tty |-> FALSE,
           matched |-> <<>>, id |-> NoId, env |-> NoEnv, values |-> <<>>]
Closed == [open |-> FALSE, id |-> NoId, type |-> "login", body |-> NoBody]

TypeOK ==
  /\ used \subseteq Ids
  /\ DOMAIN vault \subseteq used /\ vault \in [DOMAIN vault -> Envelope]
  /\ job \in [Commands -> Job]
  /\ \A c \in Commands :
       /\ job[c].at \in {"get", "shown", "write", "delete"} => job[c].id \in Ids
       /\ Len(job[c].values) <= Len(Refs)
  /\ opening \subseteq [id : Ids, env : Envelope]
  /\ form \in [open : BOOLEAN, id : Ids \cup {NoId}, type : Types, body : Body]
  /\ saving \subseteq [id : Ids, env : Envelope, new : BOOLEAN]

-----------------------------------------------------------------------------
\* The server and VaultService. An id is given out once.

With(f, k, v) == [x \in DOMAIN f \cup {k} |-> IF x = k THEN v ELSE f[x]]

\* Ids that nobody has, and that no call on its way will get.
Fresh == Ids \ (used \cup {job[c].id : c \in Commands} \cup {s.id : s \in saving})

AddEntry(id, env) ==
  /\ vault' = With(vault, id, Encrypt(env))
  /\ used' = used \cup {id}

\* Mutant: what is not there is created.
UpdateOrAddEntry(id, env) ==
  /\ vault' = With(vault, id, Encrypt(env))
  /\ UNCHANGED used

UpdateEntry(id, env) ==
  /\ id \in DOMAIN vault
  /\ vault' = [vault EXCEPT ![id] = Encrypt(env)]
  /\ UNCHANGED used

DeleteEntry(id) ==
  /\ id \in DOMAIN vault
  /\ vault' = [x \in DOMAIN vault \ {id} |-> vault[x]]
  /\ UNCHANGED used

-----------------------------------------------------------------------------
\* The commands.

At(c, at) == job[c].at = at
Goes(c, next) == job' = [job EXCEPT ![c] = next]

\* What add asks for: nothing is required of a login.
NewLogins(id) ==
  {LoginEnvelope(DeriveLoginName(site, username), site, username, id) :
     site \in Sites \cup {Blank}, username \in Usernames \cup {Blank}}

NewNamed(id) == {NamedEnvelope(name, id) : name \in Names}

Add(c) ==
  /\ At(c, "idle")
  /\ \E id \in Fresh : \E env \in NewLogins(id) \cup NewNamed(id) :
       Goes(c, [Idle EXCEPT !.cmd = "add", !.at = "write", !.id = id, !.env = env])
  /\ UNCHANGED <<vault, used, guiVars>>

Sole(ids) == Cardinality(ids) = 1
Target(cmd) == IF cmd = "rm" THEN "delete" ELSE "get"

\* get, edit and rm with an id, dmenu --copy with the line that was picked.
AskForId(c) ==
  /\ At(c, "idle")
  /\ \E cmd \in {"get", "copy", "edit", "rm"}, id \in used :
       Goes(c, [Idle EXCEPT !.cmd = cmd, !.id = id, !.at = Target(cmd)])
  /\ UNCHANGED <<vault, used, guiVars>>

\* Mutant: the first of several is taken.
resolveEntryFirst(found, tty) == found

\* The only match, or the one picked on the terminal.
resolveEntry(found, tty) == IF Sole(found) \/ tty THEN found ELSE {}

\* get, edit and rm with a search: ListEntries and resolveEntry.
Search(c) ==
  /\ At(c, "idle")
  /\ \E cmd \in {"get", "edit", "rm"}, by \in Criteria, text \in Queries, tty \in BOOLEAN :
       LET found == FilterEntries(vault, by, text) IN
       \E id \in resolveEntry(found, tty) :
         Goes(c, [Idle EXCEPT !.cmd = cmd, !.at = Target(cmd), !.tty = tty,
                              !.matched = <<found>>, !.id = id])
  /\ UNCHANGED <<vault, used, guiVars>>

\* inject lists once for all references.
Inject(c) ==
  /\ At(c, "idle")
  /\ Goes(c, [Idle EXCEPT !.cmd = "inject", !.at = "refs",
                          !.matched = [k \in DOMAIN Refs |-> FilterEntries(vault, "query", Refs[k].query)]])
  /\ UNCHANGED <<vault, used, guiVars>>

\* Mutant: edit leaves the metadata alone.
EditedPayloadOnly(env) ==
  LET body == env.payload.body IN
  IF env.type = "login"
    THEN {[env EXCEPT !.payload = NewPayload(LoginBody(site, username, body.value))] :
            site \in Sites \cup {body.site}, username \in Usernames \cup {body.username}}
    ELSE {[env EXCEPT !.payload = NewPayload(body)]}

\* The prompts of edit, or the editor for a note: blank keeps what is there, a login's
\* metadata follows its fields, a secret or a note keeps its name.
Edited(env) ==
  LET body == env.payload.body IN
  IF env.type = "login"
    THEN {LoginEnvelope(DeriveLoginName(site, username), site, username, body.value) :
            site \in Sites \cup {body.site}, username \in Usernames \cup {body.username}}
    ELSE {[env EXCEPT !.payload = NewPayload(body)]}

\* GetEntry and DecryptAndUse.
Fetched(c) == At(c, "get") /\ job[c].id \in DOMAIN vault /\ Readable(vault[job[c].id])

Shows(c) ==
  LET id == job[c].id IN
  Goes(c, [Idle EXCEPT !.cmd = job[c].cmd, !.at = "shown", !.id = id, !.env = vault[id]])

\* displayDecryptedEntry. What else was found is of no use any more.
Get(c) ==
  /\ job[c].cmd = "get" /\ Fetched(c)
  /\ Shows(c)
  /\ UNCHANGED <<vault, used, guiVars>>

\* The value on the clipboard.
Copy(c) ==
  /\ job[c].cmd = "copy" /\ Fetched(c)
  /\ Shows(c)
  /\ UNCHANGED <<vault, used, guiVars>>

Edit(c) ==
  LET id == job[c].id IN
  /\ job[c].cmd = "edit" /\ Fetched(c)
  /\ \E env \in Edited(vault[id]) :
       Goes(c, [Idle EXCEPT !.cmd = "edit", !.at = "write", !.id = id, !.env = env])
  /\ UNCHANGED <<vault, used, guiVars>>

Write(c) ==
  /\ At(c, "write")
  /\ IF job[c].cmd = "add" THEN AddEntry(job[c].id, job[c].env) ELSE UpdateEntry(job[c].id, job[c].env)
  /\ Goes(c, Idle)
  /\ UNCHANGED guiVars

Delete(c) ==
  /\ At(c, "delete")
  /\ DeleteEntry(job[c].id)
  /\ Goes(c, Idle)
  /\ UNCHANGED guiVars

\* One turn of resolveRefs: the only match, fetched and decrypted.
ResolveRef(c) ==
  /\ At(c, "refs")
  /\ Len(job[c].values) < Len(Refs)
  /\ LET k == Len(job[c].values) + 1 IN
     /\ Sole(job[c].matched[k])
     /\ \E id \in job[c].matched[k] \cap DOMAIN vault :
          /\ Readable(vault[id]) /\ HasField(vault[id], Refs[k].field)
          /\ Goes(c, [job[c] EXCEPT
               !.values = Append(@, [id |-> id, read |-> extractField(vault[id], Refs[k].field)])])
  /\ UNCHANGED <<vault, used, guiVars>>

StartChild(c) ==
  /\ At(c, "refs")
  /\ Len(job[c].values) = Len(Refs)
  /\ Goes(c, [job[c] EXCEPT !.at = "child"])
  /\ UNCHANGED <<vault, used, guiVars>>

\* The end, or an error: no match, too many, not found, no such field, gpg or the server
\* fails, the user cancels, the process is killed.
Ends(c) ==
  /\ ~At(c, "idle")
  /\ Goes(c, Idle)
  /\ UNCHANGED <<vault, used, guiVars>>

\* A call that fails after the server has applied it is a Write or a Delete too.
Command(c) ==
  \/ Add(c) \/ AskForId(c) \/ Search(c) \/ Inject(c) \/ Get(c) \/ Copy(c) \/ Edit(c)
  \/ Write(c) \/ Delete(c) \/ ResolveRef(c) \/ StartChild(c) \/ Ends(c)

-----------------------------------------------------------------------------
\* The forms of the omnibox.

\* openDetail: fetched and decrypted in a goroutine of its own.
Open ==
  /\ Cardinality(opening) < MaxFlight
  /\ \E id \in DOMAIN vault :
       /\ Readable(vault[id])
       /\ opening' = opening \cup {[id |-> id, env |-> vault[id]]}
  /\ UNCHANGED <<vault, used, job, form, saving>>

\* DetailView.Show replaces whatever the form was.
ShowDetail ==
  /\ \E o \in opening :
       /\ opening' = opening \ {o}
       /\ form' = [open |-> TRUE, id |-> o.id, type |-> o.env.type, body |-> o.env.payload.body]
  /\ UNCHANGED <<vault, used, job, saving>>

\* AddView.SetCategory builds an empty form.
ShowAdd ==
  /\ \E type \in Types : form' = [Closed EXCEPT !.open = TRUE, !.type = type]
  /\ UNCHANGED <<vault, used, job, opening, saving>>

Type ==
  /\ form.open
  /\ \/ form.type = "login" /\ \E t \in Sites \cup {Blank} : form' = [form EXCEPT !.body.site = t]
     \/ form.type = "login" /\ \E t \in Usernames : form' = [form EXCEPT !.body.username = t]
     \/ form.type # "login" /\ \E t \in Names \cup {Blank} : form' = [form EXCEPT !.body.name = t]
  /\ UNCHANGED <<vault, used, job, opening, saving>>

\* collectEnvelope of either view.
Collected(f, value) ==
  IF f.type = "login"
    THEN LoginEnvelope(DeriveLoginName(f.body.site, f.body.username), f.body.site, f.body.username, value)
    ELSE NamedEnvelope(f.body.name, value)

\* A name is required; to add a login, one of its site and its username.
Complete(f) ==
  IF f.type = "login" THEN f.id # NoId \/ f.body.site # Blank \/ f.body.username # Blank
                      ELSE f.body.name # Blank

\* doSave: each press starts a goroutine of its own with what the form says now.
Save ==
  /\ form.open /\ Complete(form)
  /\ Cardinality(saving) < MaxFlight
  /\ \/ /\ form.id # NoId
        /\ saving' = saving \cup {[id |-> form.id, env |-> Collected(form, form.body.value), new |-> FALSE]}
     \/ /\ form.id = NoId
        /\ \E id \in Fresh : saving' = saving \cup {[id |-> id, env |-> Collected(form, id), new |-> TRUE]}
  /\ UNCHANGED <<vault, used, job, opening, form>>

\* Mutant: the goroutine collects the fields when it comes to write them.
SaveLate(s) ==
  LET env == IF form.open THEN Collected(form, form.body.value) ELSE s.env IN
  /\ s \in saving /\ saving' = saving \ {s}
  /\ IF s.new THEN AddEntry(s.id, env) ELSE UpdateEntry(s.id, env)
  /\ UNCHANGED <<job, opening, form>>

\* The saves of one form may be applied in any order.
SaveApplied(s) ==
  /\ s \in saving /\ saving' = saving \ {s}
  /\ IF s.new THEN AddEntry(s.id, s.env) ELSE UpdateEntry(s.id, s.env)
  /\ UNCHANGED <<job, opening, form>>

SaveFails(s) ==
  /\ s \in saving /\ saving' = saving \ {s}
  /\ UNCHANGED <<vault, used, job, opening, form>>

\* Cancel, Back, or the callback of a save that has succeeded.
CloseForm ==
  /\ form.open
  /\ form' = Closed
  /\ UNCHANGED <<vault, used, job, opening, saving>>

\* The overlay is closed, its process ends.
CloseOverlay ==
  /\ opening' = {} /\ saving' = {} /\ form' = Closed
  /\ UNCHANGED <<vault, used, job>>

Gui ==
  \/ Open \/ ShowDetail \/ ShowAdd \/ Type \/ Save \/ CloseForm \/ CloseOverlay
  \/ \E s \in saving : SaveApplied(s) \/ SaveFails(s)

-----------------------------------------------------------------------------
\* The entries an import has added with AddEntry; nobody is at work on them.
Init ==
  /\ used = DOMAIN Imported
  /\ vault = [id \in DOMAIN Imported |-> Encrypt(Imported[id])]
  /\ job = [c \in Commands |-> Idle]
  /\ opening = {} /\ form = Closed /\ saving = {}

Next == (\E c \in Commands : Command(c)) \/ Gui

Spec == Init /\ [][Next]_vars

-----------------------------------------------------------------------------
\* Properties.

\* Whoever wrote last, and whatever was read before: an entry is encrypted once, and what a
\* search goes by belongs to the very payload it finds (edit.go:83-151, detail.go:488).
EntriesWhole == \A id \in DOMAIN vault : Readable(vault[id]) /\ Told(vault[id])

\* No entry's secret is stored under, shown for or injected for another, in
\* any order of the callbacks and saves of the omnibox (detail.go:92, 444-468,
\* inject.go:137-168).
SecretsBelong ==
  /\ \A id \in DOMAIN vault : vault[id].payload.body.value = id
  /\ form.open /\ form.id # NoId => form.body.value = form.id
  /\ \A c \in Commands :
       /\ At(c, "shown") => job[c].env.payload.body.value = job[c].id
       /\ At(c, "child") =>
            \A k \in DOMAIN Refs :
              Refs[k].field = "primary" => job[c].values[k].read = job[c].values[k].id

\* What somebody has deleted stays away, whoever had it open in an editor or a form
\* meanwhile and writes it back (edit.go:66-151, detail.go:455).
NoReturn == [][\A id \in used \ DOMAIN vault : id \notin DOMAIN vault']_vars

\* What is found by searching is shown, edited, deleted or injected only if it was the only
\* match, unless somebody at a terminal picked it; and the child is started only
\* with every reference resolved (resolve.go:43-53, inject.go:137-168).
SoleMatch ==
  \A c \in Commands :
    /\ At(c, "child") => Len(job[c].values) = Len(Refs)
    /\ job[c].cmd = "inject" =>
         \A k \in DOMAIN job[c].values : job[c].matched[k] = {job[c].values[k].id}
    /\ job[c].id # NoId /\ job[c].matched # <<>> /\ ~job[c].tty => job[c].matched[1] = {job[c].id}
=============================================================================
