-------------------------- MODULE VaultClientsProofs --------------------------
(***************************************************************************)
(* What VaultClients keeps, for any number of commands and entries: every  *)
(* envelope that is stored, or on its way to be, was made whole for the    *)
(* entry it is stored under.                                               *)
(***************************************************************************)
EXTENDS VaultClients, FiniteSetTheorems, TLAPS

\* An envelope made for an entry; not encrypted yet; stored.
Made(env, id)   == env \in Envelope /\ Told(env) /\ env.payload.body.value = id
Plain(env, id)  == Made(env, id) /\ env.payload.layers = 0
Stored(env, id) == Made(env, id) /\ env.payload.layers = 1

JobOK(j) ==
  /\ j \in Job
  /\ j.at \in {"get", "shown", "write", "delete"} => j.id \in Ids
  /\ j.at = "write" => Plain(j.env, j.id)
  /\ j.at = "shown" => Made(j.env, j.id)
  /\ j.at = "child" => Len(j.values) = Len(Refs)
  /\ Len(j.values) <= Len(Refs)
  /\ \A k \in DOMAIN j.values : Refs[k].field = "primary" => j.values[k].read = j.values[k].id
  /\ j.cmd = "inject" => \A k \in DOMAIN j.values : j.matched[k] = {j.values[k].id}
  /\ j.at = "refs" => Len(j.matched) = Len(Refs) /\ j.cmd = "inject" /\ j.id = NoId
  /\ j.id # NoId /\ j.matched # <<>> /\ ~j.tty => j.matched[1] = {j.id}

VaultOK ==
  /\ used \subseteq Ids
  /\ DOMAIN vault \subseteq used /\ vault = [id \in DOMAIN vault |-> vault[id]]
  /\ \A id \in DOMAIN vault : Stored(vault[id], id)

JobsOK    == job \in [Commands -> Job] /\ \A c \in Commands : JobOK(job[c])
OpeningOK == \A o \in opening : o \in [id : Ids, env : Envelope] /\ Made(o.env, o.id)
FormOK ==
  /\ form \in [open : BOOLEAN, id : Ids \cup {NoId}, type : Types, body : Body]
  /\ form.open /\ form.id # NoId => form.body.value = form.id
SavingOK  == \A s \in saving : s \in [id : Ids, env : Envelope, new : BOOLEAN] /\ Plain(s.env, s.id)

\* An id on its way to AddEntry has not been given out, nor to anybody else.
Adding(j) == j.at = "write" /\ j.cmd = "add"
AddingOK ==
  /\ \A c \in Commands : Adding(job[c]) =>
       /\ job[c].id \notin used
       /\ \A d \in Commands : Adding(job[d]) /\ job[d].id = job[c].id => d = c
       /\ \A s \in saving : s.new => s.id # job[c].id
  /\ \A s \in saving : s.new =>
       /\ s.id \notin used
       /\ \A t \in saving : t.new /\ t.id = s.id => t = s

IInv == VaultOK /\ JobsOK /\ OpeningOK /\ FormOK /\ SavingOK /\ AddingOK

-----------------------------------------------------------------------------
\* Envelopes.

LEMMA LoginMade ==
  ASSUME NEW text \in Texts, NEW site \in Texts, NEW username \in Texts, NEW value \in Ids
  PROVE  Plain(LoginEnvelope(NameWith(text, username), site, username, value), value)
<1>1. NameWith(text, username) \in Seq(Texts)
  BY DEF NameWith
<1>2. LoginEnvelope(NameWith(text, username), site, username, value) \in Envelope
  BY <1>1, TextsAssumption DEF LoginEnvelope, NewPayload, LoginBody, Envelope, Types, Payload, Body
<1> QED
  BY <1>2 DEF Plain, Made, Told, LoginEnvelope, NewPayload, LoginBody

LEMMA DerivedMade ==
  ASSUME NEW site \in Texts, NEW username \in Texts, NEW value \in Ids
  PROVE  Plain(LoginEnvelope(DeriveLoginName(site, username), site, username, value), value)
<1>1. Host[site] \in Texts
  BY TextsAssumption
<1> QED
  BY <1>1, LoginMade DEF DeriveLoginName

LEMMA NamedMade ==
  ASSUME NEW name \in Texts, NEW value \in Ids
  PROVE  Plain(NamedEnvelope(name, value), value)
<1>1. <<name>> \in Seq(Texts)
  OBVIOUS
<1>2. NamedEnvelope(name, value) \in Envelope
  BY <1>1, TextsAssumption DEF NamedEnvelope, NewPayload, NamedBody, Envelope, Types, Payload, Body
<1> QED
  BY <1>2 DEF Plain, Made, Told, NamedEnvelope, NewPayload, NamedBody

LEMMA EncryptStores ==
  ASSUME NEW env, NEW id, Plain(env, id)
  PROVE  Stored(Encrypt(env), id)
<1>1. Encrypt(env) \in Envelope /\ Encrypt(env).payload.layers = 1
  BY DEF Plain, Made, Encrypt, Envelope, Payload
<1>2. /\ Encrypt(env).type = env.type /\ Encrypt(env).name = env.name
      /\ Encrypt(env).site = env.site /\ Encrypt(env).username = env.username
      /\ Encrypt(env).payload.body = env.payload.body
  BY DEF Plain, Made, Encrypt, Envelope, Payload
<1> QED
  BY <1>1, <1>2 DEF Plain, Made, Stored, Told

LEMMA NewMade ==
  ASSUME NEW id \in Ids, NEW env \in NewLogins(id) \cup NewNamed(id)
  PROVE  Plain(env, id)
<1>1. CASE \E site \in Sites \cup {Blank}, username \in Usernames \cup {Blank} :
             env = LoginEnvelope(DeriveLoginName(site, username), site, username, id)
  BY <1>1, DerivedMade, TextsAssumption, ClientsAssumption
<1>2. CASE \E name \in Names : env = NamedEnvelope(name, id)
  BY <1>2, NamedMade, ClientsAssumption
<1> QED
  BY <1>1, <1>2 DEF NewLogins, NewNamed

LEMMA EditedMade ==
  ASSUME NEW id \in Ids, NEW env, Stored(env, id), NEW new \in Edited(env)
  PROVE  Plain(new, id)
<1> DEFINE body == env.payload.body
<1>1. env \in Envelope /\ Told(env) /\ body \in Body /\ body.value = id
  BY DEF Stored, Made, Envelope, Payload
<1>2. CASE env.type = "login"
  <2>1. PICK site \in Sites \cup {body.site}, username \in Usernames \cup {body.username} :
          new = LoginEnvelope(DeriveLoginName(site, username), site, username, body.value)
    BY <1>2 DEF Edited
  <2>2. site \in Texts /\ username \in Texts
    BY <1>1, ClientsAssumption DEF Body
  <2> QED
    BY <1>1, <2>1, <2>2, DerivedMade
<1>3. CASE env.type # "login"
  <2>1. new = [env EXCEPT !.payload = NewPayload(body)]
    BY <1>3 DEF Edited
  <2>2. new \in Envelope /\ new.payload = NewPayload(body)
    BY <1>1, <2>1 DEF Envelope, Payload, NewPayload
  <2>3. new.type = env.type /\ new.name = env.name /\ new.site = env.site /\ new.username = env.username
    BY <1>1, <2>1 DEF Envelope
  <2> QED
    BY <1>1, <2>2, <2>3 DEF Plain, Made, Told, NewPayload
<1> QED
  BY <1>2, <1>3

LEMMA CollectedMade ==
  ASSUME NEW value \in Ids, FormOK
  PROVE  Plain(Collected(form, value), value)
<1>1. form.body.site \in Texts /\ form.body.username \in Texts /\ form.body.name \in Texts
  BY DEF FormOK, Body
<1> QED
  BY <1>1, DerivedMade, NamedMade DEF Collected

-----------------------------------------------------------------------------
\* The vault, and one command's step.

LEMMA VaultAdds ==
  ASSUME VaultOK, NEW id \in Ids, NEW env, Plain(env, id), AddEntry(id, env)
  PROVE  VaultOK'
<1>1. Stored(Encrypt(env), id)
  BY EncryptStores
<1>2. DOMAIN vault' = DOMAIN vault \cup {id} /\ used' = used \cup {id}
  BY DEF AddEntry, With
<1>3. \A x \in DOMAIN vault' : vault'[x] = IF x = id THEN Encrypt(env) ELSE vault[x]
  BY DEF AddEntry, With
<1>4. vault' = [x \in DOMAIN vault' |-> vault'[x]]
  BY DEF AddEntry, With
<1> QED
  BY <1>1, <1>2, <1>3, <1>4 DEF VaultOK, Stored

LEMMA VaultUpdates ==
  ASSUME VaultOK, NEW id \in Ids, NEW env, Plain(env, id), UpdateEntry(id, env)
  PROVE  VaultOK'
<1>1. Stored(Encrypt(env), id)
  BY EncryptStores
<1>2. DOMAIN vault' = DOMAIN vault /\ used' = used /\ vault' = [x \in DOMAIN vault' |-> vault'[x]]
  BY DEF UpdateEntry, VaultOK
<1>3. \A x \in DOMAIN vault' : vault'[x] = IF x = id THEN Encrypt(env) ELSE vault[x]
  BY DEF UpdateEntry, VaultOK
<1> QED
  BY <1>1, <1>2, <1>3 DEF VaultOK, Stored

LEMMA VaultDeletes ==
  ASSUME VaultOK, NEW id, DeleteEntry(id)
  PROVE  VaultOK'
<1>1. DOMAIN vault' = DOMAIN vault \ {id} /\ used' = used /\ vault' = [x \in DOMAIN vault' |-> vault'[x]]
  BY DEF DeleteEntry
<1>2. \A x \in DOMAIN vault' : vault'[x] = vault[x]
  BY DEF DeleteEntry
<1> QED
  BY <1>1, <1>2 DEF VaultOK, Stored

LEMMA OneJob ==
  ASSUME JobsOK, NEW c \in Commands, NEW next, Goes(c, next), JobOK(next)
  PROVE  JobsOK'
BY DEF JobsOK, JobOK, Goes

LEMMA SoleIsOne ==
  ASSUME NEW ids \in SUBSET Ids, Sole(ids), NEW id \in ids
  PROVE  ids = {id}
<1>1. IsFiniteSet(ids)
  BY ClientsAssumption, FS_Subset
<1>2. PICK x : ids = {x}
  BY <1>1, FS_Singleton DEF Sole
<1> QED
  BY <1>2

LEMMA NoEnvOK == NoEnv \in Envelope /\ NoBody \in Body
<1>1. (CHOOSE id \in Ids : TRUE) \in Ids
  BY ClientsAssumption
<1>2. NoBody \in Body /\ NoBody.value \in Ids
  BY <1>1, TextsAssumption DEF NoBody, NamedBody, Body
<1> QED
  BY <1>2, NamedMade, TextsAssumption DEF NoEnv, Plain, Made

LEMMA IdleOK == JobOK(Idle)
<1>1. Idle \in Job
  BY NoEnvOK DEF Idle, Job, Kinds, Stages
<1> QED
  BY <1>1, ClientsAssumption DEF JobOK, Idle

LEMMA FoundOK ==
  ASSUME VaultOK, NEW by, NEW text
  PROVE  FilterEntries(vault, by, text) \in SUBSET Ids
BY DEF VaultOK, FilterEntries

LEMMA FetchedOK ==
  ASSUME VaultOK, NEW id \in DOMAIN vault
  PROVE  id \in Ids /\ Stored(vault[id], id) /\ vault[id] \in Envelope /\ Made(vault[id], id)
BY DEF VaultOK, Stored, Made

LEMMA InitOK == Init => IInv
<1> SUFFICES ASSUME Init PROVE IInv
  OBVIOUS
<1>1. \A id \in DOMAIN vault : Stored(vault[id], id)
  <2> SUFFICES ASSUME NEW id \in DOMAIN Imported PROVE Stored(vault[id], id)
    BY DEF Init
  <2>1. Plain(Imported[id], id) /\ vault[id] = Encrypt(Imported[id])
    BY ClientsAssumption DEF Init, Plain, Made
  <2> QED
    BY <2>1, EncryptStores
<1>2. VaultOK
  BY <1>1, ClientsAssumption DEF Init, VaultOK
<1>3. JobsOK
  BY IdleOK DEF Init, JobsOK, JobOK
<1>4. FormOK
  BY NoEnvOK DEF Init, FormOK, Closed, Types
<1> QED
  BY <1>2, <1>3, <1>4 DEF Init, IInv, OpeningOK, SavingOK, AddingOK, Adding, Idle

-----------------------------------------------------------------------------
\* The steps of the commands.

\* A command goes on without touching the rest.
LEMMA Alone ==
  ASSUME IInv, NEW c \in Commands, NEW next, Goes(c, next), JobOK(next),
         Adding(next) => next.id \in Fresh, UNCHANGED <<vault, used, guiVars>>
  PROVE  IInv'
<1>1. JobsOK'
  BY OneJob DEF IInv
<1>2. job'[c] = next /\ \A d \in Commands \ {c} : job'[d] = job[d]
  BY DEF IInv, JobsOK, Goes
<1>3. AddingOK'
  BY <1>2 DEF IInv, AddingOK, guiVars, Fresh
<1> QED
  BY <1>1, <1>3 DEF IInv, guiVars, VaultOK, Stored, OpeningOK, FormOK, SavingOK

LEMMA AddStep ==
  ASSUME IInv, NEW c \in Commands, Add(c)
  PROVE  IInv'
<1>1. PICK id \in Fresh : \E env \in NewLogins(id) \cup NewNamed(id) :
        Goes(c, [Idle EXCEPT !.cmd = "add", !.at = "write", !.id = id, !.env = env])
  BY Zenon DEF Add
<1>2. PICK env \in NewLogins(id) \cup NewNamed(id) :
        Goes(c, [Idle EXCEPT !.cmd = "add", !.at = "write", !.id = id, !.env = env])
  BY Zenon, <1>1
<1> DEFINE next == [Idle EXCEPT !.cmd = "add", !.at = "write", !.id = id, !.env = env]
<1>3. id \in Ids /\ Plain(env, id) /\ env \in Envelope
  BY NewMade DEF Fresh, Plain, Made
<1>4. JobOK(next)
  BY ZenonT(40), <1>3, IdleOK DEF JobOK, Idle, Job, Kinds, Stages
<1>5. next.id = id
  BY DEF Idle
<1> HIDE DEF next
<1> QED
  BY <1>2, <1>4, <1>5, Alone DEF Add, next

LEMMA AskForIdStep ==
  ASSUME IInv, NEW c \in Commands, AskForId(c)
  PROVE  IInv'
<1>1. PICK cmd \in {"get", "copy", "edit", "rm"}, id \in used :
        Goes(c, [Idle EXCEPT !.cmd = cmd, !.id = id, !.at = Target(cmd)])
  BY Zenon DEF AskForId
<1> DEFINE next == [Idle EXCEPT !.cmd = cmd, !.id = id, !.at = Target(cmd)]
<1>2. id \in Ids /\ Target(cmd) \in {"get", "delete"}
  BY DEF IInv, VaultOK, Target
<1>3. JobOK(next) /\ ~Adding(next)
  BY ZenonT(40), <1>2, IdleOK DEF JobOK, Idle, Job, Kinds, Stages, Adding
<1> HIDE DEF next
<1> QED
  BY <1>1, <1>3, Alone DEF AskForId, next

LEMMA SearchStep ==
  ASSUME IInv, NEW c \in Commands, Search(c)
  PROVE  IInv'
<1>1. PICK cmd \in {"get", "edit", "rm"}, by \in Criteria, text \in Queries, tty \in BOOLEAN :
        LET found == FilterEntries(vault, by, text) IN
        \E id \in resolveEntry(found, tty) :
          Goes(c, [Idle EXCEPT !.cmd = cmd, !.at = Target(cmd), !.tty = tty,
                               !.matched = <<found>>, !.id = id])
  BY Zenon DEF Search
<1> DEFINE found == FilterEntries(vault, by, text)
<1>2. PICK id \in resolveEntry(found, tty) :
        Goes(c, [Idle EXCEPT !.cmd = cmd, !.at = Target(cmd), !.tty = tty,
                             !.matched = <<found>>, !.id = id])
  BY Zenon, <1>1
<1> DEFINE next == [Idle EXCEPT !.cmd = cmd, !.at = Target(cmd), !.tty = tty,
                                !.matched = <<found>>, !.id = id]
<1>3. found \in SUBSET Ids /\ id \in found /\ (tty \/ found = {id})
  BY FoundOK, SoleIsOne DEF IInv, resolveEntry
<1>4. UNCHANGED <<vault, used, guiVars>>
  BY DEF Search
<1> HIDE DEF found
<1>5. id \in Ids /\ Target(cmd) \in {"get", "delete"}
  BY <1>3 DEF Target
<1>6. <<found>> \in Seq(SUBSET Ids) /\ <<found>>[1] = found
  BY <1>3
<1> DEFINE matched == <<found>>
<1> HIDE DEF matched
<1>7. next \in Job
  BY <1>5, <1>6, IdleOK DEF JobOK, Idle, Job, Kinds, Stages, matched
<1>8. /\ next.cmd = cmd /\ next.at = Target(cmd) /\ next.tty = tty /\ next.id = id
      /\ next.matched[1] = found /\ next.values = <<>>
  BY DEF Idle
<1> HIDE DEF next
<1>9. JobOK(next) /\ ~Adding(next)
  BY <1>3, <1>5, <1>7, <1>8, ClientsAssumption DEF JobOK, Adding
<1> QED
  BY <1>2, <1>4, <1>9, Alone DEF next

LEMMA InjectStep ==
  ASSUME IInv, NEW c \in Commands, Inject(c)
  PROVE  IInv'
<1> DEFINE found == [k \in DOMAIN Refs |-> FilterEntries(vault, "query", Refs[k].query)]
           next  == [Idle EXCEPT !.cmd = "inject", !.at = "refs", !.matched = found]
<1>1. found \in Seq(SUBSET Ids) /\ Len(found) = Len(Refs)
  <2>1. \A k \in 1..Len(Refs) : FilterEntries(vault, "query", Refs[k].query) \in SUBSET Ids
    BY FoundOK DEF IInv
  <2>2. Len(Refs) \in Nat /\ DOMAIN Refs = 1..Len(Refs)
    BY ClientsAssumption
  <2> QED
    BY <2>1, <2>2
<1>2. Goes(c, next) /\ UNCHANGED <<vault, used, guiVars>>
  BY DEF Inject
<1> HIDE DEF found
<1>3. next \in Job
  BY <1>1, IdleOK DEF JobOK, Idle, Job, Kinds, Stages
<1>4. /\ next.cmd = "inject" /\ next.at = "refs" /\ next.id = NoId
      /\ Len(next.matched) = Len(Refs) /\ next.values = <<>>
  BY <1>1 DEF Idle
<1> HIDE DEF next
<1>5. JobOK(next) /\ ~Adding(next)
  BY <1>3, <1>4, ClientsAssumption DEF JobOK, Adding
<1> QED
  BY <1>2, <1>5, Alone

LEMMA FetchOK ==
  ASSUME IInv, NEW c \in Commands, Fetched(c)
  PROVE  LET id == job[c].id IN
         /\ id \in Ids /\ Stored(vault[id], id) /\ vault[id] \in Envelope /\ Made(vault[id], id)
BY FetchedOK DEF Fetched, IInv

LEMMA ShowsStep ==
  ASSUME IInv, NEW c \in Commands, Get(c) \/ Copy(c)
  PROVE  IInv'
<1> DEFINE id   == job[c].id
           next == [Idle EXCEPT !.cmd = job[c].cmd, !.at = "shown", !.id = id, !.env = vault[id]]
<1>1. Goes(c, next) /\ Fetched(c) /\ UNCHANGED <<vault, used, guiVars>>
  BY DEF Get, Copy, Shows
<1>2. id \in Ids /\ vault[id] \in Envelope /\ Made(vault[id], id)
  BY <1>1, FetchOK
<1>3. job[c].cmd \in Kinds
  BY DEF IInv, JobsOK, JobOK, Job
<1> HIDE DEF id
<1>4. next \in Job
  BY <1>2, <1>3, IdleOK DEF JobOK, Idle, Job, Stages
<1>5. /\ next.at = "shown" /\ next.id = id /\ next.env = vault[id]
      /\ next.matched = <<>> /\ next.values = <<>>
  BY DEF Idle
<1> HIDE DEF next
<1>6. JobOK(next) /\ ~Adding(next)
  BY <1>2, <1>4, <1>5, ClientsAssumption DEF JobOK, Adding
<1> QED
  BY <1>1, <1>6, Alone

LEMMA EditStep ==
  ASSUME IInv, NEW c \in Commands, Edit(c)
  PROVE  IInv'
<1> DEFINE id == job[c].id
<1>1. PICK env \in Edited(vault[id]) :
        Goes(c, [Idle EXCEPT !.cmd = "edit", !.at = "write", !.id = id, !.env = env])
  BY Zenon DEF Edit
<1> DEFINE next == [Idle EXCEPT !.cmd = "edit", !.at = "write", !.id = id, !.env = env]
<1>2. id \in Ids /\ Stored(vault[id], id) /\ UNCHANGED <<vault, used, guiVars>>
  BY FetchOK DEF Edit
<1>3. Plain(env, id) /\ env \in Envelope
  BY <1>2, EditedMade DEF Plain, Made
<1> HIDE DEF id
<1>4. JobOK(next) /\ ~Adding(next)
  BY ZenonT(40), <1>2, <1>3, IdleOK DEF JobOK, Idle, Job, Kinds, Stages, Adding
<1> HIDE DEF next
<1> QED
  BY <1>1, <1>2, <1>4, Alone DEF next

LEMMA WriteStep ==
  ASSUME IInv, NEW c \in Commands, Write(c)
  PROVE  IInv'
<1> DEFINE id  == job[c].id
           env == job[c].env
<1>1. Goes(c, Idle) /\ UNCHANGED guiVars
  BY DEF Write
<1>2. id \in Ids /\ Plain(env, id)
  BY DEF Write, At, IInv, JobsOK, JobOK
<1>3. JobsOK'
  BY <1>1, IdleOK, OneJob DEF IInv
<1>4. job'[c] = Idle /\ ~Adding(Idle) /\ \A d \in Commands \ {c} : job'[d] = job[d]
  BY <1>1 DEF IInv, JobsOK, Goes, Adding, Idle
<1>5. CASE Adding(job[c])
  <2>1. AddEntry(id, env)
    BY <1>5 DEF Write, Adding
  <2>2. VaultOK'
    BY <1>2, <2>1, VaultAdds DEF IInv
  <2>3. AddingOK'
    BY <1>1, <1>4, <1>5, <2>1 DEF IInv, AddingOK, AddEntry, guiVars
  <2> QED
    BY <1>1, <1>3, <2>2, <2>3 DEF IInv, guiVars, OpeningOK, FormOK, SavingOK
<1>6. CASE ~Adding(job[c])
  <2>1. UpdateEntry(id, env)
    BY <1>6 DEF Write, Adding, At
  <2>2. VaultOK'
    BY <1>2, <2>1, VaultUpdates DEF IInv
  <2>3. AddingOK'
    BY <1>1, <1>4, <2>1 DEF IInv, AddingOK, UpdateEntry, guiVars
  <2> QED
    BY <1>1, <1>3, <2>2, <2>3 DEF IInv, guiVars, OpeningOK, FormOK, SavingOK
<1> QED
  BY <1>5, <1>6

LEMMA DeleteStep ==
  ASSUME IInv, NEW c \in Commands, Delete(c)
  PROVE  IInv'
<1>1. Goes(c, Idle) /\ UNCHANGED guiVars /\ DeleteEntry(job[c].id)
  BY DEF Delete
<1>2. JobsOK'
  BY <1>1, IdleOK, OneJob DEF IInv
<1>3. job'[c] = Idle /\ ~Adding(Idle) /\ \A d \in Commands \ {c} : job'[d] = job[d]
  BY <1>1 DEF IInv, JobsOK, Goes, Adding, Idle
<1>4. VaultOK'
  BY <1>1, VaultDeletes DEF IInv
<1>5. AddingOK'
  BY <1>1, <1>3 DEF IInv, AddingOK, DeleteEntry, guiVars
<1> QED
  BY <1>1, <1>2, <1>4, <1>5 DEF IInv, guiVars, OpeningOK, FormOK, SavingOK

\* The value of a secret is the entry it was typed for.
LEMMA ReadOK ==
  ASSUME VaultOK, NEW id \in DOMAIN vault, NEW field
  PROVE  /\ extractField(vault[id], field) \in Ids \cup Texts
         /\ field = "primary" => extractField(vault[id], field) = id
<1>1. vault[id].payload.body \in Body /\ vault[id].payload.body.value = id
  BY FetchedOK DEF Made, Envelope, Payload
<1>2. /\ vault[id].payload.body.value \in Ids /\ vault[id].payload.body.name \in Texts
      /\ vault[id].payload.body.site \in Texts /\ vault[id].payload.body.username \in Texts
  BY <1>1 DEF Body
<1> QED
  BY <1>1, <1>2 DEF extractField

LEMMA ResolveRefStep ==
  ASSUME IInv, NEW c \in Commands, ResolveRef(c)
  PROVE  IInv'
<1> DEFINE j == job[c]
           k == Len(j.values) + 1
<1>1. /\ j.at = "refs" /\ Len(j.values) < Len(Refs) /\ Sole(j.matched[k])
      /\ UNCHANGED <<vault, used, guiVars>>
  BY DEF ResolveRef, At
<1>2. PICK id \in j.matched[k] \cap DOMAIN vault :
        Goes(c, [j EXCEPT !.values =
                   Append(@, [id |-> id, read |-> extractField(vault[id], Refs[k].field)])])
  BY DEF ResolveRef
<1> DEFINE read  == extractField(vault[id], Refs[k].field)
           entry == [id |-> id, read |-> read]
           next  == [j EXCEPT !.values = Append(@, entry)]
<1>3. JobOK(j) /\ j \in Job
  BY DEF IInv, JobsOK, JobOK
<1>4. /\ j.matched \in Seq(SUBSET Ids) /\ j.values \in Seq([id : Ids, read : Ids \cup Texts])
      /\ Len(j.matched) = Len(Refs) /\ j.cmd = "inject" /\ j.id = NoId
  BY <1>1, <1>3 DEF JobOK, Job
<1>5. k \in 1..Len(Refs) /\ j.matched[k] \in SUBSET Ids
  BY <1>1, <1>4, ClientsAssumption
<1>6. j.matched[k] = {id} /\ id \in Ids
  BY <1>1, <1>5, SoleIsOne
<1>7. read \in Ids \cup Texts /\ (Refs[k].field = "primary" => read = id)
  BY ReadOK DEF IInv
<1> HIDE DEF read
<1>8. entry \in [id : Ids, read : Ids \cup Texts]
  BY <1>6, <1>7
<1> HIDE DEF entry
<1>9. Append(j.values, entry) \in Seq([id : Ids, read : Ids \cup Texts])
  BY <1>4, <1>8
<1>10. /\ Len(Append(j.values, entry)) = k
       /\ \A n \in DOMAIN Append(j.values, entry) :
            IF n = k THEN Append(j.values, entry)[n] = entry
                     ELSE n \in DOMAIN j.values /\ Append(j.values, entry)[n] = j.values[n]
  BY <1>4
<1>11. next \in Job /\ next.at = "refs" /\ next.cmd = "inject" /\ next.id = NoId
  BY <1>1, <1>3, <1>4, <1>9 DEF Job
<1>12. next.matched = j.matched /\ next.values = Append(j.values, entry)
  BY <1>3 DEF Job
<1> HIDE DEF next, j
<1>13. entry.id = id /\ entry.read = read
  BY DEF entry
<1>14. Len(next.values) <= Len(Refs)
  BY <1>5, <1>10, <1>12
<1>15. \A n \in DOMAIN next.values :
         /\ Refs[n].field = "primary" => next.values[n].read = next.values[n].id
         /\ next.matched[n] = {next.values[n].id}
  BY <1>3, <1>4, <1>6, <1>7, <1>10, <1>12, <1>13 DEF JobOK
<1>16. JobOK(next) /\ ~Adding(next)
  BY <1>4, <1>11, <1>12, <1>14, <1>15 DEF JobOK, Adding
<1> QED
  BY <1>1, <1>2, <1>16, Alone DEF next, entry, read

LEMMA StartChildStep ==
  ASSUME IInv, NEW c \in Commands, StartChild(c)
  PROVE  IInv'
<1> DEFINE next == [job[c] EXCEPT !.at = "child"]
<1>1. /\ job[c].at = "refs" /\ Len(job[c].values) = Len(Refs) /\ Goes(c, next)
      /\ UNCHANGED <<vault, used, guiVars>>
  BY DEF StartChild, At
<1>2. JobOK(job[c]) /\ job[c] \in Job
  BY DEF IInv, JobsOK, JobOK
<1>3. next \in Job /\ next.at = "child"
  BY <1>2 DEF Job, Stages
<1>4. /\ next.cmd = job[c].cmd /\ next.id = job[c].id /\ next.values = job[c].values
      /\ next.matched = job[c].matched /\ next.tty = job[c].tty
  BY <1>2 DEF Job
<1> HIDE DEF next
<1>5. JobOK(next) /\ ~Adding(next)
  BY <1>1, <1>2, <1>3, <1>4 DEF JobOK, Adding
<1> QED
  BY <1>1, <1>5, Alone

LEMMA CommandStep ==
  ASSUME IInv, NEW c \in Commands, Command(c)
  PROVE  IInv'
<1>1. CASE Ends(c)
  <2>1. JobOK(Idle) /\ ~Adding(Idle)
    BY IdleOK DEF Adding, Idle
  <2> QED
    BY <1>1, <2>1, Alone DEF Ends
<1> QED
  BY <1>1, AddStep, AskForIdStep, SearchStep, InjectStep, ShowsStep, EditStep, WriteStep, DeleteStep,
     ResolveRefStep, StartChildStep DEF Command

-----------------------------------------------------------------------------
\* The steps of the omnibox.

\* Nothing but the openings and the form changes.
LEMMA Looks ==
  ASSUME IInv, UNCHANGED <<vault, used, job, saving>>, OpeningOK', FormOK'
  PROVE  IInv'
BY DEF IInv, VaultOK, Stored, JobsOK, SavingOK, AddingOK

LEMMA OpenStep ==
  ASSUME IInv, Open
  PROVE  IInv'
<1>1. PICK id \in DOMAIN vault : opening' = opening \cup {[id |-> id, env |-> vault[id]]}
  BY DEF Open
<1>2. OpeningOK'
  BY <1>1, FetchedOK DEF IInv, OpeningOK
<1>3. FormOK'
  BY DEF Open, IInv, FormOK
<1> QED
  BY <1>2, <1>3, Looks DEF Open

LEMMA ShowDetailStep ==
  ASSUME IInv, ShowDetail
  PROVE  IInv'
<1>1. PICK o \in opening :
        /\ opening' = opening \ {o}
        /\ form' = [open |-> TRUE, id |-> o.id, type |-> o.env.type, body |-> o.env.payload.body]
  BY DEF ShowDetail
<1>2. o.id \in Ids /\ o.env \in Envelope /\ o.env.payload.body.value = o.id
  BY DEF IInv, OpeningOK, Made
<1>3. FormOK'
  BY <1>1, <1>2 DEF FormOK, Envelope, Payload
<1>4. OpeningOK'
  BY <1>1 DEF IInv, OpeningOK
<1> QED
  BY <1>3, <1>4, Looks DEF ShowDetail

LEMMA ClosedOK ==
  ASSUME NEW type \in Types, NEW open \in BOOLEAN, form' = [Closed EXCEPT !.open = open, !.type = type]
  PROVE  FormOK'
BY NoEnvOK DEF Closed, FormOK, Types

LEMMA TypeStep ==
  ASSUME IInv, Type
  PROVE  IInv'
<1>1. form \in [open : BOOLEAN, id : Ids \cup {NoId}, type : Types, body : Body] /\ form.body \in Body
  BY DEF IInv, FormOK
<1>2. PICK t \in Texts :
        \/ form' = [form EXCEPT !.body.site = t]
        \/ form' = [form EXCEPT !.body.username = t]
        \/ form' = [form EXCEPT !.body.name = t]
  BY TextsAssumption, ClientsAssumption DEF Type
<1>3. /\ form' \in [open : BOOLEAN, id : Ids \cup {NoId}, type : Types, body : Body]
      /\ form'.open = form.open /\ form'.id = form.id /\ form'.body.value = form.body.value
  BY <1>1, <1>2 DEF Body
<1>4. FormOK'
  BY <1>3 DEF IInv, FormOK
<1>5. OpeningOK'
  BY DEF Type, IInv, OpeningOK
<1> QED
  BY <1>4, <1>5, Looks DEF Type

LEMMA SaveStep ==
  ASSUME IInv, Save
  PROVE  IInv'
<1>1. CASE form.id # NoId /\ saving' = saving \cup
             {[id |-> form.id, env |-> Collected(form, form.body.value), new |-> FALSE]}
  <2>1. form.id \in Ids /\ form.body.value = form.id
    BY <1>1 DEF Save, IInv, FormOK
  <2> DEFINE env == Collected(form, form.body.value)
  <2>2. Plain(env, form.id) /\ env \in Envelope
    BY <2>1, CollectedMade DEF IInv, Plain, Made
  <2> HIDE DEF env
  <2> DEFINE new == [id |-> form.id, env |-> env, new |-> FALSE]
  <2>3. new \in [id : Ids, env : Envelope, new : BOOLEAN] /\ new.env = env /\ new.id = form.id
    BY <2>1, <2>2
  <2>4. saving' = saving \cup {new}
    BY <1>1 DEF env
  <2> HIDE DEF new
  <2>5. SavingOK'
    BY <2>2, <2>3, <2>4 DEF IInv, SavingOK
  <2>6. AddingOK'
    BY <1>1 DEF Save, IInv, AddingOK
  <2> QED
    BY <2>5, <2>6 DEF Save, IInv, VaultOK, Stored, JobsOK, OpeningOK, FormOK
<1>2. ASSUME NEW id \in Fresh,
             saving' = saving \cup {[id |-> id, env |-> Collected(form, id), new |-> TRUE]}
      PROVE  IInv'
  <2>1. /\ id \in Ids /\ id \notin used /\ \A s \in saving : s.id # id
        /\ \A c \in Commands : job[c].id # id
    BY DEF Fresh
  <2> DEFINE env == Collected(form, id)
  <2>2. Plain(env, id) /\ env \in Envelope
    BY <2>1, CollectedMade DEF IInv, Plain, Made
  <2> HIDE DEF env
  <2> DEFINE new == [id |-> id, env |-> env, new |-> TRUE]
  <2>3. new \in [id : Ids, env : Envelope, new : BOOLEAN] /\ new.env = env /\ new.id = id
    BY <2>1, <2>2
  <2>4. saving' = saving \cup {new} /\ UNCHANGED <<used, job>>
    BY <1>2 DEF env, Save
  <2> HIDE DEF new
  <2>5. SavingOK'
    BY <2>2, <2>3, <2>4 DEF IInv, SavingOK
  <2>6. AddingOK'
    BY <2>1, <2>3, <2>4 DEF IInv, AddingOK
  <2> QED
    BY <2>5, <2>6 DEF Save, IInv, VaultOK, Stored, JobsOK, OpeningOK, FormOK
<1> QED
  BY <1>1, <1>2 DEF Save

LEMMA SaveAppliedStep ==
  ASSUME IInv, NEW s \in saving, SaveApplied(s)
  PROVE  IInv'
<1>1. saving' = saving \ {s} /\ UNCHANGED <<job, opening, form>>
  BY DEF SaveApplied
<1>2. s.id \in Ids /\ Plain(s.env, s.id)
  BY DEF IInv, SavingOK
<1>3. JobsOK' /\ OpeningOK' /\ FormOK' /\ SavingOK'
  BY <1>1 DEF IInv, JobsOK, OpeningOK, FormOK, SavingOK
<1>4. CASE s.new
  <2>1. AddEntry(s.id, s.env)
    BY <1>4 DEF SaveApplied
  <2>2. VaultOK'
    BY <1>2, <2>1, VaultAdds DEF IInv
  <2>3. AddingOK'
    BY <1>1, <1>4, <2>1 DEF IInv, AddingOK, AddEntry
  <2> QED
    BY <1>3, <2>2, <2>3 DEF IInv
<1>5. CASE ~s.new
  <2>1. UpdateEntry(s.id, s.env)
    BY <1>5 DEF SaveApplied
  <2>2. VaultOK'
    BY <1>2, <2>1, VaultUpdates DEF IInv
  <2>3. AddingOK'
    BY <1>1, <2>1 DEF IInv, AddingOK, UpdateEntry
  <2> QED
    BY <1>3, <2>2, <2>3 DEF IInv
<1> QED
  BY <1>4, <1>5

LEMMA GuiStep ==
  ASSUME IInv, Gui
  PROVE  IInv'
<1>1. CASE ShowAdd
  <2>1. FormOK'
    BY Zenon, <1>1, ClosedOK DEF ShowAdd
  <2> QED
    BY <1>1, <2>1, Looks DEF ShowAdd, IInv, OpeningOK
<1>2. CASE CloseForm
  <2>1. FormOK'
    BY <1>2, NoEnvOK DEF CloseForm, FormOK, Closed, Types
  <2> QED
    BY <1>2, <2>1, Looks DEF CloseForm, IInv, OpeningOK
<1>3. CASE CloseOverlay
  <2>1. FormOK'
    BY <1>3, NoEnvOK DEF CloseOverlay, FormOK, Closed, Types
  <2> QED
    BY <1>3, <2>1 DEF CloseOverlay, IInv, VaultOK, Stored, JobsOK, OpeningOK, SavingOK, AddingOK
<1>4. CASE \E s \in saving : SaveFails(s)
  BY <1>4 DEF SaveFails, IInv, VaultOK, Stored, JobsOK, OpeningOK, FormOK, SavingOK, AddingOK
<1> QED
  BY <1>1, <1>2, <1>3, <1>4, OpenStep, ShowDetailStep, TypeStep, SaveStep, SaveAppliedStep DEF Gui

LEMMA StepOK == IInv /\ [Next]_vars => IInv'
<1> SUFFICES ASSUME IInv, [Next]_vars PROVE IInv'
  OBVIOUS
<1>1. CASE UNCHANGED vars
  BY <1>1 DEF vars, guiVars, IInv, VaultOK, Stored, JobsOK, OpeningOK, FormOK, SavingOK, AddingOK
<1> QED
  BY <1>1, CommandStep, GuiStep DEF Next

LEMMA Inductive == Spec => []IInv
BY InitOK, StepOK, PTL DEF Spec

-----------------------------------------------------------------------------
\* The vault, the commands and the omnibox keep the form the code gives them.
THEOREM TypeCorrect == Spec => []TypeOK
<1>1. IInv => TypeOK
  <2> SUFFICES ASSUME IInv PROVE TypeOK
    OBVIOUS
  <2>1. vault \in [DOMAIN vault -> Envelope]
    BY DEF IInv, VaultOK, Stored, Made
  <2> QED
    BY <2>1 DEF IInv, VaultOK, JobsOK, JobOK, OpeningOK, FormOK, SavingOK, TypeOK
<1> QED
  BY <1>1, Inductive, PTL

\* Whatever edits, saves and imports race: every stored entry is encrypted once, and its name
\* and metadata tell of the fields in its payload.
THEOREM StoredWhole == Spec => []EntriesWhole
<1>1. IInv => EntriesWhole
  BY DEF IInv, VaultOK, Stored, Made, EntriesWhole, Readable
<1> QED
  BY <1>1, Inductive, PTL

\* No entry's secret is stored under, shown for or injected for another entry.
THEOREM SecretsStay == Spec => []SecretsBelong
<1>1. IInv => SecretsBelong
  <2> SUFFICES ASSUME IInv PROVE SecretsBelong
    OBVIOUS
  <2>1. \A id \in DOMAIN vault : vault[id].payload.body.value = id
    BY DEF IInv, VaultOK, Stored, Made
  <2>2. ASSUME NEW c \in Commands
        PROVE  /\ At(c, "shown") => job[c].env.payload.body.value = job[c].id
               /\ At(c, "child") =>
                    \A k \in DOMAIN Refs :
                      Refs[k].field = "primary" => job[c].values[k].read = job[c].values[k].id
    <3>1. JobOK(job[c]) /\ job[c] \in Job
      BY DEF IInv, JobsOK, JobOK
    <3>2. At(c, "child") => DOMAIN job[c].values = DOMAIN Refs
      BY <3>1, ClientsAssumption DEF JobOK, Job, At
    <3> QED
      BY <3>1, <3>2 DEF JobOK, Made, At
  <2> QED
    BY <2>1, <2>2 DEF IInv, FormOK, SecretsBelong
<1> QED
  BY <1>1, Inductive, PTL

\* What a search found is used only when it was the only match or a user picked it, and
\* inject starts its child with every reference resolved.
THEOREM MatchesSole == Spec => []SoleMatch
<1>1. IInv => SoleMatch
  <2> SUFFICES ASSUME IInv, NEW c \in Commands
               PROVE  /\ At(c, "child") => Len(job[c].values) = Len(Refs)
                      /\ job[c].cmd = "inject" =>
                           \A k \in DOMAIN job[c].values : job[c].matched[k] = {job[c].values[k].id}
                      /\ job[c].id # NoId /\ job[c].matched # <<>> /\ ~job[c].tty =>
                           job[c].matched[1] = {job[c].id}
    BY Zenon DEF SoleMatch
  <2>1. JobOK(job[c])
    BY Zenon DEF IInv, JobsOK
  <2> QED
    BY Zenon, <2>1 DEF JobOK, At
<1> QED
  BY <1>1, Inductive, PTL

\* A deleted entry never comes back, whatever was open in an editor or a form.
THEOREM DeletedStays == Spec => NoReturn
<1>1. IInv /\ [Next]_vars => [\A id \in used \ DOMAIN vault : id \notin DOMAIN vault']_vars
  <2> SUFFICES ASSUME IInv, Next, NEW id \in used \ DOMAIN vault
               PROVE  id \notin DOMAIN vault'
    OBVIOUS
  <2>1. ASSUME NEW c \in Commands, Write(c)
        PROVE  id \notin DOMAIN vault'
    <3>1. CASE job[c].cmd = "add"
      <4>1. job[c].id \notin used
        BY <2>1, <3>1 DEF Write, At, IInv, AddingOK, Adding
      <4> QED
        BY <2>1, <3>1, <4>1 DEF Write, AddEntry, With
    <3>2. CASE job[c].cmd # "add"
      BY <2>1, <3>2 DEF Write, UpdateEntry
    <3> QED
      BY <3>1, <3>2
  <2>2. ASSUME NEW c \in Commands, Delete(c)
        PROVE  id \notin DOMAIN vault'
    BY <2>2 DEF Delete, DeleteEntry
  <2>3. ASSUME NEW s \in saving, SaveApplied(s)
        PROVE  id \notin DOMAIN vault'
    <3>1. s.new => s.id \notin used
      BY DEF IInv, AddingOK
    <3> QED
      BY <2>3, <3>1 DEF SaveApplied, AddEntry, UpdateEntry, With
  <2>4. CASE vault' = vault
    BY <2>4
  <2> QED
    BY Zenon, <2>1, <2>2, <2>3, <2>4 DEF Next, Command, Gui, Add, AskForId, Search, Inject, Get, Copy, Edit, ResolveRef,
       StartChild, Ends, Open, ShowDetail, ShowAdd, Type, Save, SaveFails, CloseForm, CloseOverlay
<1> QED
  BY <1>1, Inductive, PTL DEF Spec, NoReturn
=============================================================================
