---------------------------- MODULE VaultEntries ----------------------------
(***************************************************************************)
(* What the clients know of an entry: the envelope with its payload        *)
(* (domain/entity), how commands search for one (domain/service/search.go) *)
(* and which field of it they use (inject.go).                             *)
(*                                                                         *)
(* Texts are compared after folding case. A secret value (a password, a    *)
(* secret's value, a note's content) is known by the entry it was typed    *)
(* for, so that a mix-up of two entries shows.                             *)
(***************************************************************************)
EXTENDS Integers, Sequences

CONSTANTS
  Ids,        \* identifiers of entries
  Texts,      \* sites, usernames, names, queries
  Blank,      \* the empty text
  Host,       \* ExtractDomain: site -> its host, or the site when it has none
  Contains    \* the pairs of a text and a part of it

ASSUME TextsAssumption ==
  /\ Blank \in Texts
  /\ Host \in [Texts -> Texts]
  /\ Contains \subseteq Texts \X Texts

\* A note is to its content what a secret is to its value.
Types  == {"login", "secret"}
Fields == {"primary", "username", "site", "name"}

\* The JSON of entity.Login, Secret or Note, and how often it is encrypted.
Body    == [site : Texts, username : Texts, name : Texts, value : Ids]
Payload == [layers : Nat, body : Body]

\* Meta is the site and the username, both blank when it is nil. A name is the
\* texts it is put together from.
Envelope == [type : Types, name : Seq(Texts), site : Texts, username : Texts, payload : Payload]

\* DeriveLoginName and, with the name of the item, MapLoginToEnvelope.
NameWith(text, username) == IF username = Blank THEN <<text>> ELSE <<text, username>>
DeriveLoginName(site, username) == NameWith(Host[site], username)

LoginBody(site, username, value) ==
  [site |-> site, username |-> username, name |-> Blank, value |-> value]

NamedBody(name, value) ==
  [site |-> Blank, username |-> Blank, name |-> name, value |-> value]

NewPayload(body) == [layers |-> 0, body |-> body]

LoginEnvelope(name, site, username, value) ==
  [type |-> "login", name |-> name, site |-> site, username |-> username,
   payload |-> NewPayload(LoginBody(site, username, value))]

\* A secret, or a note.
NamedEnvelope(name, value) ==
  [type |-> "secret", name |-> <<name>>, site |-> Blank, username |-> Blank,
   payload |-> NewPayload(NamedBody(name, value))]

\* VaultService encrypts what it is given, whatever that is.
Encrypt(env) == [env EXCEPT !.payload.layers = @ + 1]

\* Only a payload encrypted once is JSON again when it is decrypted.
Readable(env) == env.payload.layers = 1

\* Name and metadata tell of the fields in the payload: a login's site and username, and
\* the username in its name; the name of a secret or a note.
Told(env) ==
  LET body == env.payload.body IN
  \/ /\ env.type = "login"
     /\ env.site = body.site /\ env.username = body.username
     /\ \E text \in Texts : env.name = NameWith(text, body.username)
  \/ /\ env.type # "login"
     /\ env.site = Blank /\ env.username = Blank /\ env.name = <<body.name>>

-----------------------------------------------------------------------------
\* MatchesOpts: the domain, or else the email, or else the query.
Criteria == {"domain", "email", "query"}

MatchesOpts(env, by, text) ==
  \/ by = "domain" /\ <<env.site, text>> \in Contains
  \/ by = "email" /\ env.username = text
  \/ /\ by = "query"
     /\ \E part \in {env.name[i] : i \in DOMAIN env.name} \cup {env.site, env.username} :
          <<part, text>> \in Contains

FilterEntries(entries, by, text) == {id \in DOMAIN entries : MatchesOpts(entries[id], by, text)}

\* extractField: "primary" is the password, the value or the content.
HasField(env, field) ==
  \/ field = "primary"
  \/ env.type = "login" /\ field \in {"username", "site"}
  \/ env.type # "login" /\ field = "name"

extractField(env, field) ==
  CASE field = "primary"  -> env.payload.body.value
    [] field = "username" -> env.payload.body.username
    [] field = "site"     -> env.payload.body.site
    [] OTHER              -> env.payload.body.name
=============================================================================
