----------------------------- MODULE VaultStore -----------------------------
(***************************************************************************)
(* What the storage port (internal/port/storage.go) promises its users: a  *)
(* map from identifiers to entries, whose operations happen at once or not *)
(* at all, and one optional PIN record.  BboltStore implements it.         *)
(***************************************************************************)
EXTENDS Integers, Functions

CONSTANTS EntryIds, Types, Payloads, Secrets, None

VARIABLES
  now,
  vault,     \* id -> entry
  deleted,   \* the ids whose entry was deleted
  pin        \* the hash and salt of the PIN, or None

absVars == <<now, vault, deleted, pin>>

Put(m, k, v) == [x \in DOMAIN m \cup {k} |-> IF x = k THEN v ELSE m[x]]

\* An id is used for one entry only; both timestamps are the time of the call.
CreateEntry(id) ==
  /\ id \in EntryIds \ (DOMAIN vault \cup deleted)
  /\ \E type \in Types, payload \in Payloads, at \in 0..now :
       vault' = Put(vault, id, [type |-> type, payload |-> payload,
                                createdAt |-> at, updatedAt |-> at])
  /\ UNCHANGED <<now, deleted, pin>>

\* An update keeps the creation time and never moves updatedAt back.
UpdateEntry(id) ==
  /\ id \in DOMAIN vault
  /\ \E type \in Types, payload \in Payloads, at \in vault[id].updatedAt..now :
       vault' = [vault EXCEPT ![id] = [type |-> type, payload |-> payload,
                                       createdAt |-> vault[id].createdAt, updatedAt |-> at]]
  /\ UNCHANGED <<now, deleted, pin>>

DeleteEntry(id) ==
  /\ id \in DOMAIN vault
  /\ vault' = Restrict(vault, DOMAIN vault \ {id})
  /\ deleted' = deleted \cup {id}
  /\ UNCHANGED <<now, pin>>

\* A PIN's hash goes with the salt it was computed with.
SetPIN ==
  /\ pin' \in {<<s, s>> : s \in Secrets} \cup {None}
  /\ UNCHANGED <<now, vault, deleted>>

Tick ==
  /\ now' = now + 1
  /\ UNCHANGED <<vault, deleted, pin>>

VaultInit ==
  /\ now = 0
  /\ vault = [id \in {} |-> 0]
  /\ deleted = {}
  /\ pin = None

VaultNext ==
  \/ \E id \in EntryIds : CreateEntry(id) \/ UpdateEntry(id) \/ DeleteEntry(id)
  \/ SetPIN
  \/ Tick

VaultSpec == VaultInit /\ [][VaultNext]_absVars
=============================================================================
