----------------------------- MODULE BboltStore -----------------------------
(***************************************************************************)
(* The bbolt storage adapter (internal/adapters/storage/bbolt.go): entries *)
(* with a type index kept beside them, and the auth bucket.                *)
(*                                                                         *)
(* db.Update runs one write transaction at a time on a private copy of the *)
(* buckets; it becomes the database when it commits, and is dropped when   *)
(* its function returns an error or the process stops.  Every Get, Put and *)
(* Delete of the function is a step, so failures fall between them.        *)
(* db.View reads the last committed buckets, whatever the writer does.     *)
(*                                                                         *)
(* An entry is stored as JSON, and the adapter provides for one that no    *)
(* longer unmarshals: reading or updating it fails, and deleting it leaves *)
(* its index row behind.  bbolt locks the file while it is open, so an     *)
(* entry is damaged only while the process is down.                        *)
(***************************************************************************)
EXTENDS Integers, FiniteSets, Functions

CONSTANTS
  EntryIds,      \* the values uuid.NewV7 can return
  Types,         \* entity.EntryType
  Unspecified,   \* EntryTypeUnspecified, which List takes for "all"
  Payloads,      \* ciphertexts
  Secrets,       \* a PIN's salt, and the hash computed with it
  Keys,          \* GPG public keys
  Clients,       \* slots for the storage calls in flight
  None

ASSUME StoreAssumption ==
  /\ Unspecified \in Types
  /\ None \notin EntryIds \cup Secrets \cup Keys \cup Clients \cup Types \cup Payloads

VARIABLES
  now,
  disk,     \* the committed buckets
  work,     \* the writer's copy of the buckets; disk when nobody writes
  writer,   \* the call that holds bbolt's write lock, or None
  req,      \* the calls in flight: where they are, and their arguments
  used,     \* history: the ids uuid.NewV7 returned
  deleted,  \* history: the ids of deleted entries
  damaged   \* the ids whose stored entry does not unmarshal, or did not when it was deleted

vars == <<now, disk, work, writer, req, used, deleted, damaged>>

Entry == [type : Types, payload : Payloads, createdAt : Nat, updatedAt : Nat]

Buckets(b) ==
  /\ DOMAIN b = {"entries", "indexType", "hash", "salt", "key"}
  /\ DOMAIN b.entries \subseteq EntryIds /\ b.entries \in [DOMAIN b.entries -> Entry]
  /\ b.indexType \subseteq Types \X EntryIds
  /\ b.hash \in Secrets \cup {None} /\ b.salt \in Secrets \cup {None}
  /\ b.key \in Keys \cup {None}

\* The sections of each operation's transaction, first to last.
CreateLabels == {"c_put", "c_index"}
UpdateLabels == {"u_get", "u_unindex", "u_index", "u_put"}
DeleteLabels == {"d_get", "d_unindex", "d_remove"}
AuthLabels   == {"p_hash", "p_salt", "x_hash", "x_salt", "k_put"}
TxLabels == CreateLabels \cup UpdateLabels \cup DeleteLabels \cup AuthLabels \cup {"commit"}

\* The first section of each operation.
Starts == {"c_put", "u_get", "d_get", "p_hash", "x_hash", "k_put"}

Request == [at : {"idle", "lock"} \cup TxLabels, start : Starts,
            id : EntryIds \cup {None}, entry : Entry \cup {None},
            secret : Secrets \cup {None}, key : Keys \cup {None}]

Idle == [at |-> "idle", start |-> "u_get", id |-> None, entry |-> None,
         secret |-> None, key |-> None]

TypeOK ==
  /\ now \in Nat
  /\ Buckets(disk) /\ Buckets(work)
  /\ writer \in Clients \cup {None}
  /\ req \in [Clients -> Request]
  /\ used \subseteq EntryIds /\ deleted \subseteq EntryIds /\ damaged \subseteq EntryIds
  /\ \A c \in Clients :
       /\ req[c].at \in TxLabels <=> writer = c
       /\ req[c].at # "idle" =>
            /\ req[c].start \in {"c_put", "u_get", "d_get"} => req[c].id \in EntryIds
            /\ req[c].start \in {"c_put", "u_get"} => req[c].entry \in Entry
            /\ req[c].start = "p_hash" => req[c].secret \in Secrets
            /\ req[c].start = "k_put" => req[c].key \in Keys

-----------------------------------------------------------------------------
\* Buckets.

Put(m, k, v)  == [x \in DOMAIN m \cup {k} |-> IF x = k THEN v ELSE m[x]]
Remove(m, k)  == Restrict(m, DOMAIN m \ {k})
TypeIndexKey(type, id) == <<type, id>>

\* List: every entry, or a scan of the index rows of one type; a row whose
\* entry is gone is skipped, and one entry that does not unmarshal fails it all.
Scan(b, type) ==
  IF type = Unspecified
    THEN DOMAIN b.entries
    ELSE {id \in EntryIds : TypeIndexKey(type, id) \in b.indexType} \cap DOMAIN b.entries
List(b, type) == IF Scan(b, type) \cap damaged = {} THEN Scan(b, type) ELSE None

\* GetPINHash: ErrNotFound unless both halves are there.
GetPINHash(b) == IF None \in {b.hash, b.salt} THEN None ELSE <<b.hash, b.salt>>

\* The rows an index of these entries has.
Rows(entries) == {TypeIndexKey(entries[id].type, id) : id \in DOMAIN entries}

-----------------------------------------------------------------------------
\* Calls.

At(c, label) == req[c].at = label
Goto(c, label) == req' = [req EXCEPT ![c].at = label]

Arrive(c, r) ==
  /\ At(c, "idle")
  /\ req' = [req EXCEPT ![c] = r]
  /\ UNCHANGED <<now, disk, work, writer, deleted, damaged>>

\* Create picks the id and reads the clock before its transaction.
CreateCall(c) ==
  \E id \in EntryIds \ used, type \in Types, payload \in Payloads :
    /\ Arrive(c, [Idle EXCEPT !.at = "lock", !.start = "c_put", !.id = id,
                              !.entry = [type |-> type, payload |-> payload,
                                         createdAt |-> now, updatedAt |-> now]])
    /\ used' = used \cup {id}

\* Update is called with whatever timestamps the client sent.
UpdateCall(c) ==
  \E id \in used, type \in Types, payload \in Payloads :
    /\ Arrive(c, [Idle EXCEPT !.at = "lock", !.start = "u_get", !.id = id,
                              !.entry = [type |-> type, payload |-> payload,
                                         createdAt |-> now, updatedAt |-> now]])
    /\ UNCHANGED used

DeleteCall(c) ==
  \E id \in used :
    /\ Arrive(c, [Idle EXCEPT !.at = "lock", !.start = "d_get", !.id = id])
    /\ UNCHANGED used

\* StorePINHash, DeletePINHash, StoreAuthKey.
AuthCall(c) ==
  /\ \/ \E s \in Secrets : Arrive(c, [Idle EXCEPT !.at = "lock", !.start = "p_hash", !.secret = s])
     \/ Arrive(c, [Idle EXCEPT !.at = "lock", !.start = "x_hash"])
     \/ \E k \in Keys : Arrive(c, [Idle EXCEPT !.at = "lock", !.start = "k_put", !.key = k])
  /\ UNCHANGED used

-----------------------------------------------------------------------------
\* The write transaction.

Begin(c) ==
  /\ At(c, "lock")
  /\ writer = None
  /\ writer' = c
  /\ work' = disk
  /\ Goto(c, req[c].start)
  /\ UNCHANGED <<now, disk, used, deleted, damaged>>

\* One call of the transaction function: the copy changes, nothing else does.
Section(c, from, to, buckets) ==
  /\ At(c, from)
  /\ work' = buckets
  /\ Goto(c, to)
  /\ UNCHANGED <<now, disk, writer, used, deleted, damaged>>

\* Mutant: the lock is not released.
RollbackLocked(c) ==
  /\ writer = c
  /\ work' = disk
  /\ req' = [req EXCEPT ![c] = Idle]
  /\ UNCHANGED <<now, disk, writer, used, deleted, damaged>>

\* The function or the commit returns an error: ErrNotFound, or any failure.
Rollback(c) ==
  /\ writer = c
  /\ work' = disk
  /\ writer' = None
  /\ req' = [req EXCEPT ![c] = Idle]
  /\ UNCHANGED <<now, disk, used, deleted, damaged>>

Commit(c) ==
  /\ At(c, "commit")
  /\ disk' = work
  /\ writer' = None
  /\ req' = [req EXCEPT ![c] = Idle]
  /\ deleted' = deleted \cup (DOMAIN disk.entries \ DOMAIN work.entries)
  /\ UNCHANGED <<now, work, used, damaged>>

WithEntry(b, id, e)  == [b EXCEPT !.entries = Put(b.entries, id, e)]
WithRow(b, type, id) == [b EXCEPT !.indexType = b.indexType \cup {TypeIndexKey(type, id)}]
WithoutRow(b, type, id) == [b EXCEPT !.indexType = b.indexType \ {TypeIndexKey(type, id)}]

Create(c) ==
  LET id == req[c].id  e == req[c].entry IN
    \/ Section(c, "c_put", "c_index", WithEntry(work, id, e))
    \/ Section(c, "c_index", "commit", WithRow(work, e.type, id))

\* Update: ErrNotFound, or an entry that does not unmarshal, rolls back; the index
\* moves only when the type changes.
UpdateGet(c) ==
  LET id == req[c].id IN
    \/ At(c, "u_get") /\ id \notin DOMAIN work.entries \ damaged /\ Rollback(c)
    \/ /\ id \in DOMAIN work.entries \ damaged
       /\ Section(c, "u_get",
                  IF work.entries[id].type # req[c].entry.type THEN "u_unindex" ELSE "u_put",
                  work)

UpdateIndex(c) ==
  LET id == req[c].id IN
    \/ Section(c, "u_unindex", "u_index", WithoutRow(work, work.entries[id].type, id))
    \/ Section(c, "u_index", "u_put", WithRow(work, req[c].entry.type, id))

\* Mutant: UpdatedAt is the client's, read before the transaction.
UpdatePutClientTime(c) ==
  LET id == req[c].id IN
    Section(c, "u_put", "commit",
            WithEntry(work, id, [req[c].entry EXCEPT !.createdAt = work.entries[id].createdAt]))

UpdatePut(c) ==
  LET id == req[c].id IN
    Section(c, "u_put", "commit",
            WithEntry(work, id, [req[c].entry EXCEPT !.createdAt = work.entries[id].createdAt,
                                                     !.updatedAt = now]))

\* Mutant: DeleteByID leaves the index alone.
DeleteKeepsRow(c) ==
  LET id == req[c].id IN
    \/ At(c, "d_get") /\ id \notin DOMAIN work.entries /\ Rollback(c)
    \/ id \in DOMAIN work.entries /\ Section(c, "d_get", "d_remove", work)
    \/ Section(c, "d_remove", "commit", [work EXCEPT !.entries = Remove(work.entries, id)])

\* The type is read from the stored entry: one that does not unmarshal is deleted
\* without its row ("type index may be stale").
DeleteByID(c) ==
  LET id == req[c].id IN
    \/ At(c, "d_get") /\ id \notin DOMAIN work.entries /\ Rollback(c)
    \/ /\ id \in DOMAIN work.entries
       /\ Section(c, "d_get", IF id \in damaged THEN "d_remove" ELSE "d_unindex", work)
    \/ Section(c, "d_unindex", "d_remove", WithoutRow(work, work.entries[id].type, id))
    \/ Section(c, "d_remove", "commit", [work EXCEPT !.entries = Remove(work.entries, id)])

StorePINHash(c) ==
  \/ Section(c, "p_hash", "p_salt", [work EXCEPT !.hash = req[c].secret])
  \/ Section(c, "p_salt", "commit", [work EXCEPT !.salt = req[c].secret])

DeletePINHash(c) ==
  \/ Section(c, "x_hash", "x_salt", [work EXCEPT !.hash = None])
  \/ Section(c, "x_salt", "commit", [work EXCEPT !.salt = None])

StoreAuthKey(c) == Section(c, "k_put", "commit", [work EXCEPT !.key = req[c].key])

-----------------------------------------------------------------------------
\* The process stops and NewBboltStore opens the file again: its buckets exist, and
\* any of the entries may have been damaged meanwhile.
Reopen ==
  /\ \E ids \in SUBSET DOMAIN disk.entries : damaged' = damaged \cup ids
  /\ work' = disk
  /\ writer' = None
  /\ req' = [c \in Clients |-> Idle]
  /\ UNCHANGED <<now, disk, used, deleted>>

Tick == now' = now + 1 /\ UNCHANGED <<disk, work, writer, req, used, deleted, damaged>>

Blank == [entries |-> [id \in {} |-> 0], indexType |-> {},
          hash |-> None, salt |-> None, key |-> None]

Init ==
  /\ now = 0
  /\ disk = Blank /\ work = Blank
  /\ writer = None
  /\ req = [c \in Clients |-> Idle]
  /\ used = {} /\ deleted = {} /\ damaged = {}

Calls(c) == CreateCall(c) \/ UpdateCall(c) \/ DeleteCall(c) \/ AuthCall(c)

Transaction(c) ==
  \/ Begin(c) \/ Create(c) \/ DeleteByID(c)
  \/ UpdateGet(c) \/ UpdateIndex(c) \/ UpdatePut(c)
  \/ StorePINHash(c) \/ DeletePINHash(c) \/ StoreAuthKey(c)
  \/ Commit(c) \/ Rollback(c)

Next ==
  \/ \E c \in Clients : Calls(c) \/ Transaction(c)
  \/ Reopen
  \/ Tick

Spec == Init /\ [][Next]_vars

-----------------------------------------------------------------------------
\* Properties.

\* The committed index has exactly one row per entry, under its type, but for the rows
\* of entries that were deleted when they did not unmarshal (the code's "type index may
\* be stale", bbolt.go:265-266).  Those mislead no list: List by type answers what a
\* filter of all the entries would, and fails only while a damaged entry of that very
\* type is stored.  No update of the type, delete, failure, crash or damage leaves any
\* other row behind or drops one.
IndexExact ==
  /\ {row \in disk.indexType : row[2] \notin damaged \ DOMAIN disk.entries} = Rows(disk.entries)
  /\ \A type \in Types \ {Unspecified} :
       LET ofType == {id \in DOMAIN disk.entries : disk.entries[id].type = type}
       IN  List(disk, type) = IF ofType \cap damaged = {} THEN ofType ELSE None

\* The store is the vault the storage port describes: whatever fails or stops in
\* the middle, an operation happens whole or not at all, ids are not used twice,
\* createdAt is kept and updatedAt never moves back.  The vault holds what was stored:
\* a damaged entry can be deleted and not updated.
Vault == INSTANCE VaultStore WITH vault <- disk.entries, pin <- GetPINHash(disk)
VaultSpec == Vault!VaultSpec
=============================================================================
