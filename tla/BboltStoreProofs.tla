-------------------------- MODULE BboltStoreProofs --------------------------
(***************************************************************************)
(* BboltStore keeps its index exact and implements VaultStore, for any     *)
(* number of clients and entries.  The inductive invariant says what each  *)
(* section of a transaction has made of the committed buckets so far.      *)
(***************************************************************************)
EXTENDS BboltStore, TLAPS

Map       == UNION {[D -> Entry] : D \in SUBSET EntryIds}
BucketSet == [entries : Map, indexType : SUBSET (Types \X EntryIds),
              hash : Secrets \cup {None}, salt : Secrets \cup {None}, key : Keys \cup {None}]

\* A call, by its arguments and where it is.
RequestOK(r, ids) ==
  /\ r \in Request
  /\ r.at # "idle" =>
       /\ r.start \in {"c_put", "u_get", "d_get"} => r.id \in ids
       /\ r.start \in {"c_put", "u_get"} => r.entry \in Entry
       /\ r.start = "p_hash" => r.secret \in Secrets
       /\ r.start = "k_put" => r.key \in Keys
  /\ r.at \in CreateLabels => r.start = "c_put"
  /\ r.at \in UpdateLabels => r.start = "u_get"
  /\ r.at \in DeleteLabels => r.start = "d_get"
  /\ r.at \in {"p_hash", "p_salt"} => r.start = "p_hash"
  /\ r.at \in {"x_hash", "x_salt"} => r.start = "x_hash"
  /\ r.at = "k_put" => r.start = "k_put"

\* A new id is nobody else's, and both its timestamps are a time that has been.
Creating(r) == r.at # "idle" /\ r.start = "c_put"
NewOK(r) ==
  Creating(r) => /\ r.id \notin DOMAIN disk.entries \cup deleted
                 /\ r.entry.createdAt = r.entry.updatedAt /\ r.entry.updatedAt <= now

OldRow(b, id)      == TypeIndexKey(b.entries[id].type, id)
Moved(b, id, type) == (b.indexType \ {OldRow(b, id)}) \cup {TypeIndexKey(type, id)}
Unindexed(b, id, bad) ==
  IF id \in bad THEN b.indexType ELSE b.indexType \ {OldRow(b, id)}
Updated(b, r, at)  == [r.entry EXCEPT !.createdAt = b.entries[r.id].createdAt, !.updatedAt = at]

\* Buckets w are b with other entries and index rows, or with another auth bucket.
Entries(b, w, entries, rows) ==
  /\ w.entries = entries /\ w.indexType = rows
  /\ w.hash = b.hash /\ w.salt = b.salt /\ w.key = b.key
Auth(b, w, hash, salt, key) ==
  /\ w.entries = b.entries /\ w.indexType = b.indexType
  /\ w.hash = hash /\ w.salt = salt /\ w.key = key

\* What the transaction of a call has made, by time t, of the committed buckets b, when
\* the entries of bad do not unmarshal.
Outcome(r, b, w, t, bad) ==
  /\ r.start = "c_put" =>
       Entries(b, w, Put(b.entries, r.id, r.entry), b.indexType \cup {TypeIndexKey(r.entry.type, r.id)})
  /\ r.start = "u_get" =>
       \E at \in Nat : /\ b.entries[r.id].updatedAt <= at /\ at <= t
                      /\ Entries(b, w, Put(b.entries, r.id, Updated(b, r, at)),
                                 Moved(b, r.id, r.entry.type))
  /\ r.start = "d_get" =>
       Entries(b, w, Remove(b.entries, r.id), Unindexed(b, r.id, bad))
  /\ r.start \in {"u_get", "d_get"} => r.id \in DOMAIN b.entries
  /\ r.start = "p_hash" => Auth(b, w, r.secret, r.secret, b.key)
  /\ r.start = "x_hash" => Auth(b, w, None, None, b.key)
  /\ r.start = "k_put" => Auth(b, w, b.hash, b.salt, r.key)

SoFar(r, b, w, t, bad) ==
  /\ r.at \in Starts \cup {"u_unindex", "d_unindex"} => Entries(b, w, b.entries, b.indexType)
  /\ r.at \in {"u_unindex", "u_index", "u_put", "d_unindex", "d_remove"} => r.id \in DOMAIN b.entries
  /\ r.at = "c_index" => Entries(b, w, Put(b.entries, r.id, r.entry), b.indexType)
  /\ r.at = "d_unindex" => r.id \notin bad
  /\ r.at = "u_index" => Entries(b, w, b.entries, b.indexType \ {OldRow(b, r.id)})
  /\ r.at = "d_remove" => Entries(b, w, b.entries, Unindexed(b, r.id, bad))
  /\ r.at = "u_put" => Entries(b, w, b.entries, Moved(b, r.id, r.entry.type))
  /\ r.at = "p_salt" => Auth(b, w, r.secret, b.salt, b.key)
  /\ r.at = "x_salt" => Auth(b, w, None, b.salt, b.key)
  /\ r.at = "commit" => Outcome(r, b, w, t, bad)

\* The rows that are not left over from the deletion of an entry of bad.
Live(b, bad) == {row \in b.indexType : row[2] \notin bad \ DOMAIN b.entries}

DiskOK ==
  /\ now \in Nat
  /\ disk \in BucketSet
  /\ Live(disk, damaged) = Rows(disk.entries)
  /\ disk.hash = disk.salt
  /\ \A id \in DOMAIN disk.entries : disk.entries[id].updatedAt <= now
IdsOK ==
  /\ used \subseteq EntryIds /\ deleted \subseteq used /\ DOMAIN disk.entries \subseteq used \ deleted
  /\ damaged \subseteq DOMAIN disk.entries \cup deleted
CallsOK ==
  /\ req \in [Clients -> Request]
  /\ \A c \in Clients : RequestOK(req[c], used) /\ NewOK(req[c])
  /\ \A c, d \in Clients : Creating(req[c]) /\ Creating(req[d]) /\ req[c].id = req[d].id => c = d
WriterOK ==
  /\ writer \in Clients \cup {None} /\ work \in BucketSet
  /\ \A c \in Clients : req[c].at \in TxLabels <=> writer = c
  /\ writer = None => work = disk
  /\ writer # None => SoFar(req[writer], disk, work, now, damaged)

IInv == DiskOK /\ IdsOK /\ CallsOK /\ WriterOK

-----------------------------------------------------------------------------
\* Maps and buckets.

LEMMA EntryType == ASSUME NEW m \in Map PROVE
  /\ DOMAIN m \subseteq EntryIds /\ m \in [DOMAIN m -> Entry]
BY DEF Map

LEMMA PutMap ==
  ASSUME NEW m \in Map, NEW id \in EntryIds, NEW e \in Entry
  PROVE  /\ Put(m, id, e) \in Map /\ DOMAIN Put(m, id, e) = DOMAIN m \cup {id}
         /\ \A x \in DOMAIN m \cup {id} : Put(m, id, e)[x] = IF x = id THEN e ELSE m[x]
<1>1. Put(m, id, e) \in [DOMAIN m \cup {id} -> Entry]
  BY EntryType DEF Put
<1>2. DOMAIN m \cup {id} \in SUBSET EntryIds
  BY EntryType
<1> QED
  BY <1>1, <1>2 DEF Map, Put

LEMMA RemoveMap ==
  ASSUME NEW m \in Map, NEW id
  PROVE  /\ Remove(m, id) \in Map /\ DOMAIN Remove(m, id) = DOMAIN m \ {id}
         /\ \A x \in DOMAIN m \ {id} : Remove(m, id)[x] = m[x]
<1>1. Remove(m, id) \in [DOMAIN m \ {id} -> Entry]
  BY EntryType DEF Remove, Restrict
<1>2. DOMAIN m \ {id} \in SUBSET EntryIds
  BY EntryType
<1> QED
  BY Zenon, <1>1, <1>2 DEF Map, Remove, Restrict

LEMMA BucketTypes ==
  ASSUME NEW b \in BucketSet
  PROVE  Buckets(b)
BY EntryType DEF BucketSet, Buckets

LEMMA RowIn ==
  ASSUME NEW m, NEW row
  PROVE  row \in Rows(m) <=> \E x \in DOMAIN m : row = <<m[x].type, x>>
BY DEF Rows, TypeIndexKey

LEMMA RowsPut ==
  ASSUME NEW m \in Map, NEW id \in EntryIds, NEW e \in Entry
  PROVE  Rows(Put(m, id, e)) =
           (Rows(m) \ (IF id \in DOMAIN m THEN {TypeIndexKey(m[id].type, id)} ELSE {}))
             \cup {TypeIndexKey(e.type, id)}
<1> DEFINE new == Put(m, id, e)
           old == IF id \in DOMAIN m THEN {TypeIndexKey(m[id].type, id)} ELSE {}
<1>1. DOMAIN new = DOMAIN m \cup {id} /\ \A x \in DOMAIN m \cup {id} : new[x] = IF x = id THEN e ELSE m[x]
  BY DEF Put
<1> HIDE DEF new
<1>2. \A row : row \in Rows(new) <=> \E x \in DOMAIN m \cup {id} : row = <<new[x].type, x>>
  BY <1>1, RowIn
<1>3. \A row : row \in Rows(m) \ old <=> \E x \in DOMAIN m \ {id} : row = <<m[x].type, x>>
  BY RowIn DEF TypeIndexKey
<1>4. \A row : row \in Rows(new) <=> row \in Rows(m) \ old \/ row = <<e.type, id>>
  BY <1>1, <1>2, <1>3
<1> QED
  BY <1>4 DEF new, TypeIndexKey

LEMMA RowsRemove ==
  ASSUME NEW m \in Map, NEW id \in DOMAIN m
  PROVE  Rows(Remove(m, id)) = Rows(m) \ {TypeIndexKey(m[id].type, id)}
<1> DEFINE new == Remove(m, id)
<1>1. DOMAIN new = DOMAIN m \ {id} /\ \A x \in DOMAIN m \ {id} : new[x] = m[x]
  BY DEF Remove, Restrict
<1> HIDE DEF new
<1>2. \A row : row \in Rows(new) <=> \E x \in DOMAIN m \ {id} : row = <<m[x].type, x>>
  BY <1>1, RowIn
<1>3. \A row : row \in Rows(m) \ {TypeIndexKey(m[id].type, id)}
                 <=> \E x \in DOMAIN m \ {id} : row = <<m[x].type, x>>
  BY RowIn DEF TypeIndexKey
<1> QED
  BY <1>2, <1>3 DEF new

LEMMA RowsTyped ==
  ASSUME NEW m \in Map
  PROVE  Rows(m) \subseteq Types \X EntryIds
BY EntryType DEF Rows, TypeIndexKey, Entry

\* The live rows after an entry is deleted: its own goes, or is live no more.
LEMMA LiveRemove ==
  ASSUME NEW b, NEW w, NEW bad, NEW id \in DOMAIN b.entries,
         DOMAIN w.entries = DOMAIN b.entries \ {id},
         w.indexType = Unindexed(b, id, bad), Live(b, bad) = Rows(b.entries)
  PROVE  Live(w, bad) = Rows(b.entries) \ {OldRow(b, id)}
<1>1. \A row \in Rows(b.entries) : row[2] = id <=> row = OldRow(b, id)
  BY DEF Rows, OldRow, TypeIndexKey
<1>2. CASE id \in bad
  <2>1. \A x : x \in bad \ DOMAIN w.entries <=> x \in bad \ DOMAIN b.entries \/ x = id
    BY <1>2
  <2>2. Live(w, bad) = {row \in Live(b, bad) : row[2] # id}
    BY <1>2, <2>1 DEF Live, Unindexed
  <2> QED
    BY <1>1, <2>2
<1>3. CASE id \notin bad
  <2>1. bad \ DOMAIN w.entries = bad \ DOMAIN b.entries
    BY <1>3
  <2> QED
    BY <1>3, <2>1 DEF Live, Unindexed
<1> QED
  BY <1>2, <1>3

-----------------------------------------------------------------------------
\* Calls.

LEMMA IdleOK == Idle \in Request /\ Idle.at = "idle"
BY DEF Idle, Request, Starts

LEMMA InitOK == Init => IInv
<1> SUFFICES ASSUME Init PROVE IInv
  OBVIOUS
<1>1. [id \in {} |-> 0] \in Map /\ Rows([id \in {} |-> 0]) = {}
  <2>1. [id \in {} |-> 0] \in [{} -> Entry]
    OBVIOUS
  <2> QED
    BY <2>1 DEF Map, Rows
<1>2. DiskOK /\ IdsOK
  BY <1>1 DEF Init, Blank, DiskOK, IdsOK, BucketSet, Live
<1>3. CallsOK
  BY IdleOK DEF Init, CallsOK, RequestOK, NewOK, Creating, CreateLabels, UpdateLabels, DeleteLabels, Idle
<1>4. WriterOK
  BY <1>2, StoreAssumption DEF Init, DiskOK, WriterOK, Idle, TxLabels, CreateLabels, UpdateLabels, DeleteLabels, AuthLabels
<1> QED
  BY <1>2, <1>3, <1>4 DEF IInv

\* A call arrives and changes nothing but its own slot and the ids given out.
LEMMA Arrives ==
  ASSUME IInv, NEW c \in Clients, NEW r, Arrive(c, r), r.at = "lock",
         RequestOK(r, used'), NewOK(r), Creating(r) => r.id \notin used,
         used \subseteq used', used' \subseteq EntryIds
  PROVE  IInv'
<1>1. UNCHANGED <<now, disk, work, writer, deleted, damaged>> /\ req[c].at = "idle"
  BY DEF Arrive, At
<1>2. req' = [req EXCEPT ![c] = r] /\ r \in Request
  BY DEF Arrive, RequestOK
<1>3. req'[c] = r /\ \A d \in Clients \ {c} : req'[d] = req[d]
  BY <1>2 DEF IInv, CallsOK
<1>4. \A d \in Clients \ {c} : RequestOK(req'[d], used')
  BY <1>3 DEF IInv, CallsOK, RequestOK
<1>5. \A d \in Clients : NewOK(req[d])'
  BY <1>1, <1>3 DEF IInv, CallsOK, NewOK, Creating
<1>6. \A d \in Clients : Creating(req[d]) => req[d].id \in used
  BY DEF IInv, CallsOK, Creating, RequestOK
<1>7. \A d, e \in Clients : Creating(req'[d]) /\ Creating(req'[e]) /\ req'[d].id = req'[e].id => d = e
  BY <1>3, <1>6 DEF IInv, CallsOK
<1>8. CallsOK'
  BY <1>2, <1>3, <1>4, <1>5, <1>7 DEF IInv, CallsOK, Creating
<1>9. WriterOK'
  <2>1. writer # c /\ r.at \notin TxLabels
    BY <1>1 DEF IInv, WriterOK, TxLabels, CreateLabels, UpdateLabels, DeleteLabels, AuthLabels
  <2>2. writer # None => req'[writer] = req[writer]
    BY <1>3, <2>1 DEF IInv, WriterOK
  <2> QED
    BY <1>1, <1>3, <2>1, <2>2 DEF IInv, WriterOK
<1> QED
  BY <1>1, <1>8, <1>9 DEF IInv, DiskOK, IdsOK

LEMMA CallsStep ==
  ASSUME IInv, NEW c \in Clients, Calls(c)
  PROVE  IInv'
<1>1. now \in Nat /\ used \subseteq EntryIds
  BY DEF IInv, DiskOK, IdsOK
<1>2. CASE CreateCall(c)
  <2>1. PICK id \in EntryIds \ used, type \in Types, payload \in Payloads :
          /\ Arrive(c, [Idle EXCEPT !.at = "lock", !.start = "c_put", !.id = id,
                                    !.entry = [type |-> type, payload |-> payload,
                                               createdAt |-> now, updatedAt |-> now]])
          /\ used' = used \cup {id}
    BY Zenon, <1>2 DEF CreateCall
  <2> DEFINE e == [type |-> type, payload |-> payload, createdAt |-> now, updatedAt |-> now]
  <2>2. e \in Entry /\ e.createdAt = e.updatedAt /\ e.updatedAt = now
    BY <1>1 DEF Entry
  <2> HIDE DEF e
  <2> DEFINE r == [Idle EXCEPT !.at = "lock", !.start = "c_put", !.id = id, !.entry = e]
  <2>3. r \in Request /\ r.at = "lock" /\ r.start = "c_put" /\ r.id = id /\ r.entry = e
    BY <2>2, IdleOK DEF Idle, Request, Starts
  <2>4. Arrive(c, r)
    BY <2>1 DEF e
  <2> HIDE DEF r
  <2>5. RequestOK(r, used')
    BY <2>1, <2>2, <2>3 DEF RequestOK, CreateLabels, UpdateLabels, DeleteLabels
  <2>6. NewOK(r)
    BY <1>1, <2>2, <2>3 DEF NewOK, IInv, IdsOK
  <2> QED
    BY <1>1, <2>1, <2>3, <2>4, <2>5, <2>6, Arrives
<1>3. CASE UpdateCall(c)
  <2>1. PICK id \in used, type \in Types, payload \in Payloads :
          Arrive(c, [Idle EXCEPT !.at = "lock", !.start = "u_get", !.id = id,
                                 !.entry = [type |-> type, payload |-> payload,
                                            createdAt |-> now, updatedAt |-> now]])
    BY Zenon, <1>3 DEF UpdateCall
  <2>2. UNCHANGED used
    BY <1>3 DEF UpdateCall
  <2> DEFINE e == [type |-> type, payload |-> payload, createdAt |-> now, updatedAt |-> now]
  <2>3. e \in Entry
    BY <1>1 DEF Entry
  <2> HIDE DEF e
  <2> DEFINE r == [Idle EXCEPT !.at = "lock", !.start = "u_get", !.id = id, !.entry = e]
  <2>4. r \in Request /\ r.at = "lock" /\ r.start = "u_get" /\ r.id = id /\ r.entry = e
    BY <1>1, <2>3, IdleOK DEF Idle, Request, Starts
  <2>5. Arrive(c, r)
    BY <2>1 DEF e
  <2> HIDE DEF r
  <2>6. RequestOK(r, used') /\ ~Creating(r)
    BY <2>2, <2>3, <2>4 DEF RequestOK, CreateLabels, UpdateLabels, DeleteLabels, Creating
  <2> QED
    BY <1>1, <2>2, <2>4, <2>5, <2>6, Arrives DEF NewOK
<1>4. CASE DeleteCall(c)
  <2>1. PICK id \in used :
          Arrive(c, [Idle EXCEPT !.at = "lock", !.start = "d_get", !.id = id]) /\ UNCHANGED used
    BY Zenon, <1>4 DEF DeleteCall
  <2> DEFINE r == [Idle EXCEPT !.at = "lock", !.start = "d_get", !.id = id]
  <2>2. r \in Request /\ r.at = "lock" /\ r.start = "d_get" /\ r.id = id
    BY <1>1, IdleOK DEF Idle, Request, Starts
  <2> HIDE DEF r
  <2>3. RequestOK(r, used') /\ ~Creating(r)
    BY <2>1, <2>2 DEF RequestOK, CreateLabels, UpdateLabels, DeleteLabels, Creating
  <2> QED
    BY <1>1, <2>1, <2>2, <2>3, Arrives DEF NewOK, r
<1>5. CASE AuthCall(c)
  <2>1. UNCHANGED used
    BY Zenon, <1>5 DEF AuthCall
  <2>2. ASSUME NEW r \in Request, r.at = "lock", r.start \in {"p_hash", "x_hash", "k_put"},
               r.start = "p_hash" => r.secret \in Secrets, r.start = "k_put" => r.key \in Keys,
               Arrive(c, r)
        PROVE  IInv'
    <3>1. RequestOK(r, used') /\ ~Creating(r)
      BY <2>2 DEF RequestOK, CreateLabels, UpdateLabels, DeleteLabels, Creating
    <3> QED
      BY <1>1, <2>1, <2>2, <3>1, Arrives DEF NewOK
  <2>3. CASE \E s \in Secrets : Arrive(c, [Idle EXCEPT !.at = "lock", !.start = "p_hash", !.secret = s])
    <3>1. PICK s \in Secrets : Arrive(c, [Idle EXCEPT !.at = "lock", !.start = "p_hash", !.secret = s])
      BY Zenon, <2>3
    <3> DEFINE r == [Idle EXCEPT !.at = "lock", !.start = "p_hash", !.secret = s]
    <3>2. r \in Request /\ r.at = "lock" /\ r.start = "p_hash" /\ r.secret = s
      BY IdleOK DEF Idle, Request, Starts
    <3>3. Arrive(c, r)
      BY <3>1
    <3> HIDE DEF r
    <3> QED
      BY <2>2, <3>2, <3>3
  <2>4. CASE Arrive(c, [Idle EXCEPT !.at = "lock", !.start = "x_hash"])
    <3> DEFINE r == [Idle EXCEPT !.at = "lock", !.start = "x_hash"]
    <3>1. r \in Request /\ r.at = "lock" /\ r.start = "x_hash"
      BY IdleOK DEF Idle, Request, Starts
    <3>2. Arrive(c, r)
      BY <2>4
    <3> HIDE DEF r
    <3> QED
      BY <2>2, <3>1, <3>2
  <2>5. CASE \E k \in Keys : Arrive(c, [Idle EXCEPT !.at = "lock", !.start = "k_put", !.key = k])
    <3>1. PICK k \in Keys : Arrive(c, [Idle EXCEPT !.at = "lock", !.start = "k_put", !.key = k])
      BY Zenon, <2>5
    <3> DEFINE r == [Idle EXCEPT !.at = "lock", !.start = "k_put", !.key = k]
    <3>2. r \in Request /\ r.at = "lock" /\ r.start = "k_put" /\ r.key = k
      BY IdleOK DEF Idle, Request, Starts
    <3>3. Arrive(c, r)
      BY <3>1
    <3> HIDE DEF r
    <3> QED
      BY <2>2, <3>2, <3>3
  <2> QED
    BY Zenon, <1>5, <2>3, <2>4, <2>5 DEF AuthCall
<1> QED
  BY <1>2, <1>3, <1>4, <1>5 DEF Calls
-----------------------------------------------------------------------------
\* The sections of a transaction.

LEMMA EntriesIn ==
  ASSUME NEW b \in BucketSet, NEW entries \in Map, NEW rows \in SUBSET (Types \X EntryIds)
  PROVE  /\ [b EXCEPT !.entries = entries] \in BucketSet
         /\ Entries(b, [b EXCEPT !.entries = entries], entries, b.indexType)
         /\ [b EXCEPT !.indexType = rows] \in BucketSet
         /\ Entries(b, [b EXCEPT !.indexType = rows], b.entries, rows)
BY DEF BucketSet, Entries

LEMMA AuthIn ==
  ASSUME NEW b \in BucketSet, NEW s \in Secrets \cup {None}, NEW k \in Keys
  PROVE  /\ [b EXCEPT !.hash = s] \in BucketSet
         /\ Auth(b, [b EXCEPT !.hash = s], s, b.salt, b.key)
         /\ [b EXCEPT !.salt = s] \in BucketSet
         /\ Auth(b, [b EXCEPT !.salt = s], b.hash, s, b.key)
         /\ [b EXCEPT !.key = k] \in BucketSet
         /\ Auth(b, [b EXCEPT !.key = k], b.hash, b.salt, k)
BY DEF BucketSet, Auth

\* A call whose place changes keeps its arguments.
LEMMA PlaceOnly ==
  ASSUME NEW r \in Request, NEW to \in {"idle", "lock"} \cup TxLabels
  PROVE  LET q == [r EXCEPT !.at = to] IN
           /\ q \in Request /\ q.at = to /\ q.start = r.start /\ q.id = r.id
           /\ q.entry = r.entry /\ q.secret = r.secret /\ q.key = r.key
BY DEF Request

LEMMA Labels ==
  /\ TxLabels = {"c_put", "c_index", "u_get", "u_unindex", "u_index", "u_put",
                 "d_get", "d_unindex", "d_remove", "p_hash", "p_salt", "x_hash", "x_salt",
                 "k_put", "commit"}
  /\ Starts \subseteq TxLabels
  /\ "idle" \notin TxLabels /\ "lock" \notin TxLabels
BY DEF TxLabels, CreateLabels, UpdateLabels, DeleteLabels, AuthLabels, Starts

\* The writer is in a transaction, and what it has written is known.
LEMMA Writing ==
  ASSUME IInv, NEW c \in Clients, req[c].at \in TxLabels
  PROVE  /\ writer = c /\ req[c] \in Request /\ RequestOK(req[c], used) /\ NewOK(req[c])
         /\ SoFar(req[c], disk, work, now, damaged)
         /\ disk \in BucketSet /\ work \in BucketSet /\ now \in Nat
         /\ disk.entries \in Map /\ used \subseteq EntryIds
<1>1. writer = c /\ c # None
  BY StoreAssumption DEF IInv, WriterOK
<1> QED
  BY <1>1 DEF IInv, WriterOK, CallsOK, DiskOK, IdsOK, RequestOK, BucketSet

\* A section keeps the invariant when what it leaves behind is what its call says.
LEMMA SectionStep ==
  ASSUME IInv, NEW c \in Clients, NEW from \in TxLabels, NEW to \in TxLabels, NEW w,
         Section(c, from, to, w), w \in BucketSet, NEW q, q = [req[c] EXCEPT !.at = to],
         RequestOK(q, used), SoFar(q, disk, w, now, damaged)
  PROVE  IInv'
<1>1. req[c].at = from /\ work' = w /\ UNCHANGED <<now, disk, writer, used, deleted, damaged>>
  BY DEF Section, At
<1>2. req' = [req EXCEPT ![c] = q]
  BY DEF Section, Goto
<1>3. /\ q.at = to /\ q.id = req[c].id /\ q.start = req[c].start /\ q.entry = req[c].entry
      /\ q \in Request
  BY PlaceOnly DEF IInv, CallsOK
<1>4. req'[c] = q /\ \A d \in Clients \ {c} : req'[d] = req[d]
  BY <1>2 DEF IInv, CallsOK
<1>5. req[c].at # "idle" /\ q.at # "idle"
  BY <1>1, <1>3, Labels
<1>6. \A d \in Clients : RequestOK(req'[d], used')
  BY <1>1, <1>4 DEF IInv, CallsOK
<1>7. NewOK(q)
  BY <1>3, <1>5 DEF IInv, CallsOK, NewOK, Creating
<1>8. \A d \in Clients : NewOK(req[d])'
  BY ZenonT(40), <1>1, <1>4, <1>7 DEF IInv, CallsOK, NewOK, Creating
<1>9. \A d \in Clients : Creating(req'[d]) = Creating(req[d]) /\ req'[d].id = req[d].id
  BY <1>3, <1>4, <1>5 DEF Creating
<1>10. CallsOK'
  <2>1. req' \in [Clients -> Request]
    BY <1>2, <1>3 DEF IInv, CallsOK
  <2>2. \A d, e \in Clients : Creating(req'[d]) /\ Creating(req'[e]) /\ req'[d].id = req'[e].id => d = e
    BY <1>9 DEF IInv, CallsOK
  <2> QED
    BY <1>6, <1>8, <2>1, <2>2 DEF CallsOK, Creating
<1>11. WriterOK'
  <2>1. writer = c
    BY <1>1, Writing
  <2> QED
    BY <1>1, <1>3, <1>4, <2>1, StoreAssumption DEF IInv, WriterOK
<1> QED
  BY <1>1, <1>10, <1>11 DEF IInv, DiskOK, IdsOK

LEMMA BeginStep ==
  ASSUME IInv, NEW c \in Clients, Begin(c)
  PROVE  IInv'
<1>1. /\ req[c].at = "lock" /\ writer = None /\ writer' = c /\ work' = disk
      /\ UNCHANGED <<now, disk, used, deleted, damaged>>
  BY DEF Begin, At
<1>2. PICK q : q = [req[c] EXCEPT !.at = req[c].start]
  OBVIOUS
<1>3. req' = [req EXCEPT ![c] = q]
  BY <1>2 DEF Begin, Goto
<1>4. RequestOK(req[c], used) /\ NewOK(req[c]) /\ req[c] \in Request /\ req[c].start \in Starts
  BY DEF IInv, CallsOK, Request
<1>5. /\ q.at = req[c].start /\ q.id = req[c].id /\ q.start = req[c].start /\ q.entry = req[c].entry
      /\ q.secret = req[c].secret /\ q.key = req[c].key /\ q \in Request
  BY <1>2, <1>4, PlaceOnly, Labels
<1>6. RequestOK(q, used)
  BY <1>1, <1>4, <1>5 DEF RequestOK, Starts, CreateLabels, UpdateLabels, DeleteLabels
<1>7. req'[c] = q /\ \A d \in Clients \ {c} : req'[d] = req[d]
  BY <1>3 DEF IInv, CallsOK
<1>8. q.at \in TxLabels /\ q.at # "idle" /\ q.at # "commit"
  BY <1>4, <1>5, Labels DEF Starts
<1>9. \A d \in Clients : RequestOK(req'[d], used')
  BY <1>1, <1>6, <1>7 DEF IInv, CallsOK
<1>10. NewOK(q)
  BY <1>1, <1>4, <1>5 DEF NewOK, Creating
<1>11. \A d \in Clients : NewOK(req[d])'
  BY <1>1, <1>7, <1>10 DEF IInv, CallsOK, NewOK, Creating
<1>12. \A d \in Clients : Creating(req'[d]) = Creating(req[d]) /\ req'[d].id = req[d].id
  BY <1>1, <1>5, <1>7, <1>8 DEF Creating
<1>13. CallsOK'
  <2>1. req' \in [Clients -> Request]
    BY <1>3, <1>5 DEF IInv, CallsOK
  <2>2. \A d, e \in Clients : Creating(req'[d]) /\ Creating(req'[e]) /\ req'[d].id = req'[e].id => d = e
    BY <1>12 DEF IInv, CallsOK
  <2> QED
    BY <1>9, <1>11, <2>1, <2>2 DEF CallsOK, Creating
<1>14. WriterOK'
  <2>1. SoFar(q, disk, disk, now, damaged)
    BY <1>4, <1>5 DEF SoFar, Entries, Starts
  <2>2. \A d \in Clients : req[d].at \notin TxLabels
    BY <1>1, StoreAssumption DEF IInv, WriterOK
  <2>3. c # None
    BY StoreAssumption
  <2> QED
    BY <1>1, <1>7, <1>8, <2>1, <2>2, <2>3 DEF IInv, WriterOK, DiskOK
<1> QED
  BY <1>1, <1>13, <1>14 DEF IInv, DiskOK, IdsOK

\* Calls that are dropped: each is as it was, or idle.
LEMMA Dropped ==
  ASSUME IInv, req' \in [Clients -> Request], UNCHANGED used,
         \A d \in Clients : req'[d] = req[d] \/ req'[d] = Idle,
         \A d \in Clients : req'[d] = req[d] => NewOK(req[d])'
  PROVE  CallsOK'
<1>1. \A d \in Clients : RequestOK(req'[d], used')
  <2>1. RequestOK(Idle, used)
    BY IdleOK DEF RequestOK, CreateLabels, UpdateLabels, DeleteLabels, Idle
  <2> QED
    BY <2>1 DEF IInv, CallsOK
<1>2. ~Creating(Idle)
  BY IdleOK DEF Creating
<1>3. \A d \in Clients : NewOK(req[d])'
  BY <1>2 DEF NewOK
<1>4. \A d, e \in Clients : Creating(req'[d]) /\ Creating(req'[e]) /\ req'[d].id = req'[e].id => d = e
  BY <1>2 DEF IInv, CallsOK
<1> QED
  BY <1>1, <1>3, <1>4 DEF CallsOK, Creating

LEMMA RollbackStep ==
  ASSUME IInv, NEW c \in Clients, Rollback(c)
  PROVE  IInv'
<1>1. /\ writer = c /\ writer' = None /\ work' = disk /\ req' = [req EXCEPT ![c] = Idle]
      /\ UNCHANGED <<now, disk, used, deleted, damaged>>
  BY DEF Rollback
<1>2. req'[c] = Idle /\ \A d \in Clients \ {c} : req'[d] = req[d]
  BY <1>1 DEF IInv, CallsOK
<1>3. CallsOK'
  <2>1. \A d \in Clients : NewOK(req[d]) /\ (req'[d] = req[d] => NewOK(req[d])')
    BY <1>1 DEF IInv, CallsOK, NewOK, Creating
  <2> QED
    BY <1>1, <1>2, <2>1, IdleOK, Dropped DEF IInv, CallsOK
<1>4. WriterOK'
  BY <1>1, <1>2, IdleOK, Labels, StoreAssumption DEF IInv, WriterOK, DiskOK
<1> QED
  BY <1>1, <1>3, <1>4 DEF IInv, DiskOK, IdsOK

LEMMA ReopenStep ==
  ASSUME IInv, Reopen
  PROVE  IInv'
<1>1. /\ writer' = None /\ work' = disk /\ req' = [c \in Clients |-> Idle]
      /\ UNCHANGED <<now, disk, used, deleted>>
  BY DEF Reopen
<1>0. damaged' \ DOMAIN disk.entries = damaged \ DOMAIN disk.entries
      /\ damaged' \subseteq DOMAIN disk.entries \cup deleted
  BY DEF Reopen, IInv, IdsOK
<1>4. DiskOK'
  <2>1. Live(disk, damaged)' = Live(disk, damaged)
    BY <1>0, <1>1 DEF Live
  <2> QED
    BY <1>1, <2>1 DEF IInv, DiskOK
<1>5. IdsOK'
  BY <1>0, <1>1 DEF IInv, IdsOK
<1>2. CallsOK'
  <2>1. \A d \in Clients : req'[d] = req[d] => NewOK(req[d])'
    BY <1>1 DEF IInv, CallsOK, NewOK, Creating
  <2> QED
    BY <1>1, <2>1, IdleOK, Dropped
<1>3. WriterOK'
  BY <1>1, IdleOK, Labels, StoreAssumption DEF IInv, WriterOK, DiskOK
<1> QED
  BY <1>2, <1>3, <1>4, <1>5 DEF IInv

LEMMA TickStep ==
  ASSUME IInv, Tick
  PROVE  IInv'
<1>1. now \in Nat /\ now' = now + 1 /\ UNCHANGED <<disk, work, writer, req, used, deleted, damaged>>
  BY DEF IInv, DiskOK, Tick
<1>2. DiskOK'
  <2>1. \A id \in DOMAIN disk.entries : disk.entries[id].updatedAt \in Nat
    BY EntryType DEF IInv, DiskOK, BucketSet, Entry
  <2> QED
    BY <1>1, <2>1 DEF IInv, DiskOK
<1>3. CallsOK'
  <2>1. \A d \in Clients : Creating(req[d]) => req[d].entry.updatedAt \in Nat
    BY DEF IInv, CallsOK, Creating, RequestOK, Entry
  <2>2. \A d \in Clients : NewOK(req[d])'
    BY <1>1, <2>1 DEF IInv, CallsOK, NewOK, Creating
  <2> QED
    BY <1>1, <2>2 DEF IInv, CallsOK, Creating
<1>4. WriterOK'
  <2>1. ASSUME writer # None PROVE SoFar(req[writer], disk, work, now + 1, damaged)
    BY <1>1, <2>1 DEF IInv, WriterOK, SoFar, Outcome
  <2> QED
    BY <1>1, <2>1 DEF IInv, WriterOK
<1> QED
  BY <1>1, <1>2, <1>3, <1>4 DEF IInv, IdsOK

\* A call that has moved on to a place says what the buckets have become.
Continues(r, to, w) ==
  \A q \in Request :
    /\ q.at = to /\ q.start = r.start /\ q.id = r.id
    /\ q.entry = r.entry /\ q.secret = r.secret /\ q.key = r.key
    => RequestOK(q, used) /\ SoFar(q, disk, w, now, damaged)

\* A section from one place to another: the invariant follows from what is there.
LEMMA Moves ==
  ASSUME IInv, NEW c \in Clients, NEW from \in TxLabels, NEW to \in TxLabels, NEW w,
         Section(c, from, to, w), w \in BucketSet, Continues(req[c], to, w)
  PROVE  IInv'
<1>1. req[c] \in Request
  BY DEF IInv, CallsOK
<1>2. PICK q : q = [req[c] EXCEPT !.at = to]
  OBVIOUS
<1>3. /\ q \in Request /\ q.at = to /\ q.start = req[c].start /\ q.id = req[c].id
      /\ q.entry = req[c].entry /\ q.secret = req[c].secret /\ q.key = req[c].key
  BY <1>1, <1>2, PlaceOnly
<1>4. RequestOK(q, used) /\ SoFar(q, disk, w, now, damaged)
  BY <1>3 DEF Continues
<1> QED
  BY <1>2, <1>4, SectionStep

LEMMA CreateStep ==
  ASSUME IInv, NEW c \in Clients, Create(c)
  PROVE  IInv'
<1> DEFINE r == req[c]
<1>1. CASE Section(c, "c_put", "c_index", WithEntry(work, r.id, r.entry))
  <2>1. r.at = "c_put"
    BY <1>1 DEF Section, At
  <2>2. /\ RequestOK(r, used) /\ SoFar(r, disk, work, now, damaged) /\ disk \in BucketSet /\ work \in BucketSet
        /\ disk.entries \in Map /\ used \subseteq EntryIds
    BY <2>1, Writing, Labels
  <2>3. r.start = "c_put" /\ r.id \in EntryIds /\ r.id \in used /\ r.entry \in Entry
    BY <2>1, <2>2 DEF RequestOK, CreateLabels
  <2>4. Entries(disk, work, disk.entries, disk.indexType)
    BY <2>1, <2>2 DEF SoFar, Starts
  <2>5. PICK w : w = WithEntry(work, r.id, r.entry)
    OBVIOUS
  <2>6. w \in BucketSet /\ Entries(disk, w, Put(disk.entries, r.id, r.entry), disk.indexType)
    BY ZenonT(40), <2>2, <2>3, <2>4, <2>5, PutMap, EntriesIn DEF WithEntry, Entries, BucketSet
  <2>7. Continues(r, "c_index", w)
    BY <2>3, <2>6 DEF Continues, RequestOK, SoFar, Starts, CreateLabels, UpdateLabels, DeleteLabels
  <2>8. Section(c, "c_put", "c_index", w)
    BY <1>1, <2>5
  <2> QED
    BY <2>6, <2>7, <2>8, Moves, Labels
<1>2. CASE Section(c, "c_index", "commit", WithRow(work, r.entry.type, r.id))
  <2>1. r.at = "c_index"
    BY <1>2 DEF Section, At
  <2>2. /\ RequestOK(r, used) /\ SoFar(r, disk, work, now, damaged) /\ disk \in BucketSet /\ work \in BucketSet
        /\ disk.entries \in Map /\ used \subseteq EntryIds
    BY <2>1, Writing, Labels
  <2>3. r.start = "c_put" /\ r.id \in EntryIds /\ r.id \in used /\ r.entry \in Entry
    BY <2>1, <2>2 DEF RequestOK, CreateLabels
  <2>4. Entries(disk, work, Put(disk.entries, r.id, r.entry), disk.indexType)
    BY <2>1, <2>2 DEF SoFar
  <2>5. PICK w : w = WithRow(work, r.entry.type, r.id)
    OBVIOUS
  <2>6. work.indexType \cup {TypeIndexKey(r.entry.type, r.id)} \in SUBSET (Types \X EntryIds)
    BY <2>2, <2>3 DEF BucketSet, Entry, TypeIndexKey
  <2>7. w \in BucketSet /\ Entries(disk, w, Put(disk.entries, r.id, r.entry),
                                  disk.indexType \cup {TypeIndexKey(r.entry.type, r.id)})
    BY <2>2, <2>4, <2>5, <2>6, EntriesIn DEF WithRow, Entries, BucketSet
  <2>8. Continues(r, "commit", w)
    BY <2>3, <2>7 DEF Continues, RequestOK, SoFar, Outcome, Starts, CreateLabels, UpdateLabels, DeleteLabels
  <2>9. Section(c, "c_index", "commit", w)
    BY <1>2, <2>5
  <2> QED
    BY <2>7, <2>8, <2>9, Moves, Labels
<1> QED
  BY <1>1, <1>2 DEF Create

LEMMA UpdateGetStep ==
  ASSUME IInv, NEW c \in Clients, UpdateGet(c)
  PROVE  IInv'
<1> DEFINE r == req[c]
<1>1. CASE Rollback(c)
  BY <1>1, RollbackStep
<1>2. ASSUME r.id \in DOMAIN work.entries \ damaged, NEW to \in {"u_unindex", "u_put"}, Section(c, "u_get", to, work),
             to = "u_put" => work.entries[r.id].type = r.entry.type
      PROVE  IInv'
  <2>1. r.at = "u_get"
    BY <1>2 DEF Section, At
  <2>2. /\ RequestOK(r, used) /\ SoFar(r, disk, work, now, damaged) /\ disk \in BucketSet /\ work \in BucketSet
        /\ disk.entries \in Map /\ used \subseteq EntryIds /\ now \in Nat
    BY <2>1, Writing, Labels
  <2>3. r.start = "u_get" /\ r.id \in EntryIds /\ r.id \in used /\ r.entry \in Entry
    BY <2>1, <2>2 DEF RequestOK, UpdateLabels
  <2>4. Entries(disk, work, disk.entries, disk.indexType)
    BY <2>1, <2>2 DEF SoFar, Starts
  <2>5. Rows(disk.entries) \subseteq disk.indexType
    BY DEF IInv, DiskOK, Live
  <2>6. to = "u_put" => Moved(disk, r.id, r.entry.type) = disk.indexType
    BY <1>2, <2>4, <2>5 DEF Moved, OldRow, Entries, Rows
  <2>7. Continues(r, to, work)
    BY <1>2, <2>3, <2>4, <2>6 DEF Continues, Entries, RequestOK, SoFar, Outcome, Starts, CreateLabels, UpdateLabels, DeleteLabels
  <2> QED
    BY <1>2, <2>2, <2>7, Moves, Labels
<1>3. CASE r.id \in DOMAIN work.entries \ damaged
           /\ Section(c, "u_get", IF work.entries[r.id].type # r.entry.type THEN "u_unindex" ELSE "u_put", work)
  <2>1. CASE work.entries[r.id].type # r.entry.type
    BY <1>2, <1>3, <2>1
  <2>2. CASE work.entries[r.id].type = r.entry.type
    BY <1>2, <1>3, <2>2
  <2> QED
    BY <2>1, <2>2
<1> QED
  BY <1>1, <1>3 DEF UpdateGet

LEMMA UpdateIndexStep ==
  ASSUME IInv, NEW c \in Clients, UpdateIndex(c)
  PROVE  IInv'
<1> DEFINE r == req[c]
<1>1. CASE Section(c, "u_unindex", "u_index", WithoutRow(work, work.entries[r.id].type, r.id))
  <2>1. r.at = "u_unindex"
    BY <1>1 DEF Section, At
  <2>2. /\ RequestOK(r, used) /\ SoFar(r, disk, work, now, damaged) /\ disk \in BucketSet /\ work \in BucketSet
        /\ disk.entries \in Map /\ used \subseteq EntryIds /\ now \in Nat
    BY <2>1, Writing, Labels
  <2>3. r.start = "u_get" /\ r.id \in EntryIds /\ r.id \in used /\ r.entry \in Entry
    BY <2>1, <2>2 DEF RequestOK, UpdateLabels
  <2>4. Entries(disk, work, disk.entries, disk.indexType) /\ r.id \in DOMAIN disk.entries
    BY <2>1, <2>2 DEF SoFar
  <2>5. PICK w : w = WithoutRow(work, work.entries[r.id].type, r.id)
    OBVIOUS
  <2>6. work.indexType \ {OldRow(disk, r.id)} \in SUBSET (Types \X EntryIds)
    BY <2>2 DEF BucketSet
  <2>7. w \in BucketSet /\ Entries(disk, w, disk.entries, disk.indexType \ {OldRow(disk, r.id)})
    BY <2>2, <2>4, <2>5, <2>6, EntriesIn DEF WithoutRow, OldRow, Entries, BucketSet
  <2>8. Continues(r, "u_index", w)
    BY <2>2, <2>3, <2>4, <2>7 DEF Continues, RequestOK, SoFar, Outcome, Starts, CreateLabels, UpdateLabels, DeleteLabels
  <2>9. Section(c, "u_unindex", "u_index", w)
    BY <1>1, <2>5
  <2> QED
    BY <2>7, <2>8, <2>9, Moves, Labels
<1>2. CASE Section(c, "u_index", "u_put", WithRow(work, r.entry.type, r.id))
  <2>1. r.at = "u_index"
    BY <1>2 DEF Section, At
  <2>2. /\ RequestOK(r, used) /\ SoFar(r, disk, work, now, damaged) /\ disk \in BucketSet /\ work \in BucketSet
        /\ disk.entries \in Map /\ used \subseteq EntryIds /\ now \in Nat
    BY <2>1, Writing, Labels
  <2>3. r.start = "u_get" /\ r.id \in EntryIds /\ r.id \in used /\ r.entry \in Entry
    BY <2>1, <2>2 DEF RequestOK, UpdateLabels
  <2>4. Entries(disk, work, disk.entries, disk.indexType \ {OldRow(disk, r.id)})
        /\ r.id \in DOMAIN disk.entries
    BY <2>1, <2>2 DEF SoFar
  <2>5. PICK w : w = WithRow(work, r.entry.type, r.id)
    OBVIOUS
  <2>6. work.indexType \cup {TypeIndexKey(r.entry.type, r.id)} \in SUBSET (Types \X EntryIds)
    BY <2>2, <2>3 DEF BucketSet, Entry, TypeIndexKey
  <2>7. w \in BucketSet /\ Entries(disk, w, disk.entries, Moved(disk, r.id, r.entry.type))
    BY <2>2, <2>4, <2>5, <2>6, EntriesIn DEF WithRow, Moved, Entries, BucketSet
  <2>8. Continues(r, "u_put", w)
    BY <2>2, <2>3, <2>4, <2>7 DEF Continues, RequestOK, SoFar, Outcome, Starts, CreateLabels, UpdateLabels, DeleteLabels
  <2>9. Section(c, "u_index", "u_put", w)
    BY <1>2, <2>5
  <2> QED
    BY <2>7, <2>8, <2>9, Moves, Labels
<1> QED
  BY <1>1, <1>2 DEF UpdateIndex

LEMMA UpdatePutStep ==
  ASSUME IInv, NEW c \in Clients, UpdatePut(c)
  PROVE  IInv'
<1> DEFINE r == req[c]
           e == [r.entry EXCEPT !.createdAt = work.entries[r.id].createdAt, !.updatedAt = now]
<1>1. Section(c, "u_put", "commit", WithEntry(work, r.id, e))
  BY DEF UpdatePut
<1>0. r.at = "u_put"
  BY <1>1 DEF Section, At
<1>2. /\ RequestOK(r, used) /\ SoFar(r, disk, work, now, damaged) /\ disk \in BucketSet /\ work \in BucketSet
      /\ disk.entries \in Map /\ used \subseteq EntryIds /\ now \in Nat
  BY <1>0, Writing, Labels
<1>3. r.start = "u_get" /\ r.id \in EntryIds /\ r.id \in used /\ r.entry \in Entry
  BY <1>0, <1>2 DEF RequestOK, UpdateLabels
<1>4. Entries(disk, work, disk.entries, Moved(disk, r.id, r.entry.type)) /\ r.id \in DOMAIN disk.entries
  BY <1>0, <1>2 DEF SoFar
<1>5. disk.entries[r.id] \in Entry /\ disk.entries[r.id].updatedAt <= now
  BY <1>2, <1>4, EntryType DEF IInv, DiskOK
<1>6. e = Updated(disk, r, now) /\ e \in Entry
  BY <1>2, <1>3, <1>4, <1>5 DEF Updated, Entry, Entries
<1> HIDE DEF e
<1>7. PICK w : w = WithEntry(work, r.id, e)
  OBVIOUS
<1>8. w \in BucketSet /\ Entries(disk, w, Put(disk.entries, r.id, e), Moved(disk, r.id, r.entry.type))
  BY ZenonT(40), <1>2, <1>3, <1>4, <1>6, <1>7, PutMap, EntriesIn DEF WithEntry, Entries, BucketSet
<1>9. disk.entries[r.id].updatedAt \in Nat
  BY <1>5 DEF Entry
<1>10. ASSUME NEW q \in Request, q.at = "commit", q.start = r.start, q.id = r.id, q.entry = r.entry
       PROVE  RequestOK(q, used) /\ SoFar(q, disk, w, now, damaged)
  <2>1. Updated(disk, q, now) = e
    BY <1>6, <1>10 DEF Updated
  <2>2. Outcome(q, disk, w, now, damaged)
    BY <1>2, <1>3, <1>4, <1>5, <1>8, <1>9, <1>10, <2>1 DEF Outcome
  <2> QED
    BY <1>3, <1>10, <2>2 DEF RequestOK, SoFar, Starts, CreateLabels, UpdateLabels, DeleteLabels
<1>11. Continues(r, "commit", w)
  BY <1>10 DEF Continues
<1>12. Section(c, "u_put", "commit", w)
  BY <1>1, <1>7
<1> QED
  BY <1>8, <1>11, <1>12, Moves, Labels

LEMMA DeleteStep ==
  ASSUME IInv, NEW c \in Clients, DeleteByID(c)
  PROVE  IInv'
<1> DEFINE r == req[c]
<1>1. CASE Rollback(c)
  BY <1>1, RollbackStep
<1>2. ASSUME r.id \in DOMAIN work.entries, NEW to \in {"d_unindex", "d_remove"}, Section(c, "d_get", to, work),
             r.id \in damaged <=> to = "d_remove"
      PROVE  IInv'
  <2>1. r.at = "d_get"
    BY <1>2 DEF Section, At
  <2>2. /\ RequestOK(r, used) /\ SoFar(r, disk, work, now, damaged) /\ disk \in BucketSet /\ work \in BucketSet
        /\ disk.entries \in Map /\ used \subseteq EntryIds /\ disk.hash = disk.salt
    BY <2>1, Writing, Labels DEF IInv, DiskOK
  <2>3. r.start = "d_get" /\ r.id \in EntryIds /\ r.id \in used
    BY <2>1, <2>2 DEF RequestOK, DeleteLabels
  <2>4. Entries(disk, work, disk.entries, disk.indexType) /\ (r.id \in DOMAIN work.entries => r.id \in DOMAIN disk.entries)
    BY <2>1, <2>2 DEF SoFar, Starts, Entries
  <2>5. to = "d_remove" => Entries(disk, work, disk.entries, Unindexed(disk, r.id, damaged))
    BY <1>2, <2>4 DEF Unindexed
  <2>8. Continues(r, to, work)
    BY <1>2, <2>2, <2>3, <2>4, <2>5 DEF Continues, RequestOK, SoFar, Outcome, Starts, CreateLabels, UpdateLabels, DeleteLabels
  <2> QED
    BY <1>2, <2>2, <2>8, Moves, Labels
<1>5. CASE r.id \in DOMAIN work.entries
           /\ Section(c, "d_get", IF r.id \in damaged THEN "d_remove" ELSE "d_unindex", work)
  <2>1. CASE r.id \in damaged
    BY <1>2, <1>5, <2>1
  <2>2. CASE r.id \notin damaged
    BY <1>2, <1>5, <2>2
  <2> QED
    BY <2>1, <2>2
<1>3. CASE Section(c, "d_unindex", "d_remove", WithoutRow(work, work.entries[r.id].type, r.id))
  <2>1. r.at = "d_unindex"
    BY <1>3 DEF Section, At
  <2>2. /\ RequestOK(r, used) /\ SoFar(r, disk, work, now, damaged) /\ disk \in BucketSet /\ work \in BucketSet
        /\ disk.entries \in Map /\ used \subseteq EntryIds /\ disk.hash = disk.salt
    BY <2>1, Writing, Labels DEF IInv, DiskOK
  <2>3. r.start = "d_get" /\ r.id \in EntryIds /\ r.id \in used
    BY <2>1, <2>2 DEF RequestOK, DeleteLabels
  <2>4. Entries(disk, work, disk.entries, disk.indexType) /\ r.id \in DOMAIN disk.entries /\ r.id \notin damaged
    BY <2>1, <2>2 DEF SoFar
  <2>5. PICK w : w = WithoutRow(work, work.entries[r.id].type, r.id)
    OBVIOUS
  <2>6. work.indexType \ {OldRow(disk, r.id)} \in SUBSET (Types \X EntryIds)
    BY <2>2 DEF BucketSet
  <2>7. w \in BucketSet /\ Entries(disk, w, disk.entries, Unindexed(disk, r.id, damaged))
    BY <2>2, <2>3, <2>4, <2>5, <2>6, EntriesIn DEF WithoutRow, OldRow, Entries, BucketSet, Unindexed
  <2>8. Continues(r, "d_remove", w)
    BY <2>2, <2>3, <2>4, <2>7 DEF Continues, RequestOK, SoFar, Outcome, Starts, CreateLabels, UpdateLabels, DeleteLabels
  <2>9. Section(c, "d_unindex", "d_remove", w)
    BY <1>3, <2>5
  <2> QED
    BY <2>7, <2>8, <2>9, Moves, Labels
<1>4. CASE Section(c, "d_remove", "commit", [work EXCEPT !.entries = Remove(work.entries, r.id)])
  <2>1. r.at = "d_remove"
    BY <1>4 DEF Section, At
  <2>2. /\ RequestOK(r, used) /\ SoFar(r, disk, work, now, damaged) /\ disk \in BucketSet /\ work \in BucketSet
        /\ disk.entries \in Map /\ used \subseteq EntryIds /\ disk.hash = disk.salt
    BY <2>1, Writing, Labels DEF IInv, DiskOK
  <2>3. r.start = "d_get" /\ r.id \in EntryIds /\ r.id \in used
    BY <2>1, <2>2 DEF RequestOK, DeleteLabels
  <2>4. Entries(disk, work, disk.entries, Unindexed(disk, r.id, damaged)) /\ r.id \in DOMAIN disk.entries
    BY <2>1, <2>2 DEF SoFar
  <2>5. PICK w : w = [work EXCEPT !.entries = Remove(work.entries, r.id)]
    OBVIOUS
  <2>6. Remove(work.entries, r.id) \in Map
    BY <2>2, RemoveMap DEF BucketSet
  <2>7. w \in BucketSet /\ Entries(disk, w, Remove(disk.entries, r.id), Unindexed(disk, r.id, damaged))
    BY <2>2, <2>3, <2>4, <2>5, <2>6, EntriesIn DEF Entries, BucketSet
  <2>8. Continues(r, "commit", w)
    BY <2>2, <2>3, <2>4, <2>7 DEF Continues, RequestOK, SoFar, Outcome, Starts, CreateLabels, UpdateLabels, DeleteLabels
  <2>9. Section(c, "d_remove", "commit", w)
    BY <1>4, <2>5
  <2> QED
    BY <2>7, <2>8, <2>9, Moves, Labels
<1> QED
  BY <1>1, <1>3, <1>4, <1>5 DEF DeleteByID

LEMMA AuthStep ==
  ASSUME IInv, NEW c \in Clients, StorePINHash(c) \/ DeletePINHash(c) \/ StoreAuthKey(c)
  PROVE  IInv'
<1> DEFINE r == req[c]
<1>1. CASE Section(c, "p_hash", "p_salt", [work EXCEPT !.hash = r.secret])
  <2>1. r.at = "p_hash"
    BY <1>1 DEF Section, At
  <2>2. /\ RequestOK(r, used) /\ SoFar(r, disk, work, now, damaged) /\ disk \in BucketSet /\ work \in BucketSet
        /\ disk.entries \in Map /\ used \subseteq EntryIds /\ disk.hash = disk.salt
    BY <2>1, Writing, Labels DEF IInv, DiskOK
  <2>3. r.start = "p_hash" /\ r.secret \in Secrets
    BY <2>1, <2>2 DEF RequestOK
  <2>4. Auth(disk, work, disk.hash, disk.salt, disk.key)
    BY <2>1, <2>2 DEF SoFar, Starts, Entries, Auth
  <2>5. PICK w : w = [work EXCEPT !.hash = r.secret]
    OBVIOUS
  <2>7. w \in BucketSet /\ Auth(disk, w, r.secret, disk.salt, disk.key)
    BY <2>2, <2>3, <2>4, <2>5, AuthIn DEF Auth, BucketSet
  <2>8. Continues(r, "p_salt", w)
    BY <2>2, <2>3, <2>4, <2>7 DEF Continues, RequestOK, SoFar, Outcome, Starts, CreateLabels, UpdateLabels, DeleteLabels
  <2>9. Section(c, "p_hash", "p_salt", w)
    BY <1>1, <2>5
  <2> QED
    BY <2>7, <2>8, <2>9, Moves, Labels
<1>2. CASE Section(c, "p_salt", "commit", [work EXCEPT !.salt = r.secret])
  <2>1. r.at = "p_salt"
    BY <1>2 DEF Section, At
  <2>2. /\ RequestOK(r, used) /\ SoFar(r, disk, work, now, damaged) /\ disk \in BucketSet /\ work \in BucketSet
        /\ disk.entries \in Map /\ used \subseteq EntryIds /\ disk.hash = disk.salt
    BY <2>1, Writing, Labels DEF IInv, DiskOK
  <2>3. r.start = "p_hash" /\ r.secret \in Secrets
    BY <2>1, <2>2 DEF RequestOK
  <2>4. Auth(disk, work, r.secret, disk.salt, disk.key)
    BY <2>1, <2>2 DEF SoFar
  <2>5. PICK w : w = [work EXCEPT !.salt = r.secret]
    OBVIOUS
  <2>7. w \in BucketSet /\ Auth(disk, w, r.secret, r.secret, disk.key)
    BY ZenonT(40), <2>2, <2>3, <2>4, <2>5, AuthIn DEF Auth, BucketSet
  <2>8. Continues(r, "commit", w)
    BY <2>2, <2>3, <2>4, <2>7 DEF Continues, RequestOK, SoFar, Outcome, Starts, CreateLabels, UpdateLabels, DeleteLabels
  <2>9. Section(c, "p_salt", "commit", w)
    BY <1>2, <2>5
  <2> QED
    BY <2>7, <2>8, <2>9, Moves, Labels
<1>3. CASE Section(c, "x_hash", "x_salt", [work EXCEPT !.hash = None])
  <2>1. r.at = "x_hash"
    BY <1>3 DEF Section, At
  <2>2. /\ RequestOK(r, used) /\ SoFar(r, disk, work, now, damaged) /\ disk \in BucketSet /\ work \in BucketSet
        /\ disk.entries \in Map /\ used \subseteq EntryIds /\ disk.hash = disk.salt
    BY <2>1, Writing, Labels DEF IInv, DiskOK
  <2>3. r.start = "x_hash"
    BY <2>1, <2>2 DEF RequestOK
  <2>4. Auth(disk, work, disk.hash, disk.salt, disk.key)
    BY <2>1, <2>2 DEF SoFar, Starts, Entries, Auth
  <2>5. PICK w : w = [work EXCEPT !.hash = None]
    OBVIOUS
  <2>7. w \in BucketSet /\ Auth(disk, w, None, disk.salt, disk.key)
    BY <2>2, <2>3, <2>4, <2>5, AuthIn DEF Auth, BucketSet
  <2>8. Continues(r, "x_salt", w)
    BY <2>2, <2>3, <2>4, <2>7 DEF Continues, RequestOK, SoFar, Outcome, Starts, CreateLabels, UpdateLabels, DeleteLabels
  <2>9. Section(c, "x_hash", "x_salt", w)
    BY <1>3, <2>5
  <2> QED
    BY <2>7, <2>8, <2>9, Moves, Labels
<1>4. CASE Section(c, "x_salt", "commit", [work EXCEPT !.salt = None])
  <2>1. r.at = "x_salt"
    BY <1>4 DEF Section, At
  <2>2. /\ RequestOK(r, used) /\ SoFar(r, disk, work, now, damaged) /\ disk \in BucketSet /\ work \in BucketSet
        /\ disk.entries \in Map /\ used \subseteq EntryIds /\ disk.hash = disk.salt
    BY <2>1, Writing, Labels DEF IInv, DiskOK
  <2>3. r.start = "x_hash"
    BY <2>1, <2>2 DEF RequestOK
  <2>4. Auth(disk, work, None, disk.salt, disk.key)
    BY <2>1, <2>2 DEF SoFar
  <2>5. PICK w : w = [work EXCEPT !.salt = None]
    OBVIOUS
  <2>7. w \in BucketSet /\ Auth(disk, w, None, None, disk.key)
    BY <2>2, <2>3, <2>4, <2>5, AuthIn DEF Auth, BucketSet
  <2>8. Continues(r, "commit", w)
    BY <2>2, <2>3, <2>4, <2>7 DEF Continues, RequestOK, SoFar, Outcome, Starts, CreateLabels, UpdateLabels, DeleteLabels
  <2>9. Section(c, "x_salt", "commit", w)
    BY <1>4, <2>5
  <2> QED
    BY <2>7, <2>8, <2>9, Moves, Labels
<1>5. CASE Section(c, "k_put", "commit", [work EXCEPT !.key = r.key])
  <2>1. r.at = "k_put"
    BY <1>5 DEF Section, At
  <2>2. /\ RequestOK(r, used) /\ SoFar(r, disk, work, now, damaged) /\ disk \in BucketSet /\ work \in BucketSet
        /\ disk.entries \in Map /\ used \subseteq EntryIds /\ disk.hash = disk.salt
    BY <2>1, Writing, Labels DEF IInv, DiskOK
  <2>3. r.start = "k_put" /\ r.key \in Keys
    BY <2>1, <2>2 DEF RequestOK
  <2>4. Auth(disk, work, disk.hash, disk.salt, disk.key)
    BY <2>1, <2>2 DEF SoFar, Starts, Entries, Auth
  <2>5. PICK w : w = [work EXCEPT !.key = r.key]
    OBVIOUS
  <2>7. w \in BucketSet /\ Auth(disk, w, disk.hash, disk.salt, r.key)
    BY <2>2, <2>3, <2>4, <2>5, AuthIn DEF Auth, BucketSet
  <2>8. Continues(r, "commit", w)
    BY <2>2, <2>3, <2>4, <2>7 DEF Continues, RequestOK, SoFar, Outcome, Starts, CreateLabels, UpdateLabels, DeleteLabels
  <2>9. Section(c, "k_put", "commit", w)
    BY <1>5, <2>5
  <2> QED
    BY <2>7, <2>8, <2>9, Moves, Labels
<1> QED
  BY <1>1, <1>2, <1>3, <1>4, <1>5 DEF StorePINHash, DeletePINHash, StoreAuthKey

-----------------------------------------------------------------------------
\* Commits.

\* What a commit makes of the database, for each operation.
LEMMA CommitOf ==
  ASSUME IInv, NEW c \in Clients, Commit(c)
  PROVE  /\ req[c] \in Request /\ RequestOK(req[c], used) /\ NewOK(req[c]) /\ writer = c
         /\ req[c].at = "commit" /\ Outcome(req[c], disk, work, now, damaged)
         /\ disk' = work /\ writer' = None /\ work' = work /\ UNCHANGED <<now, used, damaged>>
         /\ req' = [req EXCEPT ![c] = Idle]
         /\ deleted' = deleted \cup (DOMAIN disk.entries \ DOMAIN work.entries)
         /\ disk.entries \in Map /\ work.entries \in Map /\ work \in BucketSet /\ disk \in BucketSet
         /\ now \in Nat /\ used \subseteq EntryIds
<1>1. req[c].at = "commit"
  BY DEF Commit, At
<1>2. Outcome(req[c], disk, work, now, damaged)
  BY <1>1, Writing, Labels DEF SoFar
<1> QED
  BY <1>1, <1>2, Writing, Labels DEF Commit, BucketSet

\* A new id comes in, or one goes out, or the ids stay.
LEMMA CommitIds ==
  ASSUME IInv, NEW c \in Clients, Commit(c)
  PROVE  LET r == req[c] IN
         /\ r.start = "c_put" => /\ r.id \notin DOMAIN disk.entries \cup deleted
                                  /\ r.id \in used /\ r.id \in EntryIds /\ r.entry \in Entry
                                  /\ DOMAIN work.entries = DOMAIN disk.entries \cup {r.id}
         /\ r.start = "u_get" => /\ r.id \in DOMAIN disk.entries /\ r.id \in EntryIds /\ r.entry \in Entry
                                  /\ DOMAIN work.entries = DOMAIN disk.entries
         /\ r.start = "d_get" => /\ r.id \in DOMAIN disk.entries
                                  /\ DOMAIN work.entries = DOMAIN disk.entries \ {r.id}
         /\ r.start \in {"p_hash", "x_hash", "k_put"} => work.entries = disk.entries
<1> DEFINE r == req[c]
<1>1. r.start \in {"c_put", "u_get"} => r.entry \in Entry /\ r.id \in used /\ r.id \in EntryIds
  BY CommitOf DEF RequestOK
<1>2. CASE r.start = "c_put"
  <2>1. work.entries = Put(disk.entries, r.id, r.entry)
    BY <1>2, CommitOf DEF Outcome, Entries
  <2>2. r.id \notin DOMAIN disk.entries \cup deleted
    BY <1>2, CommitOf DEF NewOK, Creating
  <2>3. DOMAIN work.entries = DOMAIN disk.entries \cup {r.id}
    BY <2>1 DEF Put
  <2> QED
    BY <1>1, <1>2, <2>2, <2>3
<1>3. CASE r.start = "u_get"
  <2>1. r.id \in DOMAIN disk.entries /\ DOMAIN work.entries = DOMAIN disk.entries \cup {r.id}
    BY <1>3, CommitOf DEF Outcome, Entries, Put
  <2> QED
    BY <1>1, <1>3, <2>1
<1>4. CASE r.start = "d_get"
  <2>1. r.id \in DOMAIN disk.entries /\ work.entries = Remove(disk.entries, r.id)
    BY <1>4, CommitOf DEF Outcome, Entries
  <2> QED
    <3>1. DOMAIN work.entries = DOMAIN disk.entries \ {r.id}
      BY <2>1 DEF Remove, Restrict
    <3> QED
      BY <1>4, <2>1, <3>1
<1>5. CASE r.start \in {"p_hash", "x_hash", "k_put"}
  BY <1>5, CommitOf DEF Outcome, Auth
<1> QED
  BY <1>2, <1>3, <1>4, <1>5, CommitOf DEF Request, Starts

\* The entry an update writes: the call's, with the old creation time.
LEMMA UpdatedEntry ==
  ASSUME IInv, NEW c \in Clients, Commit(c), req[c].start = "u_get"
  PROVE  LET r == req[c]  id == r.id  old == disk.entries IN
         \E at \in Nat :
           /\ old[id].updatedAt <= at /\ at <= now /\ Updated(disk, r, at) \in Entry
           /\ Updated(disk, r, at).type = r.entry.type
           /\ Updated(disk, r, at).payload = r.entry.payload
           /\ Updated(disk, r, at).createdAt = old[id].createdAt
           /\ Updated(disk, r, at).updatedAt = at
           /\ work.entries = Put(old, id, Updated(disk, r, at))
           /\ work.indexType = Moved(disk, id, r.entry.type)
           /\ work.hash = disk.hash /\ work.salt = disk.salt
<1> DEFINE r == req[c]
<1>1. r.id \in DOMAIN disk.entries /\ r.entry \in Entry /\ disk.entries[r.id] \in Entry
  BY CommitIds, CommitOf, EntryType
<1>2. PICK at \in Nat : /\ disk.entries[r.id].updatedAt <= at /\ at <= now
                        /\ Entries(disk, work, Put(disk.entries, r.id, Updated(disk, r, at)),
                                   Moved(disk, r.id, r.entry.type))
  BY CommitOf DEF Outcome
<1>3. /\ Updated(disk, r, at) \in Entry /\ Updated(disk, r, at).type = r.entry.type
      /\ Updated(disk, r, at).payload = r.entry.payload
      /\ Updated(disk, r, at).createdAt = disk.entries[r.id].createdAt
      /\ Updated(disk, r, at).updatedAt = at
  BY <1>1 DEF Updated, Entry
<1> QED
  BY <1>2, <1>3 DEF Entries

LEMMA CommitDisk ==
  ASSUME IInv, NEW c \in Clients, Commit(c)
  PROVE  DiskOK'
<1> DEFINE r == req[c]
<1>0. r.start \in {"c_put", "u_get"} => r.id \notin damaged \ DOMAIN disk.entries
  BY CommitIds, CommitOf DEF IInv, IdsOK
<1>1. Live(disk, damaged) = Rows(disk.entries) /\ disk.hash = disk.salt
      /\ \A id \in DOMAIN disk.entries : disk.entries[id].updatedAt <= now
  BY DEF IInv, DiskOK
<1> DEFINE Good == /\ Live(work, damaged) = Rows(work.entries) /\ work.hash = work.salt
                   /\ \A id \in DOMAIN work.entries : work.entries[id].updatedAt <= now
<1>2. ASSUME r.start = "c_put" PROVE Good
  <2>1. Entries(disk, work, Put(disk.entries, r.id, r.entry), disk.indexType \cup {TypeIndexKey(r.entry.type, r.id)})
    BY <1>2, CommitOf DEF Outcome
  <2>2. r.entry.updatedAt <= now
    BY <1>2, CommitOf DEF NewOK, Creating
  <2>3. r.id \notin DOMAIN disk.entries /\ r.id \in EntryIds /\ r.entry \in Entry /\ disk.entries \in Map
    BY <1>2, CommitIds, CommitOf
  <2>4. Rows(work.entries) = Rows(disk.entries) \cup {TypeIndexKey(r.entry.type, r.id)}
    BY <2>1, <2>3, RowsPut DEF Entries
  <2>5. \A id \in DOMAIN work.entries : work.entries[id].updatedAt <= now
    <3>1. work.entries = Put(disk.entries, r.id, r.entry)
      BY <2>1 DEF Entries
    <3>2. /\ DOMAIN work.entries = DOMAIN disk.entries \cup {r.id}
          /\ \A x \in DOMAIN disk.entries \cup {r.id} :
               work.entries[x] = IF x = r.id THEN r.entry ELSE disk.entries[x]
      BY <3>1 DEF Put
    <3> QED
      BY <1>1, <2>2, <3>2
  <2>6. Live(work, damaged) = Live(disk, damaged) \cup {TypeIndexKey(r.entry.type, r.id)}
    <3>1. DOMAIN work.entries = DOMAIN disk.entries \cup {r.id}
      BY <1>2, CommitIds
    <3>2. work.indexType = (disk.indexType \ {}) \cup {TypeIndexKey(r.entry.type, r.id)}
      BY <2>1 DEF Entries
    <3>3. r.id \notin damaged \ DOMAIN disk.entries
      BY <1>0, <1>2
    <3>4. damaged \ DOMAIN work.entries = damaged \ DOMAIN disk.entries
      BY <3>1, <3>3
    <3>5. PICK row : row = TypeIndexKey(r.entry.type, r.id)
      OBVIOUS
    <3>6. row[2] = r.id
      BY <3>5 DEF TypeIndexKey
    <3>7. work.indexType = (disk.indexType \ {}) \cup {row}
      BY <3>2, <3>5
    <3>8. Live(work, damaged) = (Live(disk, damaged) \ {}) \cup {row}
      BY <3>3, <3>4, <3>6, <3>7 DEF Live
    <3> QED
      BY <3>5, <3>8
  <2> QED
    BY <1>1, <2>1, <2>4, <2>5, <2>6 DEF Entries
<1>3. ASSUME r.start = "u_get" PROVE Good
  <2>1. PICK at \in Nat :
           /\ at <= now /\ Updated(disk, r, at) \in Entry
           /\ Updated(disk, r, at).type = r.entry.type
           /\ Updated(disk, r, at).updatedAt = at
           /\ work.entries = Put(disk.entries, r.id, Updated(disk, r, at))
           /\ work.indexType = Moved(disk, r.id, r.entry.type)
           /\ work.hash = disk.hash /\ work.salt = disk.salt
    BY <1>3, UpdatedEntry
  <2>2. PICK e : e = Updated(disk, r, at)
    OBVIOUS
  <2>3. r.id \in DOMAIN disk.entries /\ r.id \in EntryIds /\ disk.entries \in Map /\ e \in Entry
    BY <1>3, <2>1, <2>2, CommitIds, CommitOf
  <2>4. Rows(work.entries) = (Rows(disk.entries) \ {TypeIndexKey(disk.entries[r.id].type, r.id)})
                               \cup {TypeIndexKey(e.type, r.id)}
    BY <2>1, <2>2, <2>3, RowsPut
  <2>5. \A id \in DOMAIN work.entries : work.entries[id].updatedAt <= now
    <3>1. /\ DOMAIN work.entries = DOMAIN disk.entries \cup {r.id}
          /\ \A x \in DOMAIN disk.entries \cup {r.id} :
               work.entries[x] = IF x = r.id THEN e ELSE disk.entries[x]
      BY <2>1, <2>2 DEF Put
    <3> QED
      BY <1>1, <2>1, <2>2, <3>1
  <2>6. Live(work, damaged) = (Live(disk, damaged) \ {OldRow(disk, r.id)}) \cup {TypeIndexKey(e.type, r.id)}
    <3>1. DOMAIN work.entries = DOMAIN disk.entries \cup {r.id}
      BY <1>3, <2>3, CommitIds
    <3>2. work.indexType = (disk.indexType \ {OldRow(disk, r.id)}) \cup {TypeIndexKey(e.type, r.id)}
      BY <2>1, <2>2 DEF Moved
    <3>3. r.id \notin damaged \ DOMAIN disk.entries
      BY <1>0, <1>3
    <3>4. damaged \ DOMAIN work.entries = damaged \ DOMAIN disk.entries
      BY <3>1, <3>3
    <3>5. PICK row : row = TypeIndexKey(e.type, r.id)
      OBVIOUS
    <3>6. row[2] = r.id
      BY <3>5 DEF TypeIndexKey
    <3>7. work.indexType = (disk.indexType \ {OldRow(disk, r.id)}) \cup {row}
      BY <3>2, <3>5
    <3>8. Live(work, damaged) = (Live(disk, damaged) \ {OldRow(disk, r.id)}) \cup {row}
      BY <3>3, <3>4, <3>6, <3>7 DEF Live
    <3> QED
      BY <3>5, <3>8
  <2> QED
    BY <1>1, <2>1, <2>2, <2>4, <2>5, <2>6 DEF OldRow
<1>4. ASSUME r.start = "d_get" PROVE Good
  <2>1. Entries(disk, work, Remove(disk.entries, r.id), Unindexed(disk, r.id, damaged))
    BY <1>4, CommitOf DEF Outcome
  <2>2. r.id \in DOMAIN disk.entries /\ disk.entries \in Map
    BY <1>4, CommitIds, CommitOf
  <2>3. Rows(work.entries) = Rows(disk.entries) \ {OldRow(disk, r.id)}
    BY <2>1, <2>2, RowsRemove DEF OldRow, Entries
  <2>4. \A id \in DOMAIN work.entries : work.entries[id].updatedAt <= now
    <3>1. work.entries = Remove(disk.entries, r.id)
      BY <2>1 DEF Entries
    <3>2. DOMAIN work.entries = DOMAIN disk.entries \ {r.id}
          /\ \A x \in DOMAIN disk.entries \ {r.id} : work.entries[x] = disk.entries[x]
      BY <3>1 DEF Remove, Restrict
    <3> QED
      BY <1>1, <3>2
  <2>5. DOMAIN work.entries = DOMAIN disk.entries \ {r.id} /\ work.indexType = Unindexed(disk, r.id, damaged)
    BY <1>4, <2>1, CommitIds DEF Entries
  <2>6. Live(work, damaged) = Rows(disk.entries) \ {OldRow(disk, r.id)}
    BY <1>1, <2>2, <2>5, LiveRemove
  <2> QED
    BY <1>1, <2>1, <2>3, <2>4, <2>6 DEF Entries
<1>5. ASSUME r.start \in {"p_hash", "x_hash", "k_put"} PROVE Good
  <2>1. work.entries = disk.entries /\ work.indexType = disk.indexType /\ work.hash = work.salt
    BY <1>1, <1>5, CommitOf DEF Outcome, Auth
  <2>2. Live(work, damaged) = Live(disk, damaged)
    BY <2>1 DEF Live
  <2> QED
    BY <1>1, <2>1, <2>2
<1>6. Good
  BY <1>2, <1>3, <1>4, <1>5, CommitOf DEF Request, Starts
<1>7. Live(disk, damaged)' = Live(work, damaged)
  BY CommitOf DEF Live
<1> QED
  BY <1>6, <1>7, CommitOf DEF DiskOK

LEMMA CommitStep ==
  ASSUME IInv, NEW c \in Clients, Commit(c)
  PROVE  IInv'
<1> DEFINE r == req[c]
<1>1. req'[c] = Idle /\ \A d \in Clients \ {c} : req'[d] = req[d]
  BY CommitOf DEF IInv, CallsOK
<1>2. IdsOK'
  <2>1. deleted \subseteq used /\ DOMAIN disk.entries \subseteq used \ deleted
    BY DEF IInv, IdsOK
  <2>2. DOMAIN work.entries \subseteq used \ deleted
    BY <2>1, CommitIds, CommitOf DEF Request, Starts
  <2>3. damaged' \subseteq DOMAIN disk'.entries \cup deleted'
    BY CommitOf DEF IInv, IdsOK
  <2> QED
    BY <2>1, <2>2, <2>3, CommitOf DEF IdsOK
<1>3. ASSUME NEW d \in Clients \ {c}, Creating(req[d])
      PROVE  req[d].id \notin DOMAIN work.entries \cup deleted'
  <2>1. req[d].id \notin DOMAIN disk.entries \cup deleted
    BY <1>3 DEF IInv, CallsOK, NewOK
  <2>2. r.start = "c_put" => req[d].id # r.id
    BY <1>3, CommitOf DEF IInv, CallsOK, Creating
  <2> QED
    BY <2>1, <2>2, CommitIds, CommitOf DEF Request, Starts
<1>4. CallsOK'
  <2>1. \A d \in Clients : req'[d] = req[d] => NewOK(req[d])'
    <3>1. ASSUME NEW d \in Clients \ {c} PROVE NewOK(req[d])'
      <4>1. Creating(req'[d]) = Creating(req[d]) /\ NewOK(req[d])
        BY <1>1 DEF IInv, CallsOK
      <4> QED
        BY <1>1, <1>3, <4>1, CommitOf DEF NewOK, Creating
    <3>2. NewOK(req[c])'
      BY <1>1, IdleOK DEF NewOK, Creating
    <3> QED
      BY <3>1, <3>2
  <2>2. req' \in [Clients -> Request]
    BY CommitOf, IdleOK DEF IInv, CallsOK
  <2> QED
    BY <1>1, <2>1, <2>2, CommitOf, Dropped
<1>5. WriterOK'
  BY <1>1, CommitOf, IdleOK, Labels, StoreAssumption DEF IInv, WriterOK
<1> QED
  BY <1>2, <1>4, <1>5, CommitDisk DEF IInv

LEMMA Inductive == IInv /\ [Next]_vars => IInv'
<1> SUFFICES ASSUME IInv, [Next]_vars PROVE IInv'
  OBVIOUS
<1>1. ASSUME NEW c \in Clients, Calls(c) \/ Transaction(c) PROVE IInv'
  BY <1>1, CallsStep, BeginStep, CreateStep, DeleteStep, UpdateGetStep, UpdateIndexStep,
     UpdatePutStep, AuthStep, CommitStep, RollbackStep DEF Transaction
<1>2. CASE UNCHANGED vars
  <2>1. UNCHANGED <<now, disk, work, writer, req, used, deleted, damaged>>
    BY <1>2 DEF vars
  <2>2. CallsOK'
    BY <2>1 DEF IInv, CallsOK, NewOK, Creating
  <2> QED
    BY <2>1, <2>2 DEF IInv, DiskOK, IdsOK, WriterOK
<1> QED
  BY <1>1, <1>2, ReopenStep, TickStep DEF Next

-----------------------------------------------------------------------------
\* Theorems.

LEMMA Invariant == Spec => []IInv
<1>1. Init => IInv
  BY InitOK
<1>2. IInv /\ [Next]_vars => IInv'
  BY Inductive
<1> QED
  BY <1>1, <1>2, PTL DEF Spec

\* Whatever the calls do, and wherever one of them fails or the process stops, the
\* buckets and the calls are of their types, and only the lock's holder is inside
\* a transaction.
THEOREM TypeCorrect == Spec => []TypeOK
<1>1. IInv => TypeOK
  <2> SUFFICES ASSUME IInv PROVE TypeOK
    OBVIOUS
  <2>1. /\ now \in Nat /\ used \subseteq EntryIds /\ deleted \subseteq EntryIds
        /\ damaged \subseteq EntryIds
    BY DEF IInv, DiskOK, IdsOK
  <2>2. Buckets(disk) /\ Buckets(work)
    BY BucketTypes DEF IInv, DiskOK, WriterOK
  <2>3. writer \in Clients \cup {None} /\ req \in [Clients -> Request]
    BY DEF IInv, WriterOK, CallsOK
  <2>4. ASSUME NEW c \in Clients
        PROVE  /\ req[c].at \in TxLabels <=> writer = c
               /\ req[c].at # "idle" =>
                    /\ req[c].start \in {"c_put", "u_get", "d_get"} => req[c].id \in EntryIds
                    /\ req[c].start \in {"c_put", "u_get"} => req[c].entry \in Entry
                    /\ req[c].start = "p_hash" => req[c].secret \in Secrets
                    /\ req[c].start = "k_put" => req[c].key \in Keys
    BY <2>1 DEF IInv, CallsOK, WriterOK, RequestOK
  <2> QED
    BY <2>1, <2>2, <2>3, <2>4 DEF TypeOK
<1> QED
  BY <1>1, Invariant, PTL

\* The committed index has one row for each entry, under its type, and no row but those
\* of entries deleted when they did not unmarshal; List by type finds what a filter of
\* all the entries finds, and fails only for a damaged entry of that type, for any
\* number of calls, entries and types.
THEOREM IndexKept == Spec => []IndexExact
<1>1. IInv => IndexExact
  <2> SUFFICES ASSUME IInv PROVE IndexExact
    OBVIOUS
  <2>1. Live(disk, damaged) = Rows(disk.entries) /\ disk.entries \in Map
    BY DEF IInv, DiskOK, BucketSet
  <2>2. DOMAIN disk.entries \subseteq EntryIds
    BY <2>1, EntryType
  <2>3. ASSUME NEW type \in Types, NEW id \in DOMAIN disk.entries
        PROVE  TypeIndexKey(type, id) \in disk.indexType <=> disk.entries[id].type = type
    <3>1. TypeIndexKey(type, id)[2] = id
      BY DEF TypeIndexKey
    <3>2. TypeIndexKey(type, id) \in disk.indexType <=> TypeIndexKey(type, id) \in Live(disk, damaged)
      BY <3>1 DEF Live
    <3> QED
      BY <2>1, <3>2 DEF Rows, TypeIndexKey
  <2>4. ASSUME NEW type \in Types \ {Unspecified}
        PROVE  Scan(disk, type) = {id \in DOMAIN disk.entries : disk.entries[id].type = type}
    BY <2>2, <2>3 DEF Scan
  <2> QED
    BY <2>1, <2>4 DEF IndexExact, Live, List
<1> QED
  BY <1>1, Invariant, PTL

LEMMA PINOf ==
  ASSUME NEW b, b.hash = b.salt, b.hash \in Secrets \cup {None}
  PROVE  GetPINHash(b) \in {<<s, s>> : s \in Secrets} \cup {None}
BY DEF GetPINHash

\* The commit of an operation is that operation of the vault.
LEMMA CommitMaps ==
  ASSUME IInv, NEW c \in Clients, Commit(c)
  PROVE  [Vault!VaultNext]_Vault!absVars
<1> DEFINE r == req[c]
<1>1. UNCHANGED now /\ disk' = work /\ deleted' = deleted \cup (DOMAIN disk.entries \ DOMAIN work.entries)
  BY CommitOf
<1>2. r.start \in {"c_put", "u_get", "d_get"} => UNCHANGED GetPINHash(disk)
  <2>1. r.start \in {"c_put", "u_get", "d_get"} => work.hash = disk.hash /\ work.salt = disk.salt
    BY CommitOf DEF Outcome, Entries
  <2> QED
    BY <1>1, <2>1 DEF GetPINHash
<1>3. CASE r.start = "c_put"
  <2>1. /\ r.id \in EntryIds \ (DOMAIN disk.entries \cup deleted) /\ r.entry \in Entry
        /\ DOMAIN work.entries = DOMAIN disk.entries \cup {r.id}
    BY <1>3, CommitIds
  <2>2. work.entries = Put(disk.entries, r.id, r.entry)
    BY <1>3, CommitOf DEF Outcome, Entries
  <2>3. r.entry.createdAt = r.entry.updatedAt /\ r.entry.updatedAt <= now /\ now \in Nat
    BY <1>3, CommitOf DEF NewOK, Creating
  <2>4. UNCHANGED deleted
    BY <1>1, <2>1
  <2>5. \E type \in Types, payload \in Payloads, at \in 0..now :
          r.entry = [type |-> type, payload |-> payload, createdAt |-> at, updatedAt |-> at]
    BY <2>1, <2>3 DEF Entry
  <2>6. Vault!CreateEntry(r.id)
    BY <1>1, <1>2, <1>3, <2>1, <2>2, <2>4, <2>5 DEF Vault!CreateEntry, Vault!Put, Put
  <2> QED
    BY <2>1, <2>6 DEF Vault!VaultNext
<1>4. CASE r.start = "u_get"
  <2>1. PICK at \in Nat :
           /\ disk.entries[r.id].updatedAt <= at /\ at <= now /\ Updated(disk, r, at) \in Entry
           /\ Updated(disk, r, at).type = r.entry.type
           /\ Updated(disk, r, at).payload = r.entry.payload
           /\ Updated(disk, r, at).createdAt = disk.entries[r.id].createdAt
           /\ Updated(disk, r, at).updatedAt = at
           /\ work.entries = Put(disk.entries, r.id, Updated(disk, r, at))
    BY <1>4, UpdatedEntry
  <2>2. PICK e : e = Updated(disk, r, at)
    OBVIOUS
  <2>3. /\ r.id \in DOMAIN disk.entries /\ r.id \in EntryIds
        /\ DOMAIN work.entries = DOMAIN disk.entries
    BY <1>4, CommitIds
  <2>4. UNCHANGED deleted
    BY <1>1, <2>3
  <2>5. disk.entries[r.id].updatedAt \in Nat /\ now \in Nat /\ disk.entries \in Map
    BY <2>3, CommitOf, EntryType DEF Entry
  <2>6. work.entries = [disk.entries EXCEPT ![r.id] = e]
    BY <2>1, <2>2, <2>3, <2>5, EntryType DEF Put
  <2>7. /\ at \in disk.entries[r.id].updatedAt..now /\ e.type \in Types /\ e.payload \in Payloads
        /\ e = [type |-> e.type, payload |-> e.payload,
                createdAt |-> disk.entries[r.id].createdAt, updatedAt |-> at]
    BY <2>1, <2>2, <2>5 DEF Entry
  <2>8. Vault!UpdateEntry(r.id)
    BY <1>1, <1>2, <1>4, <2>3, <2>4, <2>6, <2>7 DEF Vault!UpdateEntry
  <2> QED
    BY <2>3, <2>8 DEF Vault!VaultNext
<1>5. CASE r.start = "d_get"
  <2>1. /\ r.id \in DOMAIN disk.entries /\ r.id \in EntryIds
        /\ DOMAIN work.entries = DOMAIN disk.entries \ {r.id}
    BY <1>5, CommitIds, CommitOf, EntryType
  <2>2. work.entries = Restrict(disk.entries, DOMAIN disk.entries \ {r.id})
    BY <1>5, CommitOf DEF Outcome, Entries, Remove
  <2>3. deleted' = deleted \cup {r.id}
    BY <1>1, <2>1
  <2>4. Vault!DeleteEntry(r.id)
    BY <1>1, <1>2, <1>5, <2>1, <2>2, <2>3 DEF Vault!DeleteEntry, Vault!Restrict, Restrict
  <2> QED
    BY <2>1, <2>4 DEF Vault!VaultNext
<1>6. CASE r.start \in {"p_hash", "x_hash", "k_put"}
  <2>1. work.entries = disk.entries
    BY <1>6, CommitIds
  <2>2. GetPINHash(work) \in {<<s, s>> : s \in Secrets} \cup {None}
    <3>1. DiskOK'
      BY CommitDisk
    <3>2. work.hash = work.salt /\ work.hash \in Secrets \cup {None}
      BY <1>1, <3>1 DEF DiskOK, BucketSet
    <3> QED
      BY <3>2, PINOf
  <2>3. GetPINHash(disk)' = GetPINHash(work)
    BY <1>1 DEF GetPINHash
  <2>4. Vault!SetPIN
    BY <1>1, <2>1, <2>2, <2>3 DEF Vault!SetPIN
  <2> QED
    BY <2>4 DEF Vault!VaultNext
<1> QED
  BY <1>3, <1>4, <1>5, <1>6, CommitOf DEF Request, Starts

\* The store implements the vault the storage port promises: an operation that fails,
\* or is cut off by a stop of the process, changes nothing, and one that commits is
\* one step of the vault, for any number of clients and entries.
THEOREM ImplementsVault == Spec => VaultSpec
<1>1. Init => Vault!VaultInit
  BY DEF Init, Blank, Vault!VaultInit, GetPINHash
<1>2. ASSUME IInv, [Next]_vars PROVE [Vault!VaultNext]_Vault!absVars
  <2>1. UNCHANGED <<now, disk, deleted>> => UNCHANGED Vault!absVars
    BY DEF Vault!absVars, GetPINHash
  <2>2. ASSUME NEW c \in Clients, Calls(c) PROVE UNCHANGED <<now, disk, deleted>>
    BY Zenon, <2>2 DEF Calls, CreateCall, UpdateCall, DeleteCall, AuthCall, Arrive
  <2>3. ASSUME NEW c \in Clients, Transaction(c), ~Commit(c) PROVE UNCHANGED <<now, disk, deleted>>
    BY <2>3 DEF Transaction, Begin, Create, DeleteByID, UpdateGet, UpdateIndex, UpdatePut,
                StorePINHash, DeletePINHash, StoreAuthKey, Rollback, Section
  <2>4. Tick => Vault!Tick
    BY DEF Tick, Vault!Tick, GetPINHash
  <2>5. Reopen \/ UNCHANGED vars => UNCHANGED <<now, disk, deleted>>
    BY DEF Reopen, vars
  <2> QED
    BY <1>2, <2>1, <2>2, <2>3, <2>4, <2>5, CommitMaps DEF Next, Vault!VaultNext
<1> QED
  BY <1>1, <1>2, Invariant, PTL DEF Spec, VaultSpec, Vault!VaultSpec
=============================================================================
