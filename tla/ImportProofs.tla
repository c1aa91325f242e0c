----------------------------- MODULE ImportProofs -----------------------------
(***************************************************************************)
(* What an import promises, for every export, number of workers, other     *)
(* clients and number of runs.                                             *)
(***************************************************************************)
EXTENDS Import, FiniteSetTheorems, TLAPS

Todo == queue \cup adding

\* The items of the run the server has stored, and those it may yet store although
\* their caller has been told that they failed.
Mine(s) == {i \in Items : <<run, i>> \in s}

\* The entries an import has stored and whose caller was told the truth.
Known == {id \in vault \ late : id[1] > 0}
Key(id) == deduplicationKey(EnvelopeOf(id))

Typed ==
  /\ vault \subseteq stored /\ stored \subseteq Ids /\ late \subseteq Ids
  /\ stage \in Stages /\ run \in 0..MaxRuns /\ force \in BOOLEAN /\ cancelled \in BOOLEAN
  /\ doomed \subseteq listed /\ listed \subseteq stored
  /\ counts \in [imported : Nat, duplicates : Nat, failed : Nat, unsupported : Nat, invalid : Nat]
  /\ queue \subseteq Items /\ adding \subseteq Items \ queue
  /\ pool \in 0..Workers /\ Cardinality(adding) <= pool

\* Only a run that has got to its items has any in hand, or any in the store.
RunOK ==
  /\ stage = "start" <=> run = 0
  /\ run = 0 => ~force
  /\ stage \notin {"work", "complete"} => queue = {} /\ adding = {} /\ pool = 0 /\ counts = NoCounts
  /\ \A id \in stored \cup late : id[1] <= run
  /\ \A id \in stored \cup late : id[1] = run => stage \in {"start", "work", "complete", "dead"}

\* What the wipe has listed and not deleted is still ahead of it, or it has failed.
WipeOK ==
  /\ stage \notin {"wipe", "failed"} => doomed = {}
  /\ stage # "failed" => listed \cap vault \subseteq doomed
  /\ stage = "dead" => listed = {}

\* An item still to be stored has a key nothing known in the vault has, and no other such item.
KeysOK ==
  /\ \A x, y \in Known : Key(x) = Key(y) => x = y
  /\ \A i \in Todo \ Mine(stored), x \in Known : Key(x) # KeyOf(i)
  /\ \A i, j \in Todo : KeyOf(i) = KeyOf(j) => i = j
  /\ stage = "wipe" => Known \subseteq listed

\* The items no goroutine is adding any more: those in the store, and with them those
\* that may still get there.
Sent     == Mine(stored) \ adding
Possible == Mine(stored \cup late) \ adding

\* Every item is counted once or still in hand, and what is counted agrees with the store.
CountsOK ==
  stage \in {"work", "complete"} =>
    /\ Counted + Cardinality(queue) + Cardinality(adding) = Len(Export)
    /\ queue \cap Mine(stored \cup late) = {}
    /\ counts.imported <= Cardinality(Sent)
    /\ Cardinality(Possible) <= counts.imported + counts.failed
    /\ pool = 0 => queue = {} \/ cancelled
    /\ stage = "complete" => pool = 0

IInv == Typed /\ RunOK /\ WipeOK /\ KeysOK /\ CountsOK

-----------------------------------------------------------------------------
\* Finite sets of items, and the parts of an id.

LEMMA ItemSets ==
  /\ IsFiniteSet(Items) /\ Cardinality(Items) = Len(Export)
  /\ \A s \in SUBSET Items : IsFiniteSet(s) /\ Cardinality(s) \in Nat /\ Cardinality(s) <= Len(Export)
<1>1. IsFiniteSet(Items) /\ Cardinality(Items) = Len(Export)
  <2>1. \A n \in Nat : IsFiniteSet(1..n) /\ Cardinality(1..n) = n
    BY FS_Interval
  <2> QED
    BY <2>1, ExportAssumption, Zenon DEF Items
<1> QED
  BY <1>1, FS_Subset, FS_CardinalityType

LEMMA Smaller ==
  ASSUME NEW s \in SUBSET Items, NEW t \in SUBSET s
  PROVE  Cardinality(t) <= Cardinality(s)
BY ItemSets, FS_Subset

LEMMA OneMore ==
  ASSUME NEW s \in SUBSET Items, NEW i \in Items \ s
  PROVE  Cardinality(s \cup {i}) = Cardinality(s) + 1
BY ItemSets, FS_AddElement

LEMMA OneLess ==
  ASSUME NEW s \in SUBSET Items, NEW i \in s
  PROVE  Cardinality(s \ {i}) = Cardinality(s) - 1
BY ItemSets, FS_RemoveElement

LEMMA NoItem == Cardinality({}) = 0
BY FS_EmptySet

LEMMA IdParts ==
  ASSUME NEW id \in Ids
  PROVE  id[1] \in Nat /\ id[1] <= MaxRuns /\ (id[1] > 0 => id[2] \in Items /\ id = <<id[1], id[2]>>)
BY ExportAssumption DEF Ids

LEMMA Answered ==
  /\ Sent \subseteq Items /\ Cardinality(Sent) \in Nat
  /\ Possible \subseteq Items /\ Cardinality(Possible) \in Nat
  /\ Sent' \subseteq Items /\ Cardinality(Sent') \in Nat
  /\ Possible' \subseteq Items /\ Cardinality(Possible') \in Nat
<1>1. Sent \subseteq Items /\ Possible \subseteq Items /\ Sent' \subseteq Items /\ Possible' \subseteq Items
  BY DEF Mine, Sent, Possible
<1> QED
  BY <1>1, ItemSets

LEMMA InHand ==
  ASSUME Typed
  PROVE  /\ Cardinality(queue) \in Nat /\ Cardinality(adding) \in Nat /\ Counted \in Nat
         /\ \A c \in DOMAIN counts : counts[c] \in Nat
<1>1. Cardinality(queue) \in Nat /\ Cardinality(adding) \in Nat
  BY ItemSets DEF Typed
<1> QED
  BY <1>1 DEF Typed, Counted

-----------------------------------------------------------------------------
\* The store.

\* What the wipe and the run's own bookkeeping keep when an entry is stored.
LEMMA Stores ==
  ASSUME IInv, NEW id \in Ids \ stored, Store(id),
         UNCHANGED <<late, stage, run, force, cancelled, wipeVars, counts, workVars>>,
         id[1] <= run, id[1] = run => stage \in {"start", "work", "complete", "dead"}
  PROVE  Typed' /\ RunOK' /\ WipeOK'
<1>1. Typed'
  BY DEF IInv, Typed, Store, wipeVars, workVars
<1>2. RunOK'
  BY DEF IInv, RunOK, Store, wipeVars, workVars
<1>3. WipeOK'
  BY DEF IInv, Typed, WipeOK, Store, wipeVars
<1> QED
  BY <1>1, <1>2, <1>3

LEMMA OtherAddsStep ==
  ASSUME IInv, OtherAdds
  PROVE  IInv'
<1>1. PICK id \in ({0} \X DOMAIN Others) \ stored : Store(id)
  BY Zenon DEF OtherAdds
<1>2. UNCHANGED <<late, stage, run, force, cancelled, wipeVars, counts, workVars>>
  BY Zenon DEF OtherAdds
<1>3. id[1] = 0 /\ id \in Ids \ stored /\ run \in Nat
  BY ExportAssumption DEF Ids, IInv, Typed
<1>4. run = 0 => Todo = {} /\ stage = "start"
  BY DEF IInv, RunOK, Todo
<1>5. Typed' /\ RunOK' /\ WipeOK'
  BY <1>1, <1>2, <1>3, <1>4, Stores
<1>6. Known' = Known
  BY <1>1, <1>2, <1>3 DEF Known, Store
<1>7. run > 0 => Mine(stored)' = Mine(stored) /\ Mine(stored \cup late)' = Mine(stored \cup late)
  BY <1>1, <1>2, <1>3 DEF Mine, Store
<1>8. KeysOK'
  <2>1. Todo' = Todo /\ UNCHANGED <<stage, listed>>
    BY <1>2 DEF Todo, workVars, wipeVars
  <2>2. Todo \ Mine(stored)' = Todo \ Mine(stored)
    BY <1>3, <1>4, <1>7
  <2> QED
    BY <1>6, <2>1, <2>2 DEF IInv, KeysOK
<1>9. run > 0 => Sent' = Sent /\ Possible' = Possible /\ UNCHANGED Mine(stored \cup late)
  BY <1>2, <1>7 DEF Sent, Possible, workVars
<1>10. CountsOK'
  BY <1>2, <1>3, <1>4, <1>9 DEF IInv, CountsOK, Counted, workVars
<1> QED
  BY <1>5, <1>8, <1>10 DEF IInv

LEMMA OtherDeletesStep ==
  ASSUME IInv, OtherDeletes
  PROVE  IInv'
<1>1. vault' \subseteq vault /\ UNCHANGED <<stored, late, stage, run, force, cancelled, wipeVars, counts, workVars>>
  BY DEF OtherDeletes
<1>2. Typed' /\ RunOK' /\ WipeOK'
  BY <1>1 DEF IInv, Typed, RunOK, WipeOK, wipeVars, workVars
<1>3. KeysOK'
  BY <1>1 DEF IInv, KeysOK, Known, Todo, Mine, wipeVars, workVars
<1>4. CountsOK'
  BY <1>1 DEF IInv, CountsOK, Counted, Mine, Sent, Possible, workVars
<1> QED
  BY <1>2, <1>3, <1>4 DEF IInv

LEMMA LateAddStep ==
  ASSUME IInv, LateAdd
  PROVE  IInv'
<1>1. PICK id \in late \ stored : Store(id)
  BY Zenon DEF LateAdd
<1>2. UNCHANGED <<late, stage, run, force, cancelled, wipeVars, counts, workVars>>
  BY Zenon DEF LateAdd
<1>3. id \in Ids \ stored
  BY <1>1 DEF IInv, Typed
<1>4. Typed' /\ RunOK' /\ WipeOK'
  BY <1>1, <1>2, <1>3, Stores DEF IInv, RunOK
<1>5. Known' = Known /\ Mine(stored) \subseteq Mine(stored)' /\ (stored \cup late)' = stored \cup late
  BY <1>1, <1>2 DEF Known, Store, Mine
<1>6. Todo' = Todo /\ UNCHANGED <<stage, listed, run>>
  BY <1>2 DEF Todo, workVars, wipeVars
<1>7. KeysOK'
  BY <1>5, <1>6 DEF IInv, KeysOK
<1>8. Mine(stored \cup late)' = Mine(stored \cup late)
  BY <1>5, <1>6 DEF Mine
<1>9. Possible' = Possible /\ Cardinality(Sent) <= Cardinality(Sent')
  <2>1. Possible' = Possible /\ Sent \subseteq Sent'
    BY <1>2, <1>5, <1>8 DEF Possible, Sent, workVars
  <2> QED
    BY <2>1, Answered, Smaller
<1>10. counts.imported \in Nat
  BY DEF IInv, Typed
<1>11. CountsOK'
  BY <1>2, <1>8, <1>9, <1>10, Answered DEF IInv, CountsOK, Counted, workVars
<1> QED
  BY <1>4, <1>7, <1>11 DEF IInv

-----------------------------------------------------------------------------
\* The main goroutine.

Before == {"export", "connect", "wipe_list", "wipe", "list"}

\* Up to the import proper the command has nothing in hand.
LEMMA MovesOn ==
  ASSUME IInv, stage \in Before, stage' \in Before \cup {"failed"},
         vault' \subseteq vault, doomed' \subseteq listed', listed' \subseteq stored,
         UNCHANGED <<stored, late, run, force, cancelled, counts, workVars>>,
         WipeOK', stage' = "wipe" => Known' \subseteq listed'
  PROVE  IInv'
<1>1. Typed'
  BY DEF IInv, Typed, workVars, Before, Stages, Ended
<1>2. RunOK'
  BY DEF IInv, RunOK, workVars, Before
<1>3. KeysOK'
  <2>1. queue = {} /\ adding = {} /\ Todo' = {}
    BY DEF IInv, RunOK, Before, Todo, workVars
  <2>2. Known' \subseteq Known
    BY DEF Known
  <2> QED
    BY <2>1, <2>2 DEF IInv, KeysOK, Key, EnvelopeOf
<1>4. CountsOK'
  BY DEF CountsOK, Before
<1> QED
  BY <1>1, <1>2, <1>3, <1>4 DEF IInv

LEMMA BeforeSteps ==
  ASSUME IInv, ReadExport \/ ConnectAndAuth \/ WipeList \/ ListFails
  PROVE  IInv'
<1>1. CASE ReadExport \/ ConnectAndAuth \/ ListFails
  <2>1. /\ stage \in Before \ {"wipe"} /\ stage' \in (Before \cup {"failed"}) \ {"wipe"}
        /\ UNCHANGED <<vaultVars, run, force, cancelled, wipeVars, counts, workVars>>
    <3>1. CASE ReadExport \/ ListFails
      BY <3>1 DEF ReadExport, ListFails, GoTo, Before
    <3>2. CASE ConnectAndAuth
      BY <3>2 DEF ConnectAndAuth, GoTo, Before
    <3> QED
      BY <1>1, <3>1, <3>2
  <2>2. WipeOK'
    BY <2>1 DEF IInv, WipeOK, Before, vaultVars, wipeVars
  <2>3. doomed' \subseteq listed' /\ listed' \subseteq stored
    BY <2>1 DEF IInv, Typed, wipeVars
  <2> QED
    BY <2>1, <2>2, <2>3, MovesOn DEF vaultVars
<1>2. CASE WipeList
  <2>1. /\ stage = "wipe_list" /\ UNCHANGED <<vaultVars, run, force, cancelled, counts, workVars>>
        /\ \/ doomed' = vault /\ listed' = vault /\ stage' = "wipe"
           \/ UNCHANGED wipeVars /\ stage' = "failed"
    BY <1>2 DEF WipeList, GoTo
  <2>2. WipeOK'
    BY <2>1 DEF IInv, WipeOK, vaultVars, wipeVars
  <2>3. doomed' \subseteq listed' /\ listed' \subseteq stored /\ (stage' = "wipe" => Known' \subseteq listed')
    BY <2>1 DEF IInv, Typed, wipeVars, vaultVars, Known
  <2> QED
    BY <2>1, <2>2, <2>3, MovesOn DEF vaultVars, Before
<1> QED
  BY <1>1, <1>2

LEMMA WipeEntryStep ==
  ASSUME IInv, WipeEntry
  PROVE  IInv'
<1>1. PICK id \in doomed :
        /\ doomed' = doomed \ {id}
        /\ \/ ~cancelled /\ vault' = vault \ {id} /\ UNCHANGED stage
           \/ vault' \in {vault, vault \ {id}} /\ GoTo("failed")
  BY Zenon DEF WipeEntry
<1>2. stage = "wipe" /\ UNCHANGED <<stored, late, run, force, cancelled, listed, counts, workVars>>
  BY Zenon DEF WipeEntry
<1>3. vault' \subseteq vault /\ ((vault' = vault \ {id} /\ stage' = "wipe") \/ stage' = "failed")
  BY <1>1, <1>2 DEF GoTo
<1>4. WipeOK'
  BY <1>1, <1>2, <1>3 DEF IInv, WipeOK
<1>5. doomed' \subseteq listed' /\ listed' \subseteq stored
  BY <1>1, <1>2 DEF IInv, Typed
<1>6. Known' \subseteq Known
  BY <1>2, <1>3 DEF Known
<1>7. Known' \subseteq listed'
  BY <1>2, <1>6 DEF IInv, KeysOK
<1>8. stage \in Before /\ stage' \in Before \cup {"failed"}
  BY <1>2, <1>3 DEF Before
<1> QED
  BY <1>2, <1>3, <1>4, <1>5, <1>7, <1>8, MovesOn

LEMMA NewKeys ==
  ASSUME NEW seen
  PROVE  /\ NewItems(seen) \subseteq importable /\ importable \subseteq Items
         /\ \A i \in NewItems(seen) : KeyOf(i) \notin seen
         /\ \A i, j \in NewItems(seen) : KeyOf(i) = KeyOf(j) => i = j
<1>1. /\ NewItems(seen) \subseteq importable /\ importable \subseteq Items
      /\ \A i \in NewItems(seen) : KeyOf(i) \notin seen
  BY DEF NewItems, importable
<1>2. ASSUME NEW i \in NewItems(seen), NEW j \in NewItems(seen), KeyOf(i) = KeyOf(j), i < j
      PROVE  FALSE
  <2>1. i \in importable \cap 1..j - 1
    BY <1>1, <1>2, ExportAssumption DEF Items
  <2>2. KeyOf(j) \notin {KeyOf(k) : k \in importable \cap 1..j - 1}
    BY DEF NewItems
  <2> QED
    BY <1>2, <2>1, <2>2
<1>3. \A i \in NewItems(seen) : i \in Nat
  BY <1>1, ExportAssumption DEF Items
<1> QED
  BY <1>1, <1>2, <1>3

\* The classification accounts for every item.
LEMMA ClassifiedAll ==
  ASSUME NEW seen, NEW c, c = Classified(seen)
  PROVE  /\ c \in [imported : Nat, duplicates : Nat, failed : Nat, unsupported : Nat, invalid : Nat]
         /\ c.imported = 0 /\ c.failed = 0
         /\ c.duplicates + c.unsupported + c.invalid + Cardinality(NewItems(seen)) = Len(Export)
<1> DEFINE blank == {i \in Items : Export[i].name = <<>>}
           new   == NewItems(seen)
<1>1. /\ c.imported = 0 /\ c.failed = 0
      /\ c.duplicates = Cardinality(importable) - Cardinality(new)
      /\ c.unsupported = Cardinality(Items \ (importable \cup blank))
      /\ c.invalid = Cardinality(blank)
      /\ DOMAIN c = DOMAIN NoCounts /\ c = [x \in DOMAIN c |-> c[x]]
  BY DEF Classified, NoCounts
<1>2. importable \subseteq Items /\ blank \subseteq Items /\ importable \cap blank = {}
  BY DEF importable, isImportableItem
<1>3. new \subseteq importable
  BY NewKeys
<1> HIDE DEF blank, new
<1>4. Cardinality(importable \cup blank) = Cardinality(importable) + Cardinality(blank)
  <2>1. IsFiniteSet(importable) /\ IsFiniteSet(blank) /\ Cardinality(importable \cap blank) = 0
    BY <1>2, ItemSets, NoItem
  <2>2. Cardinality(importable \cup blank)
          = Cardinality(importable) + Cardinality(blank) - Cardinality(importable \cap blank)
    BY <2>1, FS_Union
  <2> QED
    BY <1>2, <2>1, <2>2, ItemSets
<1>5. Cardinality(Items \ (importable \cup blank)) = Len(Export) - Cardinality(importable \cup blank)
  <2>1. Cardinality(Items \ (importable \cup blank))
          = Cardinality(Items) - Cardinality(Items \cap (importable \cup blank))
    BY ItemSets, FS_Difference
  <2>2. Items \cap (importable \cup blank) = importable \cup blank
    BY <1>2
  <2> QED
    BY <2>1, <2>2, ItemSets
<1>6. Cardinality(new) <= Cardinality(importable)
  BY <1>2, <1>3, Smaller
<1>7. /\ Cardinality(new) \in Nat /\ Cardinality(importable) \in Nat /\ Cardinality(blank) \in Nat
      /\ Cardinality(Items \ (importable \cup blank)) \in Nat /\ Len(Export) \in Nat
      /\ importable \cup blank \subseteq Items
  BY <1>2, <1>3, ItemSets, ExportAssumption
<1>8. /\ c.imported \in Nat /\ c.failed \in Nat /\ c.duplicates \in Nat
      /\ c.unsupported \in Nat /\ c.invalid \in Nat
  BY <1>1, <1>6, <1>7
<1>9. c.duplicates + c.unsupported + c.invalid + Cardinality(new) = Len(Export)
  <2>1. Cardinality(Items \ (importable \cup blank)) + Cardinality(importable) + Cardinality(blank) = Len(Export)
    BY <1>4, <1>5, <1>7
  <2> QED
    BY <1>1, <1>7, <2>1
<1>10. c \in [imported : Nat, duplicates : Nat, failed : Nat, unsupported : Nat, invalid : Nat]
  BY <1>1, <1>8 DEF NoCounts
<1> QED
  BY <1>1, <1>9, <1>10 DEF new

LEMMA ProcessStep ==
  ASSUME IInv, NEW seen, Process(seen), stage \in {"wipe", "list"}, doomed = {},
         \A x \in Known : Key(x) \in seen
  PROVE  IInv'
<1> DEFINE new == NewItems(seen)
<1>1. /\ counts' = Classified(seen) /\ queue' = new
      /\ pool' = IF Workers < Cardinality(new) THEN Workers ELSE Cardinality(new)
      /\ stage' = IF new = {} THEN "complete" ELSE "work"
      /\ UNCHANGED <<vaultVars, run, force, cancelled, wipeVars, adding>>
  BY DEF Process, GoTo
<1>2. /\ new \subseteq Items /\ Cardinality(new) \in Nat
      /\ \A i \in new : KeyOf(i) \notin seen
      /\ \A i, j \in new : KeyOf(i) = KeyOf(j) => i = j
  BY NewKeys, ItemSets
<1>3. /\ counts' \in [imported : Nat, duplicates : Nat, failed : Nat, unsupported : Nat, invalid : Nat]
      /\ counts'.imported = 0 /\ counts'.failed = 0
      /\ counts'.duplicates + counts'.unsupported + counts'.invalid + Cardinality(new) = Len(Export)
  BY <1>1, ClassifiedAll
<1>4. adding = {} /\ Cardinality(adding) = 0 /\ run > 0 /\ run \in Nat
  <2>1. adding = {} /\ run # 0
    BY DEF IInv, RunOK
  <2>2. run \in 0..MaxRuns /\ MaxRuns \in Nat
    BY ExportAssumption DEF IInv, Typed
  <2> QED
    BY <2>1, <2>2, NoItem
<1>5. \A id \in stored \cup late : id[1] # run /\ id[1] <= run
  BY DEF IInv, RunOK
<1>6. new = {} <=> Cardinality(new) = 0
  BY <1>2, ItemSets, FS_EmptySet
<1>7. pool' \in 0..Workers /\ (pool' = 0 <=> new = {})
  BY <1>1, <1>2, <1>6, WorkersAssumption
<1> HIDE DEF new
<1>8. Typed'
  <2>1. stage' \in Stages
    BY <1>1 DEF Stages, Ended
  <2>2. queue' \subseteq Items /\ adding' = {} /\ Cardinality(adding') <= pool'
    BY <1>1, <1>2, <1>4, <1>7, WorkersAssumption
  <2>3. UNCHANGED <<vault, stored, late, run, force, cancelled, doomed, listed>>
    BY <1>1, Zenon DEF vaultVars, wipeVars
  <2> QED
    BY <1>3, <1>7, <2>1, <2>2, <2>3, Zenon DEF IInv, Typed
<1>9. RunOK'
  BY <1>1, <1>4, <1>5 DEF IInv, RunOK, vaultVars
<1>10. WipeOK'
  BY <1>1 DEF IInv, WipeOK, vaultVars, wipeVars
<1>11. KeysOK'
  <2>1. Todo' = new /\ Known' = Known
    BY <1>1, <1>4 DEF Todo, Known, vaultVars
  <2> QED
    BY <1>1, <1>2, <2>1 DEF IInv, KeysOK, Key, EnvelopeOf
<1>12. CountsOK'
  <2>1. Mine(stored)' = {} /\ Mine(stored \cup late)' = {}
    BY <1>1, <1>5 DEF Mine, vaultVars
  <2>2. Cardinality(Sent') = 0 /\ Cardinality(Possible') = 0
    BY <2>1, NoItem DEF Sent, Possible
  <2>3. Counted' + Cardinality(queue') + Cardinality(adding') = Len(Export)
    BY <1>1, <1>2, <1>3, <1>4 DEF Counted
  <2> QED
    BY <1>1, <1>3, <1>7, <2>1, <2>2, <2>3 DEF CountsOK
<1> QED
  BY <1>8, <1>9, <1>10, <1>11, <1>12 DEF IInv

LEMMA ProcessSteps ==
  ASSUME IInv, ProcessAfterWipe \/ ListExisting
  PROVE  IInv'
<1>1. CASE ProcessAfterWipe
  <2>1. stage = "wipe" /\ doomed = {} /\ Process({})
    BY <1>1 DEF ProcessAfterWipe
  <2>2. Known = {}
    BY <2>1 DEF IInv, WipeOK, KeysOK, Known
  <2> QED
    BY <2>1, <2>2, ProcessStep
<1>2. CASE ListExisting
  <2> DEFINE seen == {deduplicationKey(EnvelopeOf(id)) : id \in vault}
  <2>1. stage = "list" /\ Process(seen)
    BY <1>2 DEF ListExisting
  <2>2. doomed = {}
    BY <2>1 DEF IInv, WipeOK
  <2>3. \A x \in Known : Key(x) \in seen
    BY DEF Known, Key
  <2> HIDE DEF seen
  <2> QED
    BY <2>1, <2>2, <2>3, ProcessStep
<1> QED
  BY <1>1, <1>2

LEMMA CompleteStep ==
  ASSUME IInv, Complete
  PROVE  IInv'
<1>1. /\ stage = "work" /\ pool = 0 /\ stage' = "complete"
      /\ UNCHANGED <<vaultVars, run, force, cancelled, wipeVars, counts, workVars>>
  BY DEF Complete, GoTo
<1>2. Typed'
  BY <1>1 DEF IInv, Typed, vaultVars, wipeVars, workVars, Stages, Ended
<1>3. RunOK' /\ WipeOK'
  BY <1>1 DEF IInv, RunOK, WipeOK, vaultVars, wipeVars, workVars
<1>4. KeysOK'
  BY <1>1 DEF IInv, KeysOK, Todo, Known, Mine, vaultVars, wipeVars, workVars
<1>5. CountsOK'
  BY <1>1 DEF IInv, CountsOK, Counted, Sent, Possible, Mine, vaultVars, workVars
<1> QED
  BY <1>2, <1>3, <1>4, <1>5 DEF IInv

LEMMA InterruptStep ==
  ASSUME IInv, Interrupt
  PROVE  IInv'
<1>1. cancelled' = TRUE /\ UNCHANGED <<vaultVars, stage, run, force, wipeVars, counts, workVars>>
  BY DEF Interrupt
<1>2. Typed'
  BY <1>1 DEF IInv, Typed, vaultVars, wipeVars, workVars
<1>3. RunOK' /\ WipeOK'
  BY <1>1 DEF IInv, RunOK, WipeOK, vaultVars, wipeVars, workVars
<1>4. KeysOK'
  BY <1>1 DEF IInv, KeysOK, Todo, Known, Mine, vaultVars, wipeVars, workVars
<1>5. CountsOK'
  BY <1>1 DEF IInv, CountsOK, Counted, Sent, Possible, Mine, vaultVars, workVars
<1> QED
  BY <1>2, <1>3, <1>4, <1>5 DEF IInv

\* A run that begins, or is gone, has nothing in hand and nothing listed.
LEMMA Forgotten ==
  ASSUME IInv, ForgetRun, stage' \in {"export", "dead"}, vault' = vault, stored' = stored,
         late \subseteq late', late' \subseteq Ids, \A id \in late' : id[1] <= run',
         run <= run', run' \in 1..MaxRuns, force' \in BOOLEAN,
         stage' = "export" => \A id \in stored' \cup late' : id[1] # run'
  PROVE  IInv'
<1>1. /\ cancelled' = FALSE /\ doomed' = {} /\ listed' = {} /\ counts' = NoCounts
      /\ queue' = {} /\ pool' = 0 /\ adding' = {} /\ Cardinality(adding') = 0
  BY NoItem DEF ForgetRun
<1>2. run \in Nat /\ run' \in Nat /\ run' # 0
  BY ExportAssumption DEF IInv, Typed
<1>3. Typed'
  <2>1. counts' \in [imported : Nat, duplicates : Nat, failed : Nat, unsupported : Nat, invalid : Nat]
    BY <1>1 DEF NoCounts
  <2>2. pool' \in 0..Workers /\ Cardinality(adding') <= pool'
    BY <1>1, WorkersAssumption
  <2>3. run' \in 0..MaxRuns /\ stage' \in Stages
    BY DEF Stages, Ended
  <2> QED
    BY <1>1, <2>1, <2>2, <2>3 DEF IInv, Typed
<1>4. RunOK'
  <2>1. \A id \in stored \cup late' : id[1] <= run'
    <3>1. \A id \in stored : id[1] \in Nat /\ id[1] <= run
      BY IdParts DEF IInv, Typed, RunOK
    <3> QED
      BY <1>2, <3>1
  <2> QED
    BY <1>1, <1>2, <2>1 DEF RunOK
<1>5. WipeOK'
  BY <1>1 DEF WipeOK
<1>6. KeysOK'
  <2>1. Todo' = {} /\ Known' \subseteq Known
    BY <1>1 DEF Todo, Known
  <2> QED
    BY <2>1 DEF IInv, KeysOK, Key, EnvelopeOf
<1>7. CountsOK'
  BY DEF CountsOK
<1> QED
  BY <1>3, <1>4, <1>5, <1>6, <1>7 DEF IInv

LEMMA StartStep ==
  ASSUME IInv, Start
  PROVE  IInv'
<1>1. /\ run < MaxRuns /\ run' = run + 1 /\ force' \in BOOLEAN /\ stage' = "export"
      /\ ForgetRun /\ UNCHANGED vaultVars
  BY DEF Start, GoTo
<1>2. run \in Nat /\ run' \in 1..MaxRuns /\ run <= run'
  BY <1>1, ExportAssumption DEF IInv, Typed
<1>3. \A id \in stored \cup late : id[1] \in Nat /\ id[1] <= run /\ id[1] # run + 1 /\ id[1] <= run + 1
  BY <1>2, IdParts DEF IInv, Typed, RunOK
<1>4. late \subseteq Ids
  BY DEF IInv, Typed
<1> QED
  BY <1>1, <1>2, <1>3, <1>4, Forgotten DEF vaultVars

LEMMA DieStep ==
  ASSUME IInv, Die
  PROVE  IInv'
<1>1. /\ stage' = "dead" /\ stage # "start" /\ ForgetRun
      /\ late' = late \cup (({run} \X adding) \ stored)
      /\ UNCHANGED <<vault, stored, run, force>>
  BY DEF Die, GoTo, Running
<1>2. run \in 1..MaxRuns /\ run <= run
  BY <1>1, ExportAssumption DEF IInv, Typed, RunOK
<1>3. late' \subseteq Ids
  BY <1>1, <1>2 DEF IInv, Typed, Ids
<1>4. \A id \in late' : id[1] <= run
  BY <1>1, <1>2 DEF IInv, RunOK
<1>5. force' \in BOOLEAN
  BY <1>1 DEF IInv, Typed
<1> QED
  BY <1>1, <1>2, <1>3, <1>4, <1>5, Forgotten

-----------------------------------------------------------------------------
\* The workers.

LEMMA TakeStep ==
  ASSUME IInv, Take \/ TakeCancelled
  PROVE  IInv'
<1>1. /\ stage = "work" /\ Cardinality(adding) < pool /\ pool # 0
      /\ UNCHANGED <<vaultVars, stage, run, force, cancelled, wipeVars, pool>>
  BY ItemSets DEF Take, TakeCancelled, SomeoneIdle, IInv, Typed
<1>2. PICK i \in queue :
        /\ queue' = queue \ {i}
        /\ \/ adding' = adding \cup {i} /\ counts' = counts
           \/ counts' = [counts EXCEPT !.failed = @ + 1] /\ adding' = adding
  BY DEF Take, TakeCancelled, IsNext
<1>3. i \in Items \ adding /\ i \notin Mine(stored \cup late) /\ i \notin Mine(stored)
  BY <1>1 DEF IInv, Typed, CountsOK, Mine
<1>4. Todo' \subseteq Todo /\ i \in Todo
  BY <1>2 DEF Todo
<1>5. /\ Cardinality(queue') = Cardinality(queue) - 1 /\ Cardinality(queue) \in Nat
      /\ Cardinality(adding \cup {i}) = Cardinality(adding) + 1 /\ Cardinality(adding) \in Nat
  BY <1>2, <1>3, OneLess, OneMore, ItemSets DEF IInv, Typed
<1>6. Typed'
  <2>1. counts' \in [imported : Nat, duplicates : Nat, failed : Nat, unsupported : Nat, invalid : Nat]
    BY <1>2 DEF IInv, Typed
  <2>2. adding' \subseteq Items \ queue' /\ queue' \subseteq Items
    BY <1>2, <1>3 DEF IInv, Typed
  <2>3. Cardinality(adding') <= pool
    <3>1. pool \in Nat
      BY WorkersAssumption DEF IInv, Typed
    <3>2. CASE adding' = adding
      BY <1>1, <1>5, <3>1, <3>2
    <3>3. CASE adding' = adding \cup {i}
      BY <1>1, <1>5, <3>1, <3>3
    <3> QED
      BY <1>2, <3>2, <3>3
  <2> QED
    BY <1>1, <2>1, <2>2, <2>3 DEF IInv, Typed, vaultVars, wipeVars
<1>7. RunOK' /\ WipeOK'
  BY <1>1 DEF IInv, RunOK, WipeOK, vaultVars, wipeVars
<1>8. UNCHANGED <<Known, Mine(stored), Mine(stored \cup late)>>
  BY <1>1 DEF Known, Mine, vaultVars
<1>9. KeysOK'
  BY <1>1, <1>4, <1>8 DEF IInv, KeysOK, wipeVars
<1>10. Sent' = Sent /\ Possible' = Possible
  BY <1>2, <1>3, <1>8 DEF Sent, Possible
<1>11. \/ adding' = adding \cup {i} /\ UNCHANGED <<counts, Counted>>
       \/ /\ adding' = adding /\ counts'.imported = counts.imported
          /\ counts'.failed = counts.failed + 1 /\ Counted' = Counted + 1
  BY <1>2 DEF Counted, IInv, Typed
<1>12. CountsOK'
  <2>1. Counted \in Nat /\ Counted' + Cardinality(queue') + Cardinality(adding') = Len(Export)
    <3>1. Counted + Cardinality(queue) + Cardinality(adding) = Len(Export) /\ Counted \in Nat
      BY <1>1, InHand DEF IInv, CountsOK
    <3>2. \/ Cardinality(adding') = Cardinality(adding) + 1 /\ Counted' = Counted
          \/ Cardinality(adding') = Cardinality(adding) /\ Counted' = Counted + 1
      BY <1>5, <1>11
    <3> QED
      BY <1>5, <3>1, <3>2
  <2>2. Cardinality(Possible) <= counts'.imported + counts'.failed /\ counts'.imported = counts.imported
    <3>1. /\ counts.imported \in Nat /\ counts.failed \in Nat
          /\ Cardinality(Possible) <= counts.imported + counts.failed
      BY <1>1 DEF IInv, Typed, CountsOK
    <3>2. counts'.imported = counts.imported /\ counts'.failed \in {counts.failed, counts.failed + 1}
      BY <1>11
    <3> QED
      BY <3>1, <3>2, Answered
  <2> QED
    BY <1>1, <1>2, <1>8, <1>10, <2>1, <2>2 DEF IInv, CountsOK
<1> QED
  BY <1>6, <1>7, <1>9, <1>12 DEF IInv

LEMMA LeaveStep ==
  ASSUME IInv, Leave
  PROVE  IInv'
<1>1. /\ stage = "work" /\ Cardinality(adding) < pool /\ pool' = pool - 1
      /\ queue = {} \/ cancelled
      /\ UNCHANGED <<vaultVars, stage, run, force, cancelled, wipeVars, counts, queue, adding>>
  BY DEF Leave, SomeoneIdle
<1>2. pool' \in 0..Workers /\ Cardinality(adding) <= pool'
  BY <1>1, ItemSets, WorkersAssumption DEF IInv, Typed
<1>3. Typed'
  BY <1>1, <1>2 DEF IInv, Typed, vaultVars, wipeVars
<1>4. RunOK' /\ WipeOK'
  BY <1>1 DEF IInv, RunOK, WipeOK, vaultVars, wipeVars
<1>5. KeysOK'
  BY <1>1 DEF IInv, KeysOK, Todo, Known, Mine, vaultVars, wipeVars
<1>6. CountsOK'
  BY <1>1 DEF IInv, CountsOK, Counted, Sent, Possible, Mine, vaultVars
<1> QED
  BY <1>3, <1>4, <1>5, <1>6 DEF IInv

LEMMA CreateStep ==
  ASSUME IInv, NEW i \in Items, Create(i)
  PROVE  IInv'
<1> DEFINE id == <<run, i>>
<1>1. /\ i \in adding /\ id \notin stored /\ Store(id)
      /\ UNCHANGED <<late, stage, run, force, cancelled, wipeVars, counts, workVars>>
  BY DEF Create
<1>2. stage \in {"work", "complete"} /\ run \in 1..MaxRuns
  BY <1>1, ExportAssumption DEF IInv, Typed, RunOK
<1>3. id \in Ids /\ id[1] = run /\ id[2] = i /\ run > 0 /\ run <= run
  BY <1>2, ExportAssumption DEF Ids
<1>4. Typed' /\ RunOK' /\ WipeOK'
  BY <1>1, <1>2, <1>3, Stores
<1>5. Key(id) = KeyOf(i)
  BY <1>3 DEF Key, KeyOf, EnvelopeOf
<1>6. Known' \subseteq Known \cup {id}
  BY <1>1 DEF Known, Store
<1>7. Mine(stored)' = Mine(stored) \cup {i}
  BY <1>1 DEF Mine, Store
<1>8. Todo' = Todo /\ i \in Todo \ Mine(stored) /\ UNCHANGED <<stage, listed>>
  BY <1>1 DEF Todo, Mine, workVars, wipeVars
<1> HIDE DEF id
<1>9. KeysOK'
  <2>1. \A x \in Known : Key(x) # KeyOf(i)
    BY <1>8 DEF IInv, KeysOK
  <2>2. \A j \in Todo : KeyOf(j) = KeyOf(i) => j = i
    BY <1>8 DEF IInv, KeysOK
  <2>3. \A x, y \in Known' : Key(x) = Key(y) => x = y
    BY <1>5, <1>6, <2>1 DEF IInv, KeysOK
  <2>4. \A j \in Todo \ Mine(stored)', x \in Known' : Key(x) # KeyOf(j)
    BY <1>5, <1>6, <1>7, <2>2 DEF IInv, KeysOK
  <2> QED
    BY <1>2, <1>8, <2>3, <2>4 DEF IInv, KeysOK, Key, EnvelopeOf
<1>10. Sent' = Sent
  BY <1>1, <1>7 DEF Sent, workVars
<1>11. Mine(stored \cup late)' = Mine(stored \cup late) \cup {i}
  BY <1>1 DEF Mine, Store, id
<1>12. Possible' = Possible /\ queue' \cap Mine(stored \cup late)' = {}
  <2>1. i \notin queue /\ queue \cap Mine(stored \cup late) = {}
    BY <1>1, <1>2 DEF IInv, Typed, CountsOK
  <2> QED
    BY <1>1, <1>11, <2>1 DEF Possible, workVars
<1>13. CountsOK'
  BY <1>1, <1>10, <1>12 DEF IInv, CountsOK, Counted, workVars
<1> QED
  BY <1>4, <1>9, <1>13 DEF IInv

LEMMA AnswerStep ==
  ASSUME IInv, NEW i \in Items, AddSucceeds(i) \/ AddFails(i)
  PROVE  IInv'
<1>1. /\ i \in adding /\ adding' = adding \ {i}
      /\ late \subseteq late' /\ late' \subseteq late \cup {<<run, i>>}
      /\ UNCHANGED <<vault, stored, stage, run, force, cancelled, wipeVars, queue, pool>>
  BY DEF AddSucceeds, AddFails, vaultVars
<1>2. \/ /\ i \in Mine(stored) /\ late' = late
         /\ counts' = [counts EXCEPT !.imported = @ + 1]
      \/ counts' = [counts EXCEPT !.failed = @ + 1]
  BY DEF AddSucceeds, AddFails, vaultVars, Mine
<1>3. stage \in {"work", "complete"} /\ run \in 1..MaxRuns
  BY <1>1, ExportAssumption DEF IInv, Typed, RunOK
<1>4. Cardinality(adding') = Cardinality(adding) - 1 /\ Cardinality(adding) \in Nat
  BY <1>1, OneLess, ItemSets DEF IInv, Typed
<1>5. Typed'
  <2>1. counts' \in [imported : Nat, duplicates : Nat, failed : Nat, unsupported : Nat, invalid : Nat]
    BY <1>2 DEF IInv, Typed
  <2>2. Cardinality(adding') <= pool /\ adding' \subseteq Items \ queue
    BY <1>1, <1>4 DEF IInv, Typed
  <2>3. late' \subseteq Ids
    BY <1>1, <1>3 DEF IInv, Typed, Ids
  <2> QED
    BY <1>1, <2>1, <2>2, <2>3 DEF IInv, Typed, wipeVars
<1>6. RunOK'
  BY <1>1, <1>3 DEF IInv, RunOK
<1>7. WipeOK'
  BY <1>1 DEF IInv, WipeOK, wipeVars
<1>8. KeysOK'
  <2>1. Todo' \subseteq Todo /\ Known' \subseteq Known /\ Mine(stored)' = Mine(stored)
    BY <1>1 DEF Todo, Known, Mine
  <2> QED
    BY <1>1, <1>3, <2>1 DEF IInv, KeysOK, Key, EnvelopeOf
<1>9. Mine(stored) \subseteq Mine(stored \cup late)
  BY DEF Mine
<1>10. /\ Mine(stored)' = Mine(stored)
       /\ Mine(stored \cup late) \subseteq Mine(stored \cup late)'
       /\ Mine(stored \cup late)' \subseteq Mine(stored \cup late) \cup {i}
       /\ i \in Mine(stored) => Mine(stored \cup late)' = Mine(stored \cup late)
  BY <1>1, <1>3 DEF Mine
<1>11. /\ Sent' = IF i \in Mine(stored) THEN Sent \cup {i} ELSE Sent
       /\ Possible' \subseteq Possible \cup {i}
       /\ i \notin Sent /\ i \notin Possible
  BY <1>1, <1>9, <1>10 DEF Sent, Possible
<1>12. /\ Cardinality(Sent) <= Cardinality(Sent')
       /\ i \in Mine(stored) => Cardinality(Sent') = Cardinality(Sent) + 1
  BY <1>11, OneMore, Answered
<1>13. Cardinality(Possible') <= Cardinality(Possible) + 1
  <2>1. Cardinality(Possible \cup {i}) = Cardinality(Possible) + 1 /\ Possible \cup {i} \subseteq Items
    BY <1>11, OneMore, Answered
  <2> QED
    BY <1>11, <2>1, Smaller
<1>14. queue' \cap Mine(stored \cup late)' = {}
  <2>1. i \notin queue /\ queue \cap Mine(stored \cup late) = {}
    BY <1>1, <1>3 DEF IInv, Typed, CountsOK
  <2> QED
    BY <1>1, <1>10, <2>1
<1>15. CountsOK'
  <2>1. Counted' = Counted + 1 /\ Counted \in Nat /\ Cardinality(queue) \in Nat
    BY <1>2, InHand DEF Counted, IInv, Typed
  <2>2. Counted' + Cardinality(queue') + Cardinality(adding') = Len(Export)
    <3>1. Counted + Cardinality(queue) + Cardinality(adding) = Len(Export)
      BY <1>3 DEF IInv, CountsOK
    <3>2. Cardinality(queue') = Cardinality(queue)
      BY <1>1
    <3> QED
      BY <1>4, <2>1, <3>1, <3>2
  <2>3. counts'.imported <= Cardinality(Sent')
    <3>1. counts.imported \in Nat /\ counts.imported <= Cardinality(Sent)
      BY <1>3 DEF IInv, Typed, CountsOK
    <3>2. \/ i \in Mine(stored) /\ counts'.imported = counts.imported + 1
          \/ counts'.imported = counts.imported
      BY <1>2 DEF IInv, Typed
    <3> QED
      BY <1>12, <3>1, <3>2, Answered
  <2>4. Cardinality(Possible') <= counts'.imported + counts'.failed
    <3>1. /\ counts'.imported + counts'.failed = counts.imported + counts.failed + 1
          /\ counts.imported + counts.failed \in Nat
      BY <1>2 DEF IInv, Typed
    <3> QED
      BY <1>3, <1>13, <3>1, Answered DEF IInv, CountsOK
  <2> QED
    BY <1>1, <1>14, <2>2, <2>3, <2>4 DEF IInv, CountsOK
<1> QED
  BY <1>5, <1>6, <1>7, <1>8, <1>15 DEF IInv

-----------------------------------------------------------------------------
\* The invariant, and what it says.

LEMMA InitOK == Init => IInv
<1> SUFFICES ASSUME Init PROVE IInv
  OBVIOUS
<1>1. Typed
  <2>1. stored \subseteq Ids
    BY ExportAssumption DEF Init, Ids
  <2>2. counts \in [imported : Nat, duplicates : Nat, failed : Nat, unsupported : Nat, invalid : Nat]
    BY DEF Init, NoCounts
  <2>3. pool \in 0..Workers /\ Cardinality(adding) <= pool
    BY NoItem, WorkersAssumption DEF Init
  <2>4. run \in 0..MaxRuns
    BY ExportAssumption DEF Init
  <2> QED
    BY <2>1, <2>2, <2>3, <2>4 DEF Init, Typed, Stages
<1>2. \A id \in stored \cup late : id[1] = 0
  BY DEF Init
<1>3. RunOK
  BY <1>2 DEF Init, RunOK
<1>4. WipeOK
  BY DEF Init, WipeOK
<1>5. KeysOK
  BY <1>2 DEF Init, KeysOK, Known, Todo
<1>6. CountsOK
  BY DEF Init, CountsOK
<1> QED
  BY <1>1, <1>3, <1>4, <1>5, <1>6 DEF IInv

LEMMA NextOK == IInv /\ [Next]_vars => IInv'
<1> SUFFICES ASSUME IInv, [Next]_vars PROVE IInv'
  OBVIOUS
<1>1. CASE UNCHANGED vars
  <2>1. UNCHANGED <<vault, stored, late, stage, run, force, cancelled, doomed, listed, counts,
                    queue, pool, adding>>
    BY <1>1 DEF vars, vaultVars, wipeVars, workVars
  <2> QED
    <3>1. Typed' /\ RunOK' /\ WipeOK'
      BY <2>1, Zenon DEF IInv, Typed, RunOK, WipeOK
    <3>2. Known' = Known /\ Todo' = Todo /\ Mine(stored)' = Mine(stored)
          /\ Mine(stored \cup late)' = Mine(stored \cup late)
      BY <2>1 DEF Known, Todo, Mine
    <3>3. KeysOK'
      BY <2>1, <3>2, Zenon DEF IInv, KeysOK, Key, EnvelopeOf
    <3>4. UNCHANGED <<Sent, Possible, Counted>>
      BY <2>1, <3>2, Zenon DEF Sent, Possible, Counted
    <3>5. CountsOK'
      BY <2>1, <3>2, <3>4, Zenon DEF IInv, CountsOK
    <3> QED
      BY <3>1, <3>3, <3>5 DEF IInv
<1>2. CASE Main
  BY <1>2, BeforeSteps, WipeEntryStep, ProcessSteps, CompleteStep, Zenon DEF Main
<1>3. CASE Loop
  BY <1>3, TakeStep, LeaveStep, Zenon DEF Loop
<1>4. ASSUME NEW i \in Items, Add(i) PROVE IInv'
  BY <1>4, CreateStep, AnswerStep, Zenon DEF Add
<1>5. CASE Start \/ Interrupt \/ Die
  BY <1>5, StartStep, InterruptStep, DieStep, Zenon
<1>6. CASE OtherAdds \/ OtherDeletes \/ LateAdd
  BY <1>6, OtherAddsStep, OtherDeletesStep, LateAddStep, Zenon
<1> QED
  BY <1>1, <1>2, <1>3, <1>4, <1>5, <1>6, Zenon DEF Next

LEMMA Inductive == Spec => []IInv
BY InitOK, NextOK, PTL DEF Spec

\* The numbers of the summary stay within the export, no item is in two hands, and no
\* more items are being added than goroutines are left.
THEOREM ImportTypeCorrect == Spec => []TypeOK
<1>1. IInv => TypeOK
  <2> SUFFICES ASSUME IInv PROVE TypeOK
    OBVIOUS
  <2>1. \A c \in DOMAIN counts : counts[c] \in 0..Len(Export)
    <3>1. CASE stage \in {"work", "complete"}
      <4>1. Counted <= Len(Export)
        BY <3>1, InHand, ExportAssumption DEF IInv, CountsOK
      <4> QED
        BY <4>1, ExportAssumption DEF IInv, Typed, Counted
    <3>2. CASE stage \notin {"work", "complete"}
      BY <3>2, ExportAssumption DEF IInv, RunOK, NoCounts
    <3> QED
      BY <3>1, <3>2
  <2> QED
    BY <2>1 DEF IInv, Typed, TypeOK
<1> QED
  BY <1>1, Inductive, PTL

\* A forced run stores nothing while anything its wipe has listed is left, for any
\* failure of any delete (import.go:141-146, 198-216).
THEOREM ImportWipesFirst == Spec => []WipeFirst
<1>1. IInv => WipeFirst
  <2> SUFFICES ASSUME IInv, force, NEW i \in Items, <<run, i>> \in stored
               PROVE  listed \cap vault = {}
    BY DEF WipeFirst
  <2>1. stage \in {"work", "complete", "dead"}
    BY DEF IInv, RunOK
  <2> QED
    BY <2>1 DEF IInv, WipeOK
<1> QED
  BY <1>1, Inductive, PTL

\* However often the import is run, and whatever fails, is killed or is interrupted, it
\* stores no two entries with one key, but for requests given up and applied later.
THEOREM ImportNoTwins == Spec => []NoTwins
<1>1. IInv => NoTwins
  BY DEF IInv, KeysOK, Known, Key, NoTwins
<1> QED
  BY <1>1, Inductive, PTL

\* The summary agrees with the store, and without an interrupt it accounts for every
\* item of the export (import.go:369-374, 381-393).
THEOREM ImportCountsFaithful == Spec => []CountsFaithful
<1>1. IInv => CountsFaithful
  <2> SUFFICES ASSUME IInv, stage = "complete" PROVE CountsFaithful
    BY DEF CountsFaithful
  <2>1. adding = {} /\ Cardinality(adding) = 0 /\ run > 0 /\ run \in Nat
    <3>1. Cardinality(adding) = 0 /\ run \in 0..MaxRuns /\ run # 0
      BY ItemSets DEF IInv, Typed, RunOK, CountsOK
    <3> QED
      BY <3>1, ItemSets, FS_EmptySet, ExportAssumption DEF IInv, Typed
  <2> DEFINE mine == {id \in stored : id[1] = run}
  <2>2. Cardinality(mine) = Cardinality(Mine(stored))
    <3>1. mine = {<<run, i>> : i \in Mine(stored)}
      <4>1. ASSUME NEW id \in mine PROVE id[2] \in Mine(stored) /\ id = <<run, id[2]>>
        <5>1. id[2] \in Items /\ id = <<run, id[2]>>
          BY <2>1, <4>1, IdParts DEF IInv, Typed
        <5>2. <<run, id[2]>> \in stored
          BY <4>1, <5>1
        <5> QED
          BY <5>1, <5>2 DEF Mine
      <4>2. ASSUME NEW i \in Mine(stored) PROVE <<run, i>> \in mine
        BY DEF Mine
      <4> QED
        BY <4>1, <4>2
    <3>2. \A i, j \in Mine(stored) : <<run, i>> = <<run, j>> => i = j
      OBVIOUS
    <3> DEFINE f == [i \in Mine(stored) |-> <<run, i>>]
    <3>3. f \in Bijection(Mine(stored), mine)
      BY <3>1, <3>2 DEF Bijection, Injection, Surjection, IsInjective
    <3>4. IsFiniteSet(Mine(stored))
      BY ItemSets DEF Mine
    <3> QED
      BY <3>3, <3>4, FS_Bijection DEF ExistsBijection
  <2>3. Sent = Mine(stored) /\ Sent \subseteq Possible
    BY <2>1 DEF Sent, Possible, Mine
  <2>4. Cardinality(Sent) <= Cardinality(Possible)
    BY <2>3, Smaller, Answered
  <2>5. /\ counts.imported <= Cardinality(mine)
        /\ Cardinality(mine) <= counts.imported + counts.failed
    BY <2>2, <2>3, <2>4, Answered DEF IInv, Typed, CountsOK
  <2>6. ~cancelled => Counted = Len(Export)
    <3> SUFFICES ASSUME ~cancelled PROVE Counted = Len(Export)
      OBVIOUS
    <3>1. queue = {} /\ Cardinality(queue) = 0
      BY NoItem DEF IInv, CountsOK
    <3>2. Counted + Cardinality(queue) + Cardinality(adding) = Len(Export)
      BY DEF IInv, CountsOK
    <3> QED
      BY <2>1, <3>1, <3>2, InHand DEF IInv
  <2> QED
    BY <2>5, <2>6 DEF CountsFaithful
<1> QED
  BY <1>1, Inductive, PTL
=============================================================================
