--------------------------- MODULE PackStore_proofs ---------------------------
(* Theorems about the pack store, for any processes, tasks and objects.      *)
EXTENDS PackStore, TLAPS

(* The variables keep their types (objectstore.Store and its index).         *)
THEOREM Typing == Spec => []TypeOK
<1>1. Init => TypeOK
  BY DEF Init, TypeOK, Phases
<1>2. TypeOK /\ [Next]_vars => TypeOK'
  <2> SUFFICES ASSUME TypeOK, [Next]_vars
               PROVE  TypeOK'
    OBVIOUS
  <2> USE OwnerAssumption DEF TypeOK, Phases, InMutex, InTx, Step
  <2>1. ASSUME NEW t \in Tasks, NEW k \in Keys, PutReused(t, k)
        PROVE  TypeOK'
    BY <2>1 DEF PutReused, CanPut, LoadCache, Known
  <2>2. ASSUME NEW t \in Tasks, NEW k \in Keys, PutNew(t, k)
        PROVE  TypeOK'
    BY <2>2 DEF PutNew, CanPut, LoadCache, Known, OpenStaging
  <2>3. ASSUME NEW t \in Tasks, NEW k \in Keys, PutFails(t, k)
        PROVE  TypeOK'
    BY <2>3 DEF PutFails, CanPut, LoadCache, Known, OpenStaging
  <2>4. ASSUME NEW t \in Tasks, PublishNothing(t) \/ CloseStaging(t)
        PROVE  TypeOK'
    BY <2>4 DEF PublishNothing, CloseStaging
  <2>5. ASSUME NEW t \in Tasks, EnterPublishIndex(t) \/ RenameMissing(t)
        PROVE  TypeOK'
    BY <2>5 DEF EnterPublishIndex, RenameMissing
  <2>6. ASSUME NEW t \in Tasks, BeginTx(t)
        PROVE  TypeOK'
    BY <2>6 DEF BeginTx
  <2>7. ASSUME NEW t \in Tasks, PublishDuplicates(t)
        PROVE  TypeOK'
    BY <2>7 DEF PublishDuplicates
  <2>8. ASSUME NEW t \in Tasks, RenamePack(t)
        PROVE  TypeOK'
    BY <2>8 DEF RenamePack, CompactedPack
  <2>9. ASSUME NEW t \in Tasks, CommitIndex(t)
        PROVE  TypeOK'
    BY <2>9 DEF CommitIndex
  <2>10. ASSUME NEW t \in Tasks, PublishFails(t) \/ Abort(t)
         PROVE  TypeOK'
    BY <2>10 DEF PublishFails, Abort
  <2>11. ASSUME NEW p \in Procs, Lookup(p) \/ Crash(p)
         PROVE  TypeOK'
    BY <2>11 DEF Lookup, Crash, LoadCache, Known
  <2>12. CASE Clean
    BY <2>12 DEF Clean
  <2>13. CASE UNCHANGED vars
    BY <2>13 DEF vars
  <2>14. QED
    BY <2>1, <2>2, <2>3, <2>4, <2>5, <2>6, <2>7, <2>8, <2>9, <2>10, <2>11,
       <2>12, <2>13 DEF Next, TaskNext, Publishing
<1>3. QED
  BY <1>1, <1>2, PTL DEF Spec

(* Two entries of a catalogue have their keys in its set of keys; a batch    *)
(* that enters one pack adds exactly its keys.                               *)
LEMMA KeysOfBatch ==
  ASSUME NEW old, NEW batch, NEW pack
  PROVE  KeysOf(old \cup (batch \X {pack})) = KeysOf(old) \cup batch
<1>1. ASSUME NEW k \in batch
      PROVE  k \in KeysOf(batch \X {pack})
  <2>1. <<k, pack>> \in batch \X {pack} /\ <<k, pack>>[1] = k
    OBVIOUS
  <2>2. QED
    BY <2>1 DEF KeysOf
<1>2. ASSUME NEW k \in KeysOf(batch \X {pack})
      PROVE  k \in batch
  BY <1>2 DEF KeysOf
<1>3. ASSUME NEW k
      PROVE  k \in KeysOf(old \cup (batch \X {pack}))
               <=> k \in KeysOf(old) \/ k \in KeysOf(batch \X {pack})
  BY DEF KeysOf
<1>4. QED
  BY <1>1, <1>2, <1>3

(* A larger catalogue locates more keys.                                     *)
LEMMA KeysOfMonotone ==
  ASSUME NEW old, NEW new, old \subseteq new
  PROVE  KeysOf(old) \subseteq KeysOf(new)
  BY DEF KeysOf

(* The inductive invariant holds initially.                                  *)
LEMMA PackInit == Init => PackInductive
  BY OwnerAssumption
     DEF Init, PackInductive, TypeOK, Phases, OneTx, SegmentFollowsPhase,
         LocalAccounted, IndexedInPack, OneLocation, InsertsCannotConflict,
         CacheSound, PublishedIndexed, InTx, KeysOf

(* Every step keeps the invariant: one case per action, and under it a step  *)
(* per conjunct the action can disturb.                                      *)
LEMMA PackStep ==
  ASSUME PackInductive, TypeOK', [Next]_vars
  PROVE  PackInductive'
<1> USE OwnerAssumption
        DEF PackInductive, TypeOK, OneTx, SegmentFollowsPhase, LocalAccounted,
            IndexedInPack, OneLocation, InsertsCannotConflict, CacheSound,
            PublishedIndexed, InTx, InMutex, Step
<1>1. ASSUME NEW t \in Tasks, NEW k \in Keys, PutReused(t, k)
      PROVE  PackInductive'
  <2>1. k \in KeysOf(rows)
    BY <1>1, KeysOfMonotone DEF PutReused, Known
  <2>2. CacheSound'
    BY <1>1 DEF PutReused, LoadCache, Known
  <2>3. QED
    BY <1>1, <2>1, <2>2 DEF PutReused, CanPut
<1>2. ASSUME NEW t \in Tasks, NEW k \in Keys, PutNew(t, k)
      PROVE  PackInductive'
  <2>1. CacheSound'
    BY <1>2 DEF PutNew, LoadCache, Known
  <2>2. QED
    BY <1>2, <2>1 DEF PutNew, CanPut, OpenStaging
<1>3. ASSUME NEW t \in Tasks, NEW k \in Keys, PutFails(t, k)
      PROVE  PackInductive'
  <2>1. CacheSound'
    BY <1>3 DEF PutFails, LoadCache, Known
  <2>2. QED
    BY <1>3, <2>1 DEF PutFails, CanPut, OpenStaging
<1>4. ASSUME NEW t \in Tasks, PublishNothing(t)
      PROVE  PackInductive'
  BY <1>4 DEF PublishNothing
<1>5. ASSUME NEW t \in Tasks, CloseStaging(t) \/ EnterPublishIndex(t)
      PROVE  PackInductive'
  BY <1>5 DEF CloseStaging, EnterPublishIndex
<1>6. ASSUME NEW t \in Tasks, BeginTx(t)
      PROVE  PackInductive'
  <2>1. OneTx'
    BY <1>6 DEF BeginTx, IndexFree
  <2>2. SegmentFollowsPhase'
    BY <1>6 DEF BeginTx
  <2>3. LocalAccounted'
    BY <1>6 DEF BeginTx
  <2>4. InsertsCannotConflict'
    BY <1>6 DEF BeginTx
  <2>5. PublishedIndexed'
    BY <1>6 DEF BeginTx
  <2>6. QED
    BY <1>6, <2>1, <2>2, <2>3, <2>4, <2>5 DEF BeginTx
<1>7. ASSUME NEW t \in Tasks, PublishDuplicates(t)
      PROVE  PackInductive'
  BY <1>7 DEF PublishDuplicates
<1>8. ASSUME NEW t \in Tasks, RenamePack(t)
      PROVE  PackInductive'
  <2>1. packs[t] = {} /\ \A entry \in rows : entry[2] # t
    BY <1>8 DEF RenamePack
  <2>2. packs' = [packs EXCEPT ![t] = unique[t]]
    <3>1. unique[t] \subseteq records[t]
      BY <1>8 DEF RenamePack
    <3>2. CompactedPack(t) = unique[t]
      BY <3>1 DEF CompactedPack
    <3>3. QED
      BY <1>8, <3>2, Zenon DEF RenamePack
  <2>3. SegmentFollowsPhase'
    <3>1. phase' = [phase EXCEPT ![t] = "renamed"] /\ UNCHANGED <<unique, rows>>
      BY <1>8 DEF RenamePack
    <3>2. phase[t] = "tx" /\ unique[t] # {}
      BY <1>8 DEF RenamePack
    <3>3. QED
      BY <2>1, <2>2, <3>1, <3>2
  <2>4. IndexedInPack'
    BY <1>8, <2>1, <2>2 DEF RenamePack
  <2>5. OneTx' /\ LocalAccounted'
    BY <1>8 DEF RenamePack
  <2>6. InsertsCannotConflict' /\ PublishedIndexed'
    BY <1>8 DEF RenamePack
  <2>7. QED
    BY <1>8, <2>2, <2>3, <2>4, <2>5, <2>6 DEF RenamePack
<1>9. ASSUME NEW t \in Tasks, RenameMissing(t) \/ PublishFails(t) \/ Abort(t)
      PROVE  PackInductive'
  BY <1>9 DEF RenameMissing, PublishFails, Abort
<1>10. ASSUME NEW t \in Tasks, CommitIndex(t)
       PROVE  PackInductive'
  <2>1. rows' = rows \cup (unique[t] \X {t})
    BY <1>10 DEF CommitIndex
  <2>2. KeysOf(rows \cup (unique[t] \X {t})) = KeysOf(rows) \cup unique[t]
    BY ONLY KeysOfBatch
  <2>3. KeysOf(rows') = KeysOf(rows) \cup unique[t]
    BY <2>1, <2>2, Zenon
  <2>4. OneTx'
    BY <1>10 DEF CommitIndex
  <2>5. SegmentFollowsPhase'
    BY <1>10 DEF CommitIndex
  <2>6. LocalAccounted'
    <3>1. UNCHANGED <<records, local, unique>> /\ KeysOf(rows) \subseteq KeysOf(rows')
      BY <1>10, <2>3 DEF CommitIndex
    <3>2. \A u \in Tasks : u # t => phase'[u] = phase[u]
      BY <1>10 DEF CommitIndex
    <3>3. phase'[t] = "published"
      BY <1>10 DEF CommitIndex
    <3>4. QED
      BY <3>1, <3>2, <3>3
  <2>7. IndexedInPack'
    BY <1>10 DEF CommitIndex
  <2>8. OneLocation'
    BY <1>10 DEF CommitIndex, KeysOf
  <2>9. InsertsCannotConflict'
    BY <1>10 DEF CommitIndex
  <2>10. CacheSound'
    <3>1. \A q \in Procs :
            cache'[q] \subseteq cache[q] \cup (unique[t] \X {t})
      BY <1>10 DEF CommitIndex
    <3>2. QED
      BY <2>1, <3>1
  <2>11. PublishedIndexed'
    <3>1. local' = local /\ local[t] \subseteq unique[t] \cup KeysOf(rows)
      BY <1>10 DEF CommitIndex
    <3>2. \A u \in Tasks : phase'[u] = "published" => u = t \/ phase[u] = "published"
      BY <1>10 DEF CommitIndex
    <3>3. QED
      BY <2>3, <3>1, <3>2
  <2>12. QED
    BY <2>4, <2>5, <2>6, <2>7, <2>8, <2>9, <2>10, <2>11
<1>11. ASSUME NEW p \in Procs, Lookup(p)
       PROVE  PackInductive'
  BY <1>11 DEF Lookup, LoadCache, Known
<1>12. ASSUME NEW p \in Procs, Crash(p)
       PROVE  PackInductive'
  BY <1>12 DEF Crash
<1>13. CASE Clean
  BY <1>13 DEF Clean
<1>14. CASE UNCHANGED vars
  BY <1>14 DEF vars
<1>15. QED
  BY <1>1, <1>2, <1>3, <1>4, <1>5, <1>6, <1>7, <1>8, <1>9, <1>10, <1>11,
     <1>12, <1>13, <1>14 DEF Next, TaskNext, Publishing

(* The inductive invariant holds in every reachable state.                   *)
THEOREM PackInvariant == Spec => []PackInductive
<1>1. PackInductive /\ TypeOK' /\ [Next]_vars => PackInductive'
  BY PackStep
<1>2. QED
  BY <1>1, PackInit, Typing, PTL DEF Spec

(* Every committed row of packs/index.sqlite leads to a segment that holds   *)
(* the record, through crashes, failures and clean.                          *)
THEOREM IndexedObjectsExist == Spec => []IndexedInPack
<1>1. PackInductive => IndexedInPack
  BY DEF PackInductive
<1>2. QED
  BY <1>1, PackInvariant, PTL

(* The same bytes never get two locations, whichever tasks publish them.     *)
THEOREM LocationsAreUnique == Spec => []OneLocation
<1>1. PackInductive => OneLocation
  BY DEF PackInductive
<1>2. QED
  BY <1>1, PackInvariant, PTL

(* A successful Publish leaves everything its task has put in the index.     *)
THEOREM PublishedObjectsIndexed == Spec => []PublishedIndexed
<1>1. PackInductive => PublishedIndexed
  BY DEF PackInductive
<1>2. QED
  BY <1>1, PackInvariant, PTL

(* What one step may do to the index and the segments: a commit adds the     *)
(* unique records of its task and nothing else touches rows; the rename of a *)
(* task without a segment is the only step that touches packs.               *)
LEMMA StepOnDisk ==
  ASSUME PackInductive, [Next]_vars
  PROVE  /\ rows' = rows \/ \E t \in Tasks : CommitIndex(t)
         /\ packs' = packs \/ \E t \in Tasks : RenamePack(t)
<1>1. ASSUME NEW t \in Tasks, TaskNext(t)
      PROVE  /\ rows' = rows \/ CommitIndex(t)
             /\ packs' = packs \/ RenamePack(t)
  BY <1>1 DEF TaskNext, PutReused, PutNew, PutFails, PublishNothing,
       CloseStaging, Publishing, EnterPublishIndex, BeginTx, PublishDuplicates,
       RenamePack, RenameMissing, CommitIndex, PublishFails, Abort
<1>2. ASSUME NEW p \in Procs, Lookup(p) \/ Crash(p)
      PROVE  rows' = rows /\ packs' = packs
  BY <1>2 DEF Lookup, Crash
<1>3. QED
  BY <1>1, <1>2 DEF Next, Clean, vars

(* Segments and rows are written once (compare the comment of Publish).      *)
THEOREM SegmentsAreImmutable == Spec => WriteOnce
<1>1. ASSUME PackInductive, [Next]_vars
      PROVE  /\ rows \subseteq rows'
             /\ \A t \in Tasks : packs[t] # {} => packs'[t] = packs[t]
  <2>1. rows \subseteq rows'
    BY <1>1, StepOnDisk DEF CommitIndex
  <2>2. ASSUME NEW t \in Tasks, RenamePack(t)
        PROVE  \A u \in Tasks : packs[u] # {} => packs'[u] = packs[u]
    BY <1>1, <2>2 DEF RenamePack, Step, PackInductive, TypeOK, SegmentFollowsPhase
  <2>3. QED
    BY <1>1, <2>1, <2>2, StepOnDisk
<1>2. QED
  BY <1>1, PackInvariant, PTL DEF Spec, WriteOnce

(* The pack index implements the write-once catalogue of ObjectCatalog: a    *)
(* commit is one publication of a batch of new keys, every other step        *)
(* leaves the catalogue alone.                                               *)
THEOREM IndexRefinesCatalog == Spec => CatalogSpec
<1>1. Init => Catalog!Init
  BY DEF Init, Catalog!Init
<1>2. ASSUME PackInductive, [Next]_vars
      PROVE  [Catalog!Next]_rows
  <2>1. ASSUME NEW t \in Tasks, CommitIndex(t)
        PROVE  Catalog!PublishBatch(t, unique[t])
    <3>1. unique[t] # {} /\ phase[t] \in InTx /\ \A entry \in rows : entry[2] # t
      BY <1>2, <2>1 DEF CommitIndex, Step, InTx, PackInductive, SegmentFollowsPhase
    <3>2. unique[t] \cap KeysOf(rows) = {}
      BY <1>2, <3>1 DEF PackInductive, InsertsCannotConflict
    <3>3. t \notin Catalog!Used
      BY <3>1 DEF Catalog!Used
    <3>4. Catalog!Located = KeysOf(rows)
      BY DEF Catalog!Located, KeysOf
    <3>5. rows' = rows \cup (unique[t] \X {t})
      BY <2>1 DEF CommitIndex
    <3>6. QED
      BY <3>1, <3>2, <3>3, <3>4, <3>5 DEF Catalog!PublishBatch
  <2>2. ASSUME NEW t \in Tasks, CommitIndex(t)
        PROVE  unique[t] \in SUBSET Keys
    BY <1>2 DEF PackInductive, TypeOK
  <2>3. QED
    BY <1>2, <2>1, <2>2, StepOnDisk DEF Catalog!Next
<1>3. QED
  BY <1>1, <1>2, PackInvariant, PTL DEF Spec, CatalogSpec, Catalog!Spec

(* The in-memory copy of the index has every row that the tasks of its own   *)
(* process have committed: a task has loaded the copy when it puts its first *)
(* object, and adds its rows when it commits.                                *)
OwnRowsCached ==
  /\ \A p \in loaded : \A entry \in rows :
       OwnerOf[entry[2]] = p => entry[1] \in KeysOf(cache[p])
  /\ \A t \in Tasks :
       phase[t] \in {"open", "closed"} \cup InMutex => OwnerOf[t] \in loaded

(* Every step keeps it; only CommitIndex adds rows.                          *)
LEMMA OwnRowsStep ==
  ASSUME PackInductive, OwnRowsCached, [Next]_vars
  PROVE  OwnRowsCached'
<1> USE OwnerAssumption DEF OwnRowsCached, InMutex, Step
<1> TypeOK
  BY DEF PackInductive
<1>1. ASSUME NEW t \in Tasks, NEW k \in Keys,
             PutReused(t, k) \/ PutNew(t, k) \/ PutFails(t, k)
      PROVE  OwnRowsCached'
  <2>1. rows' = rows /\ LoadCache(OwnerOf[t]) /\ OwnerOf[t] \in Procs
    BY <1>1 DEF PutReused, PutNew, PutFails
  <2>2. \A u \in Tasks :
          phase'[u] \in {"open", "closed", "mutex", "tx", "renamed"} => OwnerOf[u] \in loaded'
    BY <1>1 DEF PutReused, PutNew, PutFails, CanPut, OpenStaging, LoadCache, TypeOK
  <2>3. \A p \in loaded' : \A entry \in rows' :
          OwnerOf[entry[2]] = p => entry[1] \in KeysOf(cache'[p])
    BY <2>1 DEF LoadCache, Known, KeysOf, TypeOK
  <2>4. QED
    BY <2>2, <2>3
<1>2. ASSUME NEW t \in Tasks,
             \/ PublishNothing(t) \/ CloseStaging(t) \/ EnterPublishIndex(t)
             \/ BeginTx(t) \/ PublishDuplicates(t) \/ RenamePack(t)
             \/ RenameMissing(t) \/ PublishFails(t) \/ Abort(t)
      PROVE  OwnRowsCached'
  BY <1>2 DEF PublishNothing, CloseStaging, EnterPublishIndex, BeginTx,
       PublishDuplicates, RenamePack, RenameMissing, PublishFails, Abort, TypeOK
<1>3. ASSUME NEW t \in Tasks, CommitIndex(t)
      PROVE  OwnRowsCached'
  <2> DEFINE p == OwnerOf[t]
             fresh == unique[t] \ KeysOf(cache[p])
  <2>1. p \in loaded /\ loaded' = loaded /\ p \in Procs
    BY <1>3 DEF CommitIndex, TypeOK
  <2>2. rows' = rows \cup (unique[t] \X {t})
    BY <1>3 DEF CommitIndex
  <2>3. cache'[p] = cache[p] \cup (fresh \X {t})
    BY <1>3, <2>1 DEF CommitIndex, TypeOK
  <2>4. \A q \in Procs : q # p => cache'[q] = cache[q]
    BY <1>3, <2>1 DEF CommitIndex, TypeOK
  <2>5. KeysOf(cache'[p]) = KeysOf(cache[p]) \cup fresh
    <3>1. KeysOf(cache[p] \cup (fresh \X {t})) = KeysOf(cache[p]) \cup fresh
      BY ONLY KeysOfBatch
    <3>2. QED
      BY <2>3, <3>1
  <2>6. ASSUME NEW q \in loaded, NEW entry \in rows', OwnerOf[entry[2]] = q
        PROVE  entry[1] \in KeysOf(cache'[q])
    <3>1. CASE entry \in rows
      <4>1. entry[1] \in KeysOf(cache[q])
        BY <2>6, <3>1
      <4>2. QED
        BY <2>4, <2>5, <4>1 DEF TypeOK
    <3>2. CASE entry \in unique[t] \X {t}
      <4>1. entry[1] \in unique[t] /\ q = p
        BY <2>6, <3>2
      <4>2. QED
        BY <2>5, <4>1
    <3>3. QED
      BY <2>2, <3>1, <3>2
  <2>7. \A u \in Tasks :
          phase'[u] \in {"open", "closed"} \cup InMutex => OwnerOf[u] \in loaded'
    BY <1>3, <2>1 DEF CommitIndex, TypeOK
  <2>8. QED
    BY <2>1, <2>6, <2>7
<1>4. ASSUME NEW p \in Procs, Lookup(p)
      PROVE  OwnRowsCached'
  BY <1>4 DEF Lookup, LoadCache, Known, KeysOf, TypeOK
<1>5. ASSUME NEW p \in Procs, Crash(p)
      PROVE  OwnRowsCached'
  BY <1>5 DEF Crash, TypeOK
<1>6. CASE Clean \/ UNCHANGED vars
  BY <1>6 DEF Clean, vars
<1>7. QED
  BY <1>1, <1>2, <1>3, <1>4, <1>5, <1>6 DEF Next, TaskNext, Publishing

(* What a task has published and no other process has, its own process can   *)
(* read.                                                                     *)
THEOREM OwnObjectsReadBack == Spec => []OwnProcessReadable
<1>1. Init => OwnRowsCached
  BY DEF Init, OwnRowsCached, InMutex
<1>2. PackInductive /\ OwnRowsCached /\ [Next]_vars => OwnRowsCached'
  BY OwnRowsStep
<1>3. PackInductive /\ OwnRowsCached => OwnProcessReadable
  BY OwnerAssumption DEF PackInductive, OwnRowsCached, PublishedIndexed,
     OwnProcessReadable, Known, KeysOf
<1>4. QED
  BY <1>1, <1>2, <1>3, PackInvariant, PTL DEF Spec
===============================================================================
