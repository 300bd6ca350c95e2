------------------------------ MODULE PackStore ------------------------------
(***************************************************************************)
(* The content-addressed pack store (internal/objectstore/store.go).       *)
(*                                                                         *)
(* Every build task collects its new objects in a staging pack of its own  *)
(* under tmp/packs and then publishes it: under the process-wide mutex     *)
(* catalogMu and an immediate SQLite transaction the records that another  *)
(* task has published meanwhile are dropped, the (compacted) staging file  *)
(* is renamed into packs/, and the index rows are committed.  Each process *)
(* reads the index once and afterwards trusts its own in-memory copy.      *)
(*                                                                         *)
(* Processes run concurrently, may crash at any step and be started again, *)
(* and `wowdoc clean --yes` may empty tmp/ at any moment.                  *)
(*                                                                         *)
(* Abstractions.  An object is its key (kind and SHA-256); offsets, codecs *)
(* and lengths are left out.  A task stages at most one pack, so a task's  *)
(* name is also the identity of its pack (os.CreateTemp draws a fresh      *)
(* one).  There are no legacy single-object files.                         *)
(***************************************************************************)
CONSTANTS Procs,    \* operating system processes
          Tasks,    \* build tasks: one objectstore.Store each
          Keys,     \* object keys
          OwnerOf   \* the process that runs a task

ASSUME OwnerAssumption == OwnerOf \in [Tasks -> Procs]

VARIABLES
  phase,    \* progress of each task through put and Publish
  records,  \* records appended to the task's staging pack
  local,    \* keys the task has put, new or reused (Store.local)
  unique,   \* records that survive deduplication in the transaction
  staging,  \* tasks whose staging file is still at its path in tmp/packs
  packs,    \* content of the published segment of a task ({}: no file)
  rows,     \* committed rows of packs/index.sqlite: <<key, pack>>
  loaded,   \* processes whose catalogCache holds an entry for the index
  cache     \* that entry: the rows the process knows of

vars == <<phase, records, local, unique, staging, packs, rows, loaded, cache>>

Phases == {"new", "open", "closed", "mutex", "tx", "renamed",
           "published", "failed", "aborted", "dead"}

InMutex == {"mutex", "tx", "renamed"}
InTx    == {"tx", "renamed"}

KeysOf(entries) == {entry[1] : entry \in entries}

(* What lookupRecord answers from: the cache, or the index it loads.       *)
Known(p) == IF p \in loaded THEN cache[p] ELSE rows

(* Mutant: an error return of publishIndex leaves catalogMu locked.        *)
MutexKeptOnError(p) ==
  \A t \in Tasks : OwnerOf[t] = p => phase[t] \notin InMutex \cup {"failed"}

(* catalogMu is held by no task of the process.                            *)
MutexFree(p) == \A t \in Tasks : OwnerOf[t] = p => phase[t] \notin InMutex

(* No task of any process holds the write lock of index.sqlite.            *)
IndexFree == \A t \in Tasks : phase[t] \notin InTx

LoadCache(p) ==
  /\ loaded' = loaded \cup {p}
  /\ cache' = [cache EXCEPT ![p] = Known(p)]

Init ==
  /\ phase = [t \in Tasks |-> "new"]
  /\ records = [t \in Tasks |-> {}]
  /\ local = [t \in Tasks |-> {}]
  /\ unique = [t \in Tasks |-> {}]
  /\ staging = {}
  /\ packs = [t \in Tasks |-> {}]
  /\ rows = {}
  /\ loaded = {}
  /\ cache = [p \in Procs |-> {}]

-----------------------------------------------------------------------------
(* Collecting objects.  A key already in `local` changes nothing.          *)

(* openStaging creates the file on the first new record only: a file that  *)
(* was unlinked while it is open is not created again.                     *)
OpenStaging(t) ==
  /\ phase' = [phase EXCEPT ![t] = "open"]
  /\ staging' = IF phase[t] = "new" THEN staging \cup {t} ELSE staging

CanPut(t, k) ==
  /\ phase[t] \in {"new", "open"}
  /\ k \notin local[t]
  /\ MutexFree(OwnerOf[t])

PutReused(t, k) ==
  /\ CanPut(t, k)
  /\ k \in KeysOf(Known(OwnerOf[t]))
  /\ LoadCache(OwnerOf[t])
  /\ local' = [local EXCEPT ![t] = @ \cup {k}]
  /\ UNCHANGED <<phase, records, unique, staging, packs, rows>>

PutNew(t, k) ==
  /\ CanPut(t, k)
  /\ k \notin KeysOf(Known(OwnerOf[t]))
  /\ LoadCache(OwnerOf[t])
  /\ OpenStaging(t)
  /\ records' = [records EXCEPT ![t] = @ \cup {k}]
  /\ local' = [local EXCEPT ![t] = @ \cup {k}]
  /\ UNCHANGED <<unique, packs, rows>>

(* The write fails: the staging file may exist, the record is not listed.  *)
PutFails(t, k) ==
  /\ CanPut(t, k)
  /\ k \notin KeysOf(Known(OwnerOf[t]))
  /\ LoadCache(OwnerOf[t])
  /\ OpenStaging(t)
  /\ UNCHANGED <<records, local, unique, packs, rows>>

(* Exists, Open, OpenAST and Location only load the cache.                 *)
Lookup(p) ==
  /\ p \notin loaded
  /\ MutexFree(p)
  /\ LoadCache(p)
  /\ UNCHANGED <<phase, records, local, unique, staging, packs, rows>>

-----------------------------------------------------------------------------
(* Publishing.                                                             *)

Step(t, from, to) ==
  /\ phase[t] = from
  /\ phase' = [phase EXCEPT ![t] = to]

(* Nothing was staged: Publish only marks the store as published.          *)
PublishNothing(t) ==
  /\ Step(t, "new", "published")
  /\ UNCHANGED <<records, local, unique, staging, packs, rows, loaded, cache>>

(* Sync and close the staging file.                                        *)
CloseStaging(t) ==
  /\ Step(t, "open", "closed")
  /\ UNCHANGED <<records, local, unique, staging, packs, rows, loaded, cache>>

EnterPublishIndex(t) ==
  /\ MutexFree(OwnerOf[t])
  /\ Step(t, "closed", "mutex")
  /\ UNCHANGED <<records, local, unique, staging, packs, rows, loaded, cache>>

(* Mutant: the SELECTs are left out.                                       *)
BeginTxNoDedup(t) ==
  /\ IndexFree
  /\ Step(t, "mutex", "tx")
  /\ unique' = [unique EXCEPT ![t] = records[t]]
  /\ UNCHANGED <<records, local, staging, packs, rows, loaded, cache>>

(* BEGIN IMMEDIATE, then one SELECT per staged record.                     *)
BeginTx(t) ==
  /\ IndexFree
  /\ Step(t, "mutex", "tx")
  /\ unique' = [unique EXCEPT ![t] = records[t] \ KeysOf(rows)]
  /\ UNCHANGED <<records, local, staging, packs, rows, loaded, cache>>

(* Every record is a duplicate: commit nothing, remove the staging file.   *)
PublishDuplicates(t) ==
  /\ unique[t] = {}
  /\ Step(t, "tx", IF t \in staging THEN "published" ELSE "failed")
  /\ staging' = staging \ {t}
  /\ UNCHANGED <<records, local, unique, packs, rows, loaded, cache>>

(* compactPack copies the unique records into a new file next to the       *)
(* staging pack, checking that each is there in full.                      *)
CompactedPack(t) == records[t] \cap unique[t]

(* The staging file itself is renamed unless some records are duplicates.  *)
RenamePack(t) ==
  /\ unique[t] # {}
  /\ t \in staging
  /\ Step(t, "tx", "renamed")
  /\ packs' = [packs EXCEPT ![t] = IF unique[t] = records[t]
                                   THEN records[t] ELSE CompactedPack(t)]
  /\ staging' = staging \ {t}
  /\ UNCHANGED <<records, local, unique, rows, loaded, cache>>

(* Mutant: the error of os.Rename is ignored.                              *)
RenameMissingIgnored(t) ==
  /\ unique[t] # {}
  /\ t \notin staging
  /\ Step(t, "tx", "renamed")
  /\ UNCHANGED <<records, local, unique, staging, packs, rows, loaded, cache>>

(* The staging file is gone: opening or renaming it fails.                 *)
RenameMissing(t) ==
  /\ unique[t] # {}
  /\ t \notin staging
  /\ Step(t, "tx", "failed")
  /\ UNCHANGED <<records, local, unique, staging, packs, rows, loaded, cache>>

(* Mutant: the cache keeps what it was.                                    *)
CommitIndexOnly(t) ==
  /\ Step(t, "renamed", "published")
  /\ rows' = rows \cup (unique[t] \X {t})
  /\ UNCHANGED <<records, local, unique, staging, packs, loaded, cache>>

(* Insert the rows, commit, and add the new records to this process's      *)
(* cache.  The duplicates that were dropped are not added.                 *)
CommitIndex(t) ==
  LET p     == OwnerOf[t]
      known == IF p \in loaded THEN cache[p] ELSE {}
      fresh == unique[t] \ KeysOf(known)
  IN  /\ Step(t, "renamed", "published")
      /\ rows' = rows \cup (unique[t] \X {t})
      /\ loaded' = loaded \cup {p}
      /\ cache' = [cache EXCEPT ![p] = known \cup (fresh \X {t})]
      /\ UNCHANGED <<records, local, unique, staging, packs>>

(* Mutant: the error of Publish is dropped.                                *)
PublishFailsSilently(t) ==
  /\ phase[t] \in {"open", "closed"} \cup InMutex
  /\ phase' = [phase EXCEPT ![t] = "published"]
  /\ UNCHANGED <<records, local, unique, staging, packs, rows, loaded, cache>>

(* Any call of Publish may return an error; the transaction rolls back and *)
(* the mutex is released, a renamed pack stays where it is.                *)
PublishFails(t) ==
  /\ phase[t] \in {"open", "closed"} \cup InMutex
  /\ phase' = [phase EXCEPT ![t] = "failed"]
  /\ UNCHANGED <<records, local, unique, staging, packs, rows, loaded, cache>>

(* The deferred Abort of a build that did not publish.                     *)
Abort(t) ==
  /\ phase[t] \in {"new", "open", "failed"}
  /\ phase' = [phase EXCEPT ![t] = "aborted"]
  /\ staging' = staging \ {t}
  /\ UNCHANGED <<records, local, unique, packs, rows, loaded, cache>>

-----------------------------------------------------------------------------
(* The environment.                                                        *)

(* The process ends at any step; its files stay, its memory does not.  A   *)
(* task still "new" is run by the process that is started in its place.    *)
Crash(p) ==
  /\ phase' = [t \in Tasks |->
                 IF OwnerOf[t] = p /\ phase[t] # "new" THEN "dead" ELSE phase[t]]
  /\ loaded' = loaded \ {p}
  /\ cache' = [cache EXCEPT ![p] = {}]
  /\ UNCHANGED <<records, local, unique, staging, packs, rows>>

(* `wowdoc clean --yes` removes every file under tmp/, whoever uses it.    *)
Clean ==
  /\ staging # {}
  /\ staging' = {}
  /\ UNCHANGED <<phase, records, local, unique, packs, rows, loaded, cache>>

Publishing(t) ==
  \/ EnterPublishIndex(t)
  \/ BeginTx(t)
  \/ PublishDuplicates(t)
  \/ RenamePack(t)
  \/ RenameMissing(t)
  \/ CommitIndex(t)

TaskNext(t) ==
  \/ \E k \in Keys : PutReused(t, k) \/ PutNew(t, k) \/ PutFails(t, k)
  \/ PublishNothing(t)
  \/ CloseStaging(t)
  \/ Publishing(t)
  \/ PublishFails(t)
  \/ Abort(t)

Next ==
  \/ \E t \in Tasks : TaskNext(t)
  \/ \E p \in Procs : Lookup(p) \/ Crash(p)
  \/ Clean

Spec == Init /\ [][Next]_vars

(* A running Publish goes on: the mutex and the SQLite lock are waited for *)
(* by their holders' peers and each is held for a bounded piece of code.   *)
FairSpec == Spec /\ \A t \in Tasks : WF_vars(Publishing(t))

-----------------------------------------------------------------------------
(* Properties.                                                             *)

(* The variables have their types.                                         *)
TypeOK ==
  /\ phase \in [Tasks -> Phases]
  /\ records \in [Tasks -> SUBSET Keys]
  /\ local \in [Tasks -> SUBSET Keys]
  /\ unique \in [Tasks -> SUBSET Keys]
  /\ staging \subseteq Tasks
  /\ packs \in [Tasks -> SUBSET Keys]
  /\ rows \subseteq Keys \X Tasks
  /\ loaded \subseteq Procs
  /\ cache \in [Procs -> SUBSET (Keys \X Tasks)]

(* A committed index row always leads to a segment that is in packs/ and   *)
(* holds the record, whatever crashed, failed or was cleaned on the way    *)
(* (the rename precedes the commit, and clean leaves packs/ alone).        *)
IndexedInPack == \A entry \in rows : entry[1] \in packs[entry[2]]

(* An object has one location: two tasks that staged the same bytes never  *)
(* both index them.                                                        *)
OneLocation ==
  \A a, b \in rows : a[1] = b[1] => a = b

(* Between the SELECTs of a transaction and its commit no other task       *)
(* indexes one of its records, so its INSERTs meet no PRIMARY KEY conflict *)
(* after the pack has been renamed.                                        *)
InsertsCannotConflict ==
  \A t \in Tasks : phase[t] \in InTx => unique[t] \cap KeysOf(rows) = {}

(* A process never trusts a location that the index does not have.         *)
CacheSound == \A p \in Procs : cache[p] \subseteq rows

(* Everything a task has put is indexed once its Publish has succeeded,    *)
(* the duplicates it dropped and the objects it reused included.           *)
PublishedIndexed ==
  \A t \in Tasks : phase[t] = "published" => local[t] \subseteq KeysOf(rows)

(* The strengthening that makes the safety properties inductive follows.   *)

(* At most one task is inside the index transaction.                       *)
OneTx ==
  \A t, u \in Tasks : phase[t] \in InTx /\ phase[u] \in InTx => t = u

(* A segment exists from the rename on and holds the unique records; no    *)
(* row names it before the commit.                                         *)
SegmentFollowsPhase ==
  \A t \in Tasks :
    /\ phase[t] \in {"new", "open", "closed", "mutex", "tx"} => packs[t] = {}
    /\ phase[t] = "renamed" => packs[t] = unique[t] /\ unique[t] # {}
    /\ phase[t] \in {"new", "open", "closed", "mutex", "tx", "renamed"}
         => \A entry \in rows : entry[2] # t

(* Every key a task has put is still to be published by it or is indexed.  *)
LocalAccounted ==
  \A t \in Tasks :
    /\ phase[t] = "new" => records[t] = {}
    /\ phase[t] \in {"new", "open", "closed", "mutex"}
         => local[t] \subseteq records[t] \cup KeysOf(rows)
    /\ phase[t] \in InTx => /\ unique[t] \subseteq records[t]
                            /\ local[t] \subseteq unique[t] \cup KeysOf(rows)

(* The inductive invariant: the named parts above with the properties they *)
(* support (checked by TLC, proved in PackStore_proofs).                   *)
PackInductive ==
  /\ TypeOK
  /\ OneTx
  /\ SegmentFollowsPhase
  /\ LocalAccounted
  /\ IndexedInPack
  /\ OneLocation
  /\ InsertsCannotConflict
  /\ CacheSound
  /\ PublishedIndexed

(* What a build has published can be read back in its own process unless   *)
(* a task of another process has published the object: the tasks of one    *)
(* process learn each other's rows through catalogCache.  Branch.Publish    *)
(* relies on more: ensureBranchFTS opens the source text of every content   *)
(* that is new to the branch, also where another process was faster.        *)
OwnProcessReadable ==
  \A t \in Tasks : \A k \in local[t] :
    phase[t] = "published" =>
      \/ k \in KeysOf(Known(OwnerOf[t]))
      \/ \E entry \in rows : entry[1] = k /\ OwnerOf[entry[2]] # OwnerOf[t]

(* Segments and rows are written once: a published segment is never        *)
(* rewritten or removed and a row never moves.                             *)
WriteOnce ==
  [][/\ rows \subseteq rows'
     /\ \A t \in Tasks : packs[t] # {} => packs'[t] = packs[t]]_vars

(* A Publish that has closed its staging file returns, whoever else wants  *)
(* the mutex or the index: in the end no task (each publishes once) is     *)
(* between closing its file and returning.                                 *)
PublishReturns ==
  <>[](\A t \in Tasks : phase[t] \notin {"closed"} \cup InMutex)

Catalog == INSTANCE ObjectCatalog WITH Packs <- Tasks, location <- rows

(* The index refines the write-once catalogue: one commit of publishIndex  *)
(* locates a whole batch at once, and nothing else changes a location.     *)
CatalogSpec == Catalog!Spec

==============================================================================
