----------------------------- MODULE SnapshotBuild -----------------------------
(***************************************************************************)
(* One snapshot build from end to end, and what it leaves on disk:         *)
(* indexer.Build (internal/indexer/indexer.go) with the databases of       *)
(* internal/store/branch.go and the caller that lists the snapshot in the  *)
(* catalogue.                                                              *)
(*                                                                         *)
(* A build commits to five places, one after the other: the object packs,  *)
(* the content database shared by the products of a source, the branch     *)
(* database of its product, the manifest file and the catalogue.  It may   *)
(* fail or its process may die between any two of them, and other builds   *)
(* of the same source interleave with it.  A later build starts from what  *)
(* the earlier ones left.                                                  *)
(*                                                                         *)
(* Abstractions.  A blob stands for the bytes and the language of a file,  *)
(* hence also for its Git OID, its SHA-256 and its content row.  The       *)
(* goroutines of a build are in BuildPipeline and the steps of             *)
(* objects.Publish in PackStore; here collecting goes file by file and     *)
(* publishing objects is one step.  A process whose object cache is stale  *)
(* parses what it could have reused: Parse is therefore always possible.   *)
(* The context of a build that has a deadline (init) may end until its     *)
(* files are collected; nothing looks at it afterwards.  One source and    *)
(* one schema generation.                                                  *)
(***************************************************************************)
EXTENDS Naturals

CONSTANTS Builders,     \* concurrent builds
          Timed,        \* those whose context has a deadline
          Snapshots,    \* source, product and commit
          Products,
          ProductOf,    \* product of a snapshot
          Paths,
          Blobs,
          TreeOf,       \* files of a snapshot: set of <<path, blob>>
          Malformed,    \* blobs that do not parse
          MayLose,      \* writing an object may fail (disk full, I/O error)
          MayOutlive,   \* the content lock may be held beyond its stale age
          MaxFailures   \* bound on failures, ended contexts and crashes

Lost      == "lost"       \* the content row with an empty content_hash
NoAlias   == "no alias"
Free      == "free"       \* no lock file
Abandoned == "abandoned"  \* the lock file of a process that died

Contents == Blobs \cup {Lost}

ASSUME BuildAssumption ==
  /\ Timed \subseteq Builders
  /\ ProductOf \in [Snapshots -> Products]
  /\ TreeOf \in [Snapshots -> SUBSET (Paths \X Blobs)]
  /\ \A s \in Snapshots : \A f, g \in TreeOf[s] : f[1] = g[1] => f = g
  /\ Malformed \subseteq Blobs
  /\ MayLose \in BOOLEAN
  /\ MayOutlive \in BOOLEAN
  /\ MaxFailures \in Nat

ASSUME DistinctAssumption ==
  /\ Lost \notin Blobs
  /\ NoAlias \notin Contents
  /\ {Free, Abandoned} \cap Builders = {}

VARIABLES
  pc,           \* how far each build is
  target,       \* the snapshot it builds
  batch,        \* files collected: <<path, blob, content, facts>>
  staged,       \* objects in its staging pack
  ended,        \* builds whose context has ended
  indexLock,    \* index lock file of each snapshot
  contentLock,  \* shared content lock file
  objects,      \* objects indexed in the packs: <<kind, blob>>
  contents,     \* rows of `contents`
  facts,        \* sets of search documents stored for a content
  aliases,      \* blob_aliases: content of a Git OID
  files,        \* snapshot_files of each snapshot: <<path, content>>
  ready,        \* snapshots with status ready in their branch database
  fts,          \* branch_contents with what was indexed: <<content, facts>>
  manifests,    \* snapshots with a manifest file
  catalog,      \* snapshots saved as ready in the catalogue
  cut,          \* history: snapshots published after the context had ended
  failures      \* builds that failed or died and contexts that ended so far

buildVars == <<pc, target, batch, staged, ended>>
diskVars  == <<objects, contents, facts, aliases, files, ready, fts,
               manifests, catalog, cut>>
vars == <<buildVars, indexLock, contentLock, diskVars, failures>>

Stages == {"idle", "locked", "opened", "collecting", "stored", "merging",
           "merged", "branched", "built"}

Init ==
  /\ pc = [b \in Builders |-> "idle"]
  /\ target \in [Builders -> Snapshots]
  /\ batch = [b \in Builders |-> {}]
  /\ staged = [b \in Builders |-> {}]
  /\ ended = {}
  /\ indexLock = [s \in Snapshots |-> Free]
  /\ contentLock = Free
  /\ objects = {}
  /\ contents = {}
  /\ facts = [c \in Contents |-> 0]
  /\ aliases = [k \in Blobs |-> NoAlias]
  /\ files = [s \in Snapshots |-> {}]
  /\ ready = {}
  /\ fts = [p \in Products |-> {}]
  /\ manifests = {}
  /\ catalog = {}
  /\ cut = {}
  /\ failures = 0

Go(b, from, to) ==
  /\ pc[b] = from
  /\ pc' = [pc EXCEPT ![b] = to]

(* The batch, the staged objects and the context of a build end with it.   *)
Forget(b) ==
  /\ batch' = [batch EXCEPT ![b] = {}]
  /\ staged' = [staged EXCEPT ![b] = {}]
  /\ ended' = ended \ {b}

Reclaimable(lock) == lock \in {Free, Abandoned}

-----------------------------------------------------------------------------
(* Starting a build.                                                       *)

(* lock.Acquire of the index lock; the file of a process that died is      *)
(* removed once it is stale.                                               *)
Begin(b, s) ==
  /\ Reclaimable(indexLock[s])
  /\ Go(b, "idle", "locked")
  /\ target' = [target EXCEPT ![b] = s]
  /\ indexLock' = [indexLock EXCEPT ![s] = b]
  /\ UNCHANGED <<batch, staged, ended, contentLock, diskVars, failures>>

(* OpenBranch takes and gives back the content lock around creating the    *)
(* databases.                                                              *)
OpenBranch(b) ==
  /\ Reclaimable(contentLock) \/ MayOutlive
  /\ Go(b, "locked", "opened")
  /\ contentLock' = Free
  /\ UNCHANGED <<target, batch, staged, ended, indexLock, diskVars, failures>>

Reusable(s) == s \in ready /\ s \in manifests

(* Mutant: a snapshot that is not built again is not listed again.         *)
ReuseSnapshotUnlisted(b) ==
  /\ Reusable(target[b])
  /\ Go(b, "opened", "idle")
  /\ Forget(b)
  /\ indexLock' = [indexLock EXCEPT ![target[b]] = Free]
  /\ UNCHANGED <<target, contentLock, diskVars, failures>>

(* A snapshot that is ready and has its manifest is not built again.       *)
ReuseSnapshot(b) ==
  /\ Reusable(target[b])
  /\ Go(b, "opened", "built")
  /\ Forget(b)
  /\ indexLock' = [indexLock EXCEPT ![target[b]] = Free]
  /\ UNCHANGED <<target, contentLock, diskVars, failures>>

(* Mutant: a snapshot is built whether it is there or not.                 *)
ListEntriesAgain(b) ==
  /\ b \notin ended
  /\ Go(b, "opened", "collecting")
  /\ UNCHANGED <<target, batch, staged, ended, indexLock, contentLock, diskVars, failures>>

(* Entries runs Git with the context of the build.                         *)
ListEntries(b) ==
  /\ ~Reusable(target[b])
  /\ b \notin ended
  /\ Go(b, "opened", "collecting")
  /\ UNCHANGED <<target, batch, staged, ended, indexLock, contentLock, diskVars, failures>>

-----------------------------------------------------------------------------
(* Collecting the files.                                                   *)

Remaining(b) ==
  {f \in TreeOf[target[b]] : \A e \in batch[b] : e[1] # f[1]}

Record(b, f, content, n, new) ==
  /\ pc[b] = "collecting"
  /\ f \in Remaining(b)
  /\ batch' = [batch EXCEPT ![b] = @ \cup {<<f[1], f[2], content, n>>}]
  /\ staged' = [staged EXCEPT ![b] = @ \cup new]
  /\ UNCHANGED <<pc, target, ended, indexLock, contentLock, diskVars, failures>>

(* LookupOID goes through the alias, LookupHash through the content hash;  *)
(* either way the object must exist.  Objects of Lost do not.              *)
ReusableContent(k, c) ==
  /\ c \in contents
  /\ c # Lost
  /\ <<"source", c>> \in objects
  /\ aliases[k] = c \/ c = k

ReuseContent(b, f) ==
  \E c \in contents : ReusableContent(f[2], c) /\ Record(b, f, c, 0, {})

(* The file is parsed: source and AST are staged, facts are collected.     *)
Parse(b, f) ==
  /\ f[2] \notin Malformed
  /\ Record(b, f, f[2], 1, {"source", "ast"} \X {f[2]})

(* The parser or PutAST fails after PutSource: the file goes on without    *)
(* AST and search documents.                                               *)
ParseFails(b, f) ==
  /\ f[2] \in Malformed \/ MayLose
  /\ Record(b, f, f[2], 0, {<<"source", f[2]>>})

(* PutSource fails: the file goes on with an empty content hash.           *)
LoseSource(b, f) ==
  /\ MayLose
  /\ Record(b, f, Lost, 0, {})

-----------------------------------------------------------------------------
(* Publishing.                                                             *)

(* Mutant: a build publishes what it has collected so far, in any context. *)
PublishObjectsEarly(b) ==
  /\ batch[b] # {}
  /\ Go(b, "collecting", "stored")
  /\ objects' = objects \cup staged[b]
  /\ UNCHANGED <<target, batch, staged, ended, indexLock, contentLock, contents, facts,
                 aliases, files, ready, fts, manifests, catalog, cut, failures>>

(* Mutant: the branch is published before the objects.                     *)
PublishObjectsLate(b) ==
  /\ Remaining(b) = {} \/ b \in ended
  /\ Go(b, "collecting", "stored")
  /\ UNCHANGED <<target, batch, staged, ended, indexLock, contentLock, objects, contents,
                 facts, aliases, files, ready, fts, manifests, catalog, cut, failures>>

(* objects.Publish, when all files are collected, or when the context has  *)
(* ended: then workers drop what they cannot deliver, the feeder stops,    *)
(* and Build goes on with what it has got.                                 *)
PublishObjects(b) ==
  /\ Remaining(b) = {} \/ b \in ended
  /\ Go(b, "collecting", "stored")
  /\ objects' = objects \cup staged[b]
  /\ UNCHANGED <<target, batch, staged, ended, indexLock, contentLock, contents, facts,
                 aliases, files, ready, fts, manifests, catalog, cut, failures>>

(* acquireSharedContentLock; a live holder that has passed the stale age   *)
(* loses its file.                                                         *)
LockContent(b) ==
  /\ Reclaimable(contentLock) \/ MayOutlive
  /\ Go(b, "stored", "merging")
  /\ contentLock' = b
  /\ UNCHANGED <<target, batch, staged, ended, indexLock, diskVars, failures>>

BatchContents(b) == {e[3] : e \in batch[b]}
NewContents(b)   == BatchContents(b) \ contents

(* Mutant: the facts of a batch are stored whether its rows are new or not.*)
PublishContentAll(b) ==
  /\ Go(b, "merging", "merged")
  /\ contents' = contents \cup BatchContents(b)
  /\ \E lead \in [BatchContents(b) -> batch[b]] :
       /\ \A c \in BatchContents(b) : lead[c][3] = c
       /\ facts' = [c \in Contents |->
                      IF c \in BatchContents(b) THEN facts[c] + lead[c][4] ELSE facts[c]]
  /\ UNCHANGED <<target, batch, staged, ended, indexLock, contentLock, objects, aliases,
                 files, ready, fts, manifests, catalog, cut, failures>>

(* One transaction of the content database.  The first file of the batch   *)
(* with a content that had no row brings its facts, the first file with a  *)
(* Git OID that had no alias brings the alias; the batch is in the order   *)
(* the workers delivered it.                                               *)
PublishContent(b) ==
  /\ Go(b, "merging", "merged")
  /\ contents' = contents \cup BatchContents(b)
  /\ \E lead \in [NewContents(b) -> batch[b]] :
       /\ \A c \in NewContents(b) : lead[c][3] = c
       /\ facts' = [c \in Contents |->
                      IF c \in NewContents(b) THEN facts[c] + lead[c][4] ELSE facts[c]]
  /\ aliases' \in [Blobs -> Contents \cup {NoAlias}]
  /\ \A k \in Blobs :
       IF aliases[k] = NoAlias /\ \E e \in batch[b] : e[2] = k
       THEN \E e \in batch[b] : e[2] = k /\ aliases'[k] = e[3]
       ELSE aliases'[k] = aliases[k]
  /\ UNCHANGED <<target, batch, staged, ended, indexLock, contentLock, objects, files,
                 ready, fts, manifests, catalog, cut, failures>>

IndexedContents(p) == {entry[1] : entry \in fts[p]}

(* Mutant: branch_contents is taken for granted.                           *)
PublishBranchKeepsFTS(b) ==
  LET s == target[b]
  IN  /\ Go(b, "merged", "branched")
      /\ files' = [files EXCEPT ![s] = {<<e[1], e[3]>> : e \in batch[b]}]
      /\ ready' = ready \cup {s}
      /\ cut' = IF b \in ended THEN cut \cup {s} ELSE cut \ {s}
      /\ contentLock' = Free
      /\ UNCHANGED <<target, batch, staged, ended, indexLock, objects, contents, facts,
                     aliases, fts, manifests, catalog, failures>>

(* One transaction of the branch database: snapshot_files is replaced, the *)
(* contents that are new to the product enter its full-text index, the     *)
(* snapshot becomes ready.  The content lock is given back.                *)
PublishBranch(b) ==
  LET s == target[b]
      p == ProductOf[s]
  IN  /\ Go(b, "merged", "branched")
      /\ files' = [files EXCEPT ![s] = {<<e[1], e[3]>> : e \in batch[b]}]
      /\ fts' = [fts EXCEPT ![p] =
                   @ \cup {<<c, facts[c]>> : c \in BatchContents(b) \ IndexedContents(p)}]
      /\ ready' = ready \cup {s}
      /\ cut' = IF b \in ended THEN cut \cup {s} ELSE cut \ {s}
      /\ contentLock' = Free
      /\ UNCHANGED <<target, batch, staged, ended, indexLock, objects, contents, facts,
                     aliases, manifests, catalog, failures>>

(* writeManifest; Build returns and the index lock is released.            *)
WriteManifest(b) ==
  /\ Go(b, "branched", "built")
  /\ Forget(b)
  /\ manifests' = manifests \cup {target[b]}
  /\ indexLock' = [indexLock EXCEPT ![target[b]] = Free]
  /\ UNCHANGED <<target, contentLock, objects, contents, facts, aliases, files,
                 ready, fts, catalog, cut, failures>>

(* The caller lists the snapshot.                                          *)
SaveSnapshot(b) ==
  /\ Go(b, "built", "idle")
  /\ catalog' = catalog \cup {target[b]}
  /\ UNCHANGED <<target, batch, staged, ended, indexLock, contentLock, objects,
                 contents, facts, aliases, files, ready, fts, manifests, cut, failures>>

-----------------------------------------------------------------------------
(* Failures.                                                               *)

HoldsIndexLock(b)   == pc[b] \notin {"idle", "built"}
HoldsContentLock(b) == pc[b] \in {"merging", "merged"}

(* The deadline passes before all files are collected.                     *)
EndContext(b) ==
  /\ b \in Timed \ ended
  /\ pc[b] \in {"locked", "opened", "collecting"}
  /\ failures < MaxFailures
  /\ failures' = failures + 1
  /\ ended' = ended \cup {b}
  /\ UNCHANGED <<pc, target, batch, staged, indexLock, contentLock, diskVars>>

(* What stops a build once its context has ended is not counted again.     *)
Stop(b, left) ==
  /\ b \in ended \/ failures < MaxFailures
  /\ failures' = IF b \in ended THEN failures ELSE failures + 1
  /\ pc[b] # "idle"
  /\ pc' = [pc EXCEPT ![b] = "idle"]
  /\ Forget(b)
  /\ indexLock' = IF HoldsIndexLock(b)
                  THEN [indexLock EXCEPT ![target[b]] = left] ELSE indexLock

(* Mutant: an error skips to the caller, which lists the snapshot.         *)
FailListed(b) ==
  /\ Stop(b, Free)
  /\ catalog' = catalog \cup {target[b]}
  /\ contentLock' = IF HoldsContentLock(b) THEN Free ELSE contentLock
  /\ UNCHANGED <<target, objects, contents, facts, aliases, files, ready, fts,
                 manifests, cut>>

(* Any call returns an error: the locks are given back (whoever holds the  *)
(* content lock file by now), open transactions roll back.                 *)
Fail(b) ==
  /\ Stop(b, Free)
  /\ contentLock' = IF HoldsContentLock(b) THEN Free ELSE contentLock
  /\ UNCHANGED <<target, diskVars>>

(* Entries fails in a context that has ended.                              *)
EntriesFail(b) ==
  /\ b \in ended
  /\ pc[b] = "opened"
  /\ ~Reusable(target[b])
  /\ Fail(b)

(* The process dies: its lock files stay.                                  *)
Crash(b) ==
  /\ Stop(b, Abandoned)
  /\ contentLock' = IF contentLock = b THEN Abandoned ELSE contentLock
  /\ UNCHANGED <<target, diskVars>>

Collecting(b) ==
  \E f \in TreeOf[target[b]] :
    ReuseContent(b, f) \/ Parse(b, f) \/ ParseFails(b, f) \/ LoseSource(b, f)

Continue(b) ==
  \/ ReuseSnapshot(b)
  \/ ListEntries(b)
  \/ EntriesFail(b)
  \/ Collecting(b)
  \/ PublishObjects(b)
  \/ PublishContent(b)
  \/ PublishBranch(b)
  \/ WriteManifest(b)
  \/ SaveSnapshot(b)

Next ==
  \E b \in Builders :
    \/ \E s \in Snapshots : Begin(b, s)
    \/ OpenBranch(b)
    \/ LockContent(b)
    \/ Continue(b)
    \/ EndContext(b)
    \/ Fail(b)
    \/ Crash(b)

Spec == Init /\ [][Next]_vars

(* A build that was started goes on; one that polls for the content lock   *)
(* gets it some day; a snapshot that is not listed is tried again ("rerun  *)
(* wowdoc init to continue incomplete branches").                          *)
Retry(b, s) == s \notin catalog /\ Begin(b, s)

FairSpec ==
  /\ Spec
  /\ \A b \in Builders :
       WF_vars(Continue(b)) /\ SF_vars(OpenBranch(b)) /\ SF_vars(LockContent(b))
  /\ \A s \in Snapshots : SF_vars(\E b \in Builders : Retry(b, s))

-----------------------------------------------------------------------------
(* Properties.                                                             *)

(* The variables have their types.                                         *)
TypeOK ==
  /\ pc \in [Builders -> Stages]
  /\ target \in [Builders -> Snapshots]
  /\ batch \in [Builders -> SUBSET (Paths \X Blobs \X Contents \X (0 .. 1))]
  /\ staged \in [Builders -> SUBSET ({"source", "ast"} \X Blobs)]
  /\ ended \subseteq Timed
  /\ indexLock \in [Snapshots -> Builders \cup {Free, Abandoned}]
  /\ contentLock \in Builders \cup {Free, Abandoned}
  /\ objects \subseteq {"source", "ast"} \X Blobs
  /\ contents \subseteq Contents
  /\ facts \in [Contents -> Nat]
  /\ aliases \in [Blobs -> Contents \cup {NoAlias}]
  /\ files \in [Snapshots -> SUBSET (Paths \X Contents)]
  /\ ready \subseteq Snapshots
  /\ fts \in [Products -> SUBSET (Contents \X Nat)]
  /\ manifests \subseteq Snapshots
  /\ catalog \subseteq Snapshots
  /\ cut \subseteq ready
  /\ failures \in 0 .. MaxFailures

(* Each row of a snapshot stands for a file of its commit and leads to the *)
(* content of that file or, after a failed write, to the lost one; and     *)
(* every file of the commit has a row.                                     *)
Faithful(s) ==
  \A r \in files[s] : \E f \in TreeOf[s] : r[1] = f[1] /\ r[2] \in {f[2], Lost}
Whole(s) == \A f \in TreeOf[s] : \E r \in files[s] : r[1] = f[1]

(* Whatever failed or died on the way, and whatever an earlier build of it *)
(* left, a ready snapshot has the files of its commit and no other; it     *)
(* lacks some only if the context of the build that published it had ended *)
(* (Branch.Publish stores the whole batch in the transaction that sets     *)
(* index_state to ready).                                                  *)
ReadyComplete ==
  \A s \in ready : Faithful(s) /\ (s \notin cut => Whole(s))

(* A content row is written only after its objects are in the packs: what  *)
(* a later build reuses, it finds.                                         *)
ContentBacked ==
  \A c \in contents \ {Lost} :
    /\ <<"source", c>> \in objects
    /\ facts[c] > 0 => <<"ast", c>> \in objects

(* The facts of a content are stored at most once, however many builds     *)
(* parsed it at the same time and even when two are in publishContent.     *)
FactsOnce == \A c \in Contents : facts[c] <= 1 /\ (c \notin contents => facts[c] = 0)

(* The full-text index of a product covers every content of its ready      *)
(* snapshots with the documents the content has, and each just once.       *)
FullTextCovers ==
  \A s \in ready : \A r \in files[s] :
    {entry \in fts[ProductOf[s]] : entry[1] = r[2]} = {<<r[2], facts[r[2]]>>}

(* What is listed is ready and has its manifest; a manifest is never there *)
(* before the snapshot.                                                    *)
ListedBacked == catalog \subseteq manifests /\ manifests \subseteq ready

(* An alias leads to a content row, of the same blob or the lost one.      *)
AliasSound ==
  \A k \in Blobs :
    aliases[k] # NoAlias => aliases[k] \in contents /\ aliases[k] \in {k, Lost}

(* A build releases its own index lock, and no two builds of one snapshot  *)
(* run at a time.                                                          *)
OneBuildPerSnapshot ==
  \A b \in Builders : HoldsIndexLock(b) => indexLock[target[b]] = b

(* The strengthening that makes the safety properties inductive.           *)
(* A batch holds files of the snapshot, each with its own content or the   *)
(* lost one; it is empty before collecting and, unless its context ended,  *)
(* whole once it is stored.                                                *)
BatchFaithful ==
  \A b \in Builders :
    /\ pc[b] \in {"idle", "locked", "opened", "built"} => batch[b] = {} /\ staged[b] = {}
    /\ \A e \in batch[b] : <<e[1], e[2]>> \in TreeOf[target[b]] /\ e[3] \in {e[2], Lost}
    /\ pc[b] \in {"stored", "merging", "merged"} /\ b \notin ended
         => \A f \in TreeOf[target[b]] : \E e \in batch[b] : e[1] = f[1]

(* What a batch refers to is in the packs or in the staging pack, and in   *)
(* the packs once the objects are published.                               *)
BatchBacked ==
  \A b \in Builders :
    /\ \A e \in batch[b] : e[3] # Lost =>
         /\ <<"source", e[3]>> \in objects \cup staged[b]
         /\ e[4] > 0 => <<"ast", e[3]>> \in objects \cup staged[b]
    /\ pc[b] \in {"stored", "merging", "merged"} => staged[b] \subseteq objects

(* Content rows precede the branch, the branch precedes the manifest; what *)
(* is being built has no manifest.                                         *)
StagesRecorded ==
  \A b \in Builders :
    /\ pc[b] \in {"collecting", "stored", "merging", "merged"}
         => target[b] \notin manifests
    /\ pc[b] = "merged" => BatchContents(b) \subseteq contents
    /\ pc[b] = "branched" => target[b] \in ready
    /\ pc[b] = "built" => target[b] \in ready \cap manifests

(* An entry of the full-text index stands for a content row as it is.      *)
FullTextExact ==
  /\ \A p \in Products : \A entry \in fts[p] :
       entry[1] \in contents /\ entry[2] = facts[entry[1]]
  /\ \A s \in ready : \A r \in files[s] : r[2] \in IndexedContents(ProductOf[s])

(* The inductive invariant: the properties with the parts above (checked   *)
(* by TLC, proved in SnapshotBuild_proofs).                                *)
BuildInductive ==
  /\ TypeOK
  /\ BatchFaithful
  /\ BatchBacked
  /\ StagesRecorded
  /\ FullTextExact
  /\ ReadyComplete
  /\ ContentBacked
  /\ FactsOnce
  /\ ListedBacked
  /\ AliasSound
  /\ OneBuildPerSnapshot

(* Every file of a ready snapshot can be read.                             *)
ReadyReadable ==
  \A s \in ready : \A r \in files[s] : <<"source", r[2]>> \in objects

(* Whatever failed or died, and wherever, a snapshot that is tried again   *)
(* is listed in the end.                                                   *)
EventuallyListed == \A s \in Snapshots : <>(s \in catalog)

Store == INSTANCE SnapshotStore
           WITH published <- [s \in Snapshots |-> IF s \in ready THEN {files[s]} ELSE {}],
                listed <- catalog

(* Building implements the snapshot store: files of the commit appear all  *)
(* at once, the whole commit unless a context ended, and never change once *)
(* the snapshot is listed, however many builds of it fail, die or run past *)
(* their deadline.                                                         *)
StoreSpec == Store!Spec
==============================================================================
