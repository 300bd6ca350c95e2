# wowdoc in TLA+

wowdoc keeps local, searchable snapshots of the World of Warcraft interface
code: it mirrors Git repositories, indexes the commits of their product
branches into SQLite databases and content-addressed packs, and answers queries
from what it has indexed. The program is a short-lived command; what is hard
about it is the state that stays on disk, that several commands share without a
server, and that a command may leave half-written.

This directory models that shared state. TLC checks the models on small
instances, TLAPS proves the theorems for every value of the constants.

    tlc -config PackTwoProcs.cfg MCPackStore      # any run: cfg + module of PROJECT.json
    tlapm PackStore_proofs.tla                    # any *_proofs module

`PROJECT.json` lists components, runs, mutants, theorems, hazards and findings,
and maps every definition to the lines it models.

## Inventory

| component | state | operations | interacts through | hard behaviour |
|---|---|---|---|---|
| object store, `internal/objectstore` | `packs/*.zop`, `packs/index.sqlite`, staging packs in `tmp/packs`, an index cache per process | put, openStaging, Publish, publishIndex, compactPack, Abort, Exists/Open/Location | called by every build; `clean` removes its staging files | tasks stage the same bytes; crash between rename and commit; stale cache |
| lock files, `internal/lock`, `acquireSharedContentLock` | files in `locks/` | Acquire, Release, polling | repository, index and content locks | check-then-act on the file's age; dead owners; slow holders |
| build pipeline, goroutines of `indexer.Build` | channels `jobs`, `results`, `errCh`, a wait group, `ctx` | feed, process, collect, close, publish | feeds the snapshot build | errors, cancellation, closing of channels |
| snapshot build, `internal/indexer`, `internal/store/branch.go` | branch database per product, content database per source, manifests, catalogue | Build, Branch.Publish, publishContent, ensureBranchFTS, writeManifest, SaveSnapshot | object store, both locks, catalogue | five commits with a crash or another build between any two |
| Git mirrors, `internal/gitstore` | mirror, staging, full and backup repositories, worktrees | Sync, replacePartialMirror, retries, CreateWorktree, CleanupStaleWorktrees | repository lock, builds, ref catalogue | network failures, kills between Git commands, in-place update under readers |
| ref catalogue, `internal/store/catalog.go` | `catalog.sqlite`: sources, refs, snapshots | Seed, PublishRef, SaveSnapshot, Resolve | written by sync and build, read by queries | refs of different moments |
| init and source sync, `internal/app/lifecycle.go`, `wowdoc.go` | `ready.json`, the two pools of a command | runSourceSyncJobs, PublishRef, runInitJobs | everything above | one job fails, others go on; deadline; reruns beside other commands |
| clean, uninstall | none of their own | removal of `tmp/` or of the home | staging packs of running builds | deletes what is in use |
| query layer, `internal/query`, `internal/app/context.go` | what one command has read: the row of the snapshot, the database it opened | selectSnapshot, openBranch, ensureReady, Search, Inspect, Diff, LookupCompatibility | catalogue, branch databases of its generation | select, open and read are three steps; other programs build and publish between them |
| validator, `internal/validator`, `internal/app/validation.go` | the reading stack, the files and diagnostics of a closure; the results of the targets | BuildClosure, Analyze, Validate, MergeMatrix | query layer (one snapshot per target) | cyclic, duplicate, linked and torn files; merging of verdicts |
| parsers, build interface detection | none | text to symbols; evidence to a version | called by workers | none that a model checker reaches |
| npm installer, `scripts/*.mjs` | cached archive, part file, lock directory | download, resume, verify, install | shared by concurrent installs | retries, resume, stale lock |
| static source catalogue, layout, schema, result envelope, Git installer, front end | constants | lookups, output | | none |

What makes each of them correct:

* object store: an index row always leads to a segment that holds the record;
  one location per object; nothing published changes; what a build has
  published it can read back.
* locks: two holders exclude each other; a lock of a dead process can be
  taken over; nobody waits for good.
* pipeline: all files of a commit are published or none; no send on a closed
  channel; Build returns and its goroutines end.
* snapshot build: a ready snapshot has all files of its commit (the code holds
  this only while the context of the build lives), each leads to a
  content with its objects; search documents are stored once and indexed
  completely; only a ready snapshot is listed; a build that is tried again
  succeeds.
* mirrors: only a verified repository is activated; there is always a complete
  copy; what is published was fetched by this command or later; a
  synchronisation that is repeated succeeds.
* init and source sync: no source, product or ref is lost between the pools;
  success means that everything asked for is published and listed; `ready.json`
  is written only when every job succeeded; a command that is run again succeeds.
* query: a request is answered with all of one ready snapshot, as the schema
  generation of its program reads it; what was built is served; the next steps
  of an error lead to an answer.
* validator: the closure is what the game loads, each file once and in load
  order; every reference has one answer; verdict and summary of a matrix say
  what the targets establish, and no target hides another.
* downloader: an installed file has the expected checksum; concurrent installs
  do not read a part file.

## Modules

    ObjectCatalog  <--implements--  PackStore      MCPackStore      PackStore_proofs
                                    FileLock       MCFileLock       FileLock_proofs
                                    BuildPipeline  MCBuildPipeline  BuildPipeline_proofs
    SnapshotStore  <--implements--  SnapshotBuild  MCSnapshotBuild  SnapshotBuild_proofs
                                    MirrorSync     MCMirrorSync     MirrorSync_proofs
                                    DataCommands   MCDataCommands   DataCommands_proofs
                                    SnapshotQuery  MCSnapshotQuery  SnapshotQuery_proofs
                 LoadClosure <--    ValidateMatrix MCValidateMatrix ValidateMatrix_proofs

`ObjectCatalog` and `SnapshotStore` are the abstract specifications: a catalogue
that gives each key one location for good, in atomic batches; and a store in which
the files of a snapshot become visible all at once, the whole commit unless the
build was cut short, and never change once the snapshot is listed.
The detailed modules implement them under the mappings `Catalog` and `Store`.

A component is modelled once in detail and appears in the modules around it as
far as it matters there. The pipeline abstracts what a worker finds out;
`SnapshotBuild` abstracts the pipeline to one file at a time, all of them while the
context lives and any part of them once it has ended (which `BuildPipeline`
justifies: `CompleteUnlessCancelled`, and the counterexample to `PublishesAll`),
and the publication of objects to one step (which `PackStore`
justifies: `CatalogSpec`). A lock is one variable in `SnapshotBuild` and
`MirrorSync`; that it may be lost to a waiter after its stale age, as `FileLock`
shows, is `MayOutlive` there for the content lock, whose stale age is ten
minutes. The repository and index locks have a stale age of 24 hours and are taken
over only from processes that died (`Abandoned`): `init` runs for at most 24 hours
and `source sync` for 30 minutes. `index build` has no deadline
(`wowdoc.go:283` passes the context of the command); one that is still at work
after 24 hours may lose its index lock, which the models leave out.

### PackStore

`phase[t]` is how far a build task is: `new`, `open` (staging file exists),
`closed` (Publish closed it), `mutex` (holds `catalogMu`), `tx` (after BEGIN
IMMEDIATE and the SELECTs), `renamed`, `published`, or one of the ways to fail.
`records`, `local` and `unique` are the maps of the code; `packs` is what is in
`packs/`, `rows` the committed index, `cache` the entry of `catalogCache` of a
process. `BeginTx` is BEGIN IMMEDIATE with the SELECTs under it; `RenamePack`
compacts the staging file and renames it; `CommitIndex` is the COMMIT and the
update of the cache. `PublishFails` is an error return at any step after the
staging file was closed, `RenameMissing` the one when `clean` took it away.

### FileLock

Acquire is three system calls: `StatStale`/`StatFresh`, `RemoveStale`, `Create`.
Time is the age of the file on disk, the time since an owner got the lock and
the time since a waiter set its deadline, each saturating one unit above the
limit it is compared with. A tick needs every holder below `HoldLimit` and,
like every step of a process that runs, is small against the limits.

### BuildPipeline

Unbuffered channels make sending and receiving one step. `errCh` has capacity
one and the code sends without blocking; the model keeps whether it is full.
`cancelled` is `ctx.Done()`.

### SnapshotBuild

`pc[b]` follows Build: index lock taken, branch opened, collecting, objects
stored, content lock taken, content committed, branch committed, manifest
written. A batch entry is `<<path, blob, content, facts>>`; `content` is the blob
itself, or `Lost` when PutSource failed and the code recorded an empty hash.
`facts[c]` counts how often the search documents of a content were inserted,
`fts[p]` which contents the full-text index of a product has and with how many
documents. Any step may fail (`Fail`) or be the last of its process (`Crash`);
failures are bounded by `MaxFailures`, and a build may be started again at any
time. The context of a build in `Timed` (those of `init` have a deadline) may end
until its files are collected (`EndContext`, `ended`): then listing the files fails,
and collecting stops wherever it is; `PublishObjects` and everything after it looks
at errors only and goes on with the files it has got. `cut` is a history variable:
the snapshots that such a build has published.

### MirrorSync

Four places on disk: the mirror, the staging repository of a first
synchronisation, the staging repository of a full mirror that replaces a partial
one, and the backup of the latter. A repository records whether it exists, is
bare, has a remote, is partial, is sound, and of which version of the remote its
heads and tags are. Every Git command is a step; a killed or failed one leaves
what it has written. After Sync, `ReadHead`, `ReadTags` and `PublishRef` run
without the lock, as in `syncSources`. Builds register worktrees without a lock.

### DataCommands

`init` and `source sync` of several processes. `stage[c]` is `syncing` (the pool
of runSourceSyncJobs), `publishing` (the serial loop of Head, ReachableTags and
PublishRef), `building` (the pool of runInitJobs, `init` only) and the result.
`cmd[c]` is what the process has in memory: `queue` and `busy` are the jobs that
wait for a worker and those a worker has, `plan` the head and the latest tag it
read for a product, `built` the refs it has built, `late` the builds it had in hand
when its deadline passed. `mirror`, `refs`, `indexed` (snapshots with an index and a
manifest), `listed`, `stranded` and `readyFile` are on disk and shared. A
synchronisation or a build is one step here; how it fails or is refused comes from
`MirrorSync` and `SnapshotBuild`: a repository in another command's hands refuses, an
index lock may, anything may fail within `MaxFailures`, and everything may once the
deadline has passed. A build in hand at that moment may end as a part of its commit
(`cut`), which is ready, is listed, and counts as built from then on; one that begins
later fails. A synchronisation that is stopped, by a failure or with its process,
may leave a repository that refuses every later one (`stranded`): a staging
repository without a remote (`git.go:213`, `:222`) or one that `fsck` refuses
(`git.go:169`), a worktree left in a partial mirror (`git.go:255`). `ready.json` is
opened, which truncates it (`OpenReady`, stage `writing`), and then written; a
failure or a crash in between leaves it torn. A lock left by a dead command counts
as taken over by the time the command is run again.

### LoadClosure and ValidateMatrix

`LoadClosure` is BuildClosure as a state machine: `stack` holds the files that are
being read and the reference each is at, `files` and `loadedBy` the result. Each
action takes the next reference of the innermost file: it is rejected, known
(duplicate, or a cycle when the file is on the stack), a Lua file, or an XML file
that is entered. A file is an element of a small set and its content a
sequence of references; a symbolic link to a parent directory gives a file a new
path each time it is followed, until the operating system refuses. The links are
only counted: with two links to the root the code has a path for each order of
following them, exponentially many, where the model has one; and references in
which `..` follows a link, which `path.Clean` removes (`closure.go:280`), are left
out. Neither matters to the properties, the former to the time the code takes.
The reference
definition is independent of the order of reading: the least set of paths that
contains what its members name.

`ValidateMatrix` extends it by the command: for each target it selects a snapshot,
builds the closure, computes the result (`ResultWith`: Analyze, the look-ups of
LookupCompatibility and their order) and, after the last target, the merge
(`MergeMatrix`, by the last result of an identifier, as the maps of the code do).
What a Lua or XML file uses is a constant, since finding it is a walk over a
syntax tree; what the snapshot says of a name is a function. A use is the pair of
the number of its file in load order and its number in the file, and the facts of
a result are a function on such pairs: of several facts with one name the code
keeps the last, which is the one with the largest pair (`Last`). A TOC file uses
only its Interface number, so its uses are assumed to be of that kind. Findings are
merged by `MergeKey`: message, file and line, as diagnosticKey has them. A position
is a line of its own but for the files `OneLine`; the message for a reference that
leads to no file (`MessageOf`) does not name it. Which of several findings with one
key the summary keeps is left out.

### SnapshotQuery

Commands of several processes on one catalogue, each with the generation of the
program that started it. A query is `Select` (Resolve and the row of the
catalogue), `OpenBranchRead`, `EnsureReady` and `Read`; `Load` is Diff, which goes
without EnsureReady. A build is `ResolveBuild`, the two steps of OpenBranch, the
branch commit and SaveSnapshot; a sync reads head and tags after its fetch. `rows`
is the `db_path` of a snapshot, which every build of another generation replaces.
`Upgrade` installs a newer program while commands of the older one run. Agents
are the environment: they do what `skill/SKILL.md:13` and `:14` and the next steps
of an error tell them. `promised` and `built` are history variables: what had been
reported as built when a command began.

## Runs

Bounds are those at which the interesting cases happen: two of what competes,
a third where a pair might be too symmetric, two objects or files so that one can
be shared and the other not, and as many failures as a second one can meet what
the first has left.

| run | question | states |
|---|---|---|
| pack_two_procs | Is the index sound with three tasks in two processes (two share a process and its cache), two objects, crashes, failures and `clean` at any step, does it implement the catalogue, and does every Publish return? | 1.01M |
| lock_files | Three owners, two of which poll, holders that finish within the stale age, one crash: do lock files exclude while nobody has died, is an abandoned lock taken over? | 239k |
| build_pipeline | Three workers, four entries, failing lookups, a context that ends at any moment: all or nothing while it lives, no send on a closed channel, Build returns, its goroutines end? | 10k |
| snapshot_safety | Two builds of two snapshots that share files, writes that are lost, a content lock that is outlived, a context that ends, a failure anywhere: are ready snapshots complete unless the context had ended, facts stored once, full text complete, listed snapshots ready? | 2.30M |
| snapshot_lossless | Two products, a malformed file, two failures or ended contexts, no lost writes: does building implement the snapshot store, is what it lists readable, and is a snapshot that is tried again listed? | 155k |
| mirror | Two synchronisers, one build, two attempts, two versions of the remote, two failures, damage and stranding possible: are activated repositories verified, is a copy kept, are published refs fresh, does Sync return whatever the network does, does repeating the command succeed when the network works now and then and nothing was damaged, stranded or left in use? | 416k |
| data_commands | An `init` of two products of one source that is repeated, next to another `init` or a `source sync` that also takes a second source; two commits, one failure, expired deadline or crash: nothing forgotten, success complete (whole snapshots as long as no deadline has passed), budget kept, and does the repeated `init` succeed, whatever the first attempts left, when no stopped sync has left a repository that refuses all others? | 1.33M |
| validate_matrix | One TOC and two XML files that refer to each other in every way (two references each, one of them through a link, two torn files), and matrices of up to two targets over two TOC files and four snapshots: is the closure what the game loads and in its order, is every reference answered, are cycles found, are verdict and summary exact (one XML file stands on one line), does the command end? | 145k |
| queries | One agent and one other user, two commits, two schema generations, sync with two tags and init with one: are answers exact, is what was built served, are tags not older than the head, does the agent get its answer? | 2.94M |

Three more runs (`build_cancelled`, `snapshot_lost`, `mirror_stranded`) are
counterexamples, see below. Deadlock is checked in the runs whose system has no
final state (locks, snapshots, mirrors, queries); tasks of a pack store, a single
Build, the data commands and a matrix end, hence `CHECK_DEADLOCK FALSE` there.

The smaller dimensions were chosen by what they lose: one process would hide
the stale index cache, one version of the remote the refs of two moments, one commit the tags that are
newer than a head. The two builds of `snapshot_safety` are of one product, so that
they meet in one branch database; that the full-text index of a product is complete
for contents another product stored first is checked by no run and is the theorem
`FullTextIsComplete`. The products of `data_commands` share their source, so that
two builds of one `init` use one mirror; an `init` of two sources is covered by the
theorems `PoolsForgetNothing` and `SuccessIsDone`, which are about any number of
sources and products. A second product for its second command multiplies the
states by seven and adds no new kind of contention. Two
generations are enough for a row of the catalogue that names a foreign
database, and an init that publishes one tag where a sync publishes two for a tag
that is withdrawn under an agent. Two XML files are enough for a cycle that is
not a self-reference, and a second path to a file through one link for a file
that is loaded twice.

Each property has a mutant, a changed copy of one action (`...Early`, `...Late`,
`...Forgotten`) that stands in the module before the definition it replaces, and
that the run of the property refutes.

### Fairness

* `BuildPipeline`, `PackStore`, `FileLock`: weak fairness of each goroutine or
  process. The scheduler runs what can run, `catalogMu` and BEGIN IMMEDIATE
  (with its busy timeout) are released by whoever holds them. Locks need time to
  pass (`Tick`) and holders to finish.
* `SnapshotBuild`: weak fairness of a running build, strong fairness of the
  steps that wait for a lock that others take in turn (the code polls or the
  user runs the command again), and of a new build of a snapshot that is not yet
  listed (the user repeats `init`). Failures are finite.
* `MirrorSync`: `FairSpec` only says that a command that runs goes on.
  `RetrySpec` adds that the command is run again and that the network works now
  and then: a fetch that is tried infinitely often succeeds infinitely often.
  `SyncReturns` needs only the former, so nothing is assumed about the network
  there; `RetriesSucceed` has the latter as its premise.
* `ValidateMatrix`: the command is sequential and its steps go on.
* `SnapshotQuery`: only the commands of an agent go on, and it takes the next step
  it was told. Nothing is assumed about the others: they may stop anywhere and
  for good.
* `DataCommands`: a command that runs goes on, and a command of `Repeated` is run
  again when it failed. Failures are finite, except those that follow from an
  expired deadline or from another command in the way.

## Where the code and its documents disagree

Three disagreements have a run that TLC refutes and a finding in `PROJECT.json`
with the lines.

| run | what happens |
|---|---|
| build_cancelled | When the context ends, workers drop entries without an error; Build publishes a partial batch as ready. (`SnapshotBuild` and `DataCommands` go on with it: such a snapshot is listed, reused by every later build, and an `init` that had no job waiting reports success.) |
| snapshot_lost | PutSource fails (disk full); the file is recorded as a diagnostic with an empty hash and the snapshot becomes ready. |
| mirror_stranded | A command that stops between `git init --bare` and `git remote add` leaves a staging repository in which every later `remote set-url` fails. |

The models also contain, without a run of their own, the steps of these; the
properties above are stated so that they hold in spite of them:

* Two processes publish the same object (`store.go:357`, `:407`). The second drops
  its copy as a duplicate and does not add the first one's row to the cache it
  loaded earlier: it cannot read back what it has just published. Hence
  `OwnProcessReadable` excepts rows of other processes.
* `clean --yes` (`lifecycle.go:356`) removes the staging pack of a build that runs;
  spec.md:66 speaks of expired ones. The build fails at the rename
  (`RenameMissing`) and publishes nothing.
* A segment renamed into `packs/` before its rows were committed is never
  reclaimed; spec.md:47 says that `clean` can.
* Two processes find the same stale lock file (`lock.go:19`). The second removes
  the file the first has created meanwhile, and both hold the lock. Hence
  `MutualExclusion` speaks of states in which nobody has died.
* A partial mirror is replaced by two renames with no mirror in between
  (`git.go:278`); spec.md:35 calls the switch atomic. `CopyKept` is what remains.
* A build that adds its worktree after the check for active worktrees
  (`git.go:251`) has its repository moved away.
* Head and tags are read after the lock is released (`wowdoc.go:183`), while
  another command may be fetching: one round publishes refs of two moments, and
  a slower command may replace newer refs by older ones.
* `os.WriteFile` truncates `ready.json` in place (`lifecycle.go:137`): an `init` that
  fails or dies there leaves a torn file, also where a whole one was
  (`WriteReadyFails`, `Crash`). wowdoc-cli/spec.md:40 asks for an atomic write.
  Hence `SuccessMeansDone` says that only a successful `init` completes the file,
  not that nothing else changes it.
* `ready.json` is written by an `init` of a single product too and is read by
  nothing: `Layout.Initialized` looks for `catalog.sqlite`. The older
  specifications under `docs/comet` make it the gate of all queries.
* diagnosticKey lacks the name (`matrix.go:202`), and load() reports column 0 and a
  constant message (`closure.go:368`): of two missing files named on one line of an
  XML file the summary shows one. addon-validation/spec.md:72 counts the name to the
  key. Hence `SummaryCovers` speaks of merge keys.
* mergeFacts keys a name by its group only (`matrix.go`), although
  addon-validation/spec.md:72 counts the kind to the key: of a name that is both a
  template and a Mixin the summary shows the last. `SummaryExact` is about names
  of one kind. A difference shows `exists: false` for a target that never used the
  name.
* Analyze reads neither Mixin attributes nor the Lua of script handlers from XML
  files, which addon-validation/spec.md:48 lists. It does not matter to the merge,
  which takes what is found as given.
* Diff does not call ensureReady (wowdoc-cli/spec.md:51): a snapshot that only
  another generation has built is compared as empty. Hence the premise of
  `DiffExact`.
* A build that stops between the creation of a branch database and its tables
  leaves a file in which every query fails with a plain SQLite error and without
  next steps, until the next build. `AgentAnswered` assumes that this does not
  last.
* `init` publishes fewer tags than `source sync`: a tag an agent has read may be
  gone when it builds. It falls back to the latest commit, as it is told.

A property whose promise needs more than the code gives says so in its premise
rather than in the constants of the run: `RetriesSucceed` (run `mirror`) assumes
that nothing was stranded or damaged (a staging repository that fails `fsck` is
kept and never becomes sound) and that builds end (a worktree left in a partial
mirror blocks its upgrade). `RerunsFinish` excepts the same (`stranded`).
`SuccessMeansDone` promises whole snapshots only if no deadline has passed, and
`ReadyComplete` excepts the builds whose context had ended. `snapshot_lossless` has
no lost write. `AgentAnswered` is about a world in which fetches do not fail and no
index lock of a dead build is in the way (up to 24 hours); both are left out of
`SnapshotQuery`. `GoroutinesEnd` is about contexts that end and builds without errors:
after an error the feeder waits for a receiver until the context ends
(`indexer.go:297`).

## Proofs

All theorems hold for any number of processes, tasks, objects, builds, snapshots,
workers, products and files, and for any bound on failures. They use only the
named assumptions about the constants in the modules (`OwnerAssumption`,
`LockAssumption`, `NobodyAssumption`, `BuildAssumption`, `DistinctAssumption`,
`PipelineAssumption`, `CommandAssumption`, `QueryAssumption`, `MirrorAssumption`, `ClosureAssumption`,
`ClosureDistinct`, `NoTocAssumption`, `MatrixAssumption`).

* `PackStore_proofs`. `PackInductive` is the inductive invariant. The
  properties alone are not inductive: that the INSERTs of a transaction meet no
  conflict needs that at most one task is in a transaction (`OneTx`); that a row
  leads to its segment needs that a segment has no row before its commit and
  does not change after (`SegmentFollowsPhase`); that everything put gets
  indexed needs where each key is at each phase (`LocalAccounted`). From it
  follow the invariants, `WriteOnce` and the refinement `Spec => CatalogSpec`.
  `OwnProcessReadable` needs that a loaded cache has all rows of its own process
  (`OwnRowsCached`).
* `FileLock_proofs`. If `HoldLimit <= StaleAfter`, mutual exclusion holds as long
  as nobody has crashed: nobody ever reaches `os.Remove` and the file on disk
  belongs to the holder and is as old as its hold (`PromptInv`).
* `SnapshotBuild_proofs`. `BuildInductive` relates the batch of each running
  build to what is on disk at its stage: a batch holds files of
  the commit, and all of them once collecting is over and its context has not ended;
  its objects are staged or indexed, its contents exist once the content
  transaction committed, its snapshot is ready once the branch transaction
  committed. It does not use the exclusion of the content lock, since a holder
  may be outlived; it is the transaction that makes facts unique. With
  `MayLose = FALSE` follow `ReadyReadable` and the refinement `Spec => StoreSpec`:
  an edition of a snapshot is the batch of one build (`BatchIsEdition`), and nobody
  builds a snapshot that has its manifest, hence none that is listed.

* `BuildPipeline_proofs`. That a build is complete is not inductive: it needs that
  what was handed out is collected or in some worker's hands (`Accounted`), that
  a worker has an entry exactly while it works (`HasEntry`), and that feeder and
  workers end early only for a reason (`EndsForAReason`). When `results` is closed
  no hands are left, the feeder is done, and so everything is collected.
* `DataCommands_proofs`. The invariant has one part per stage, each of which says
  of every selected product where it is: its source open, synchronised or
  reported; then the product open or published; then open, built or reported.
  What a process counts as done is in a mirror or in the catalogue (`Done`), and
  the steps of other processes keep that because mirrors, refs and the catalogue
  only grow (`Frame`). A snapshot becomes a part of its commit only in a command whose
  deadline has passed (`Lapsing`). From it follow `NothingForgotten` and `SuccessMeansDone`;
  `WithinBudget` needs arithmetic besides (`Shares`).
* `MirrorSync_proofs`. The invariant says what is on disk whoever works on it
  (`Disk`: a mirror was complete when it was activated, and a partial one, which
  nobody fetches into, is still sound), what the holder of the lock has achieved
  in the repository it fetches into and why that is the right one (`Writes`), and
  what a command that gave up the lock can rely on (`Reads`: a mirror that is no
  longer partial stays in its place and its refs only become newer, `MirrorKept`).
  The last part is why reading head and tags without the lock is safe enough for
  `PublishesFresh`; `ActivatedVerified` and `CopyKept` follow step by step
  (`CopiesStep`), a failed second rename and a backup that is moved back included.
* `SnapshotQuery_proofs`. What a command has read is compared with what is there
  when it ends, so the invariant has two halves. `Coherent`: what was reported as
  built is ready in its generation, has a row in the catalogue, and lies in a
  database file that exists; the published tags are those of a head no older
  than the published one. `Sound`, of each command: what it has found out so far
  holds, in its own generation (a snapshot it is about to read is ready there, the
  head it will publish is no newer than the mirror, what was promised when it
  started is built). Other processes cannot make that false because databases,
  rows and the mirror only grow (`Grows`, `SoundStays`). From it follow `AnswersExact`,
  `DiffExact`, `BuiltIsServed` and `TagsNotOlderThanHead`.
* `ValidateMatrix_proofs`, first about `LoadClosure`, for any files, contents, depth
  of inclusion and number of links. The properties speak of the end of the
  reading; the invariant (`ClosureInv`) says the same of the references that were
  read so far, and `ToBeRead` (the file is on the stack, before that reference)
  tells which these are.
  - `ClosureIsExact`: what is being read was loaded (`Rooted`), so a loaded file is
    in every closed set; and what a file names is loaded or to be read (`Covered`).
  - `ReferencesAreAnswered`: a reference has no answer while it is to be read and
    one afterwards (`Answers`). That it is answered once needs that a file is on
    the stack at most once (`Nested`) and that none is read again.
  - `CyclesAreFound`: a reference that is not reported as circular leads to a file
    that was read to its end before, or to the one above it on the stack
    (`Inwards`); so the files that are done have no cycle without the reported
    ones (`DoneAcyclic`). The other half is that each file on the stack reaches
    those above it (`Downwards`), so that a reference from the top into the stack
    does close a cycle.
  - `LoadOrderHolds`: `Way` is well-defined, since the first reference to a file
    never changes and stands in a file that was loaded before; all ways to
    references that were read come before the way to the one at the top of the
    stack (`OrderInv`), which moves on with each step (`TopMoves`).
  - `ReadingComesToAnEnd`: the action property `ReadingEnds`. `Left`, twice the number
    of references that are to be read and the depth of the stack, falls with each
    step (`LeftFalls`), so that a closure has at most that many. It is a number
    because there are finitely many paths (`PathsAreFinite`), which is where
    `MaxLinks` is needed: without it a link to a parent could be followed for
    ever.

  Then about the command, for any number of targets, uses and snapshots.
  `MatrixInvariant` also shows that the command implements `LoadClosure`
  (`MatrixSpec => Spec`), so that all of the above holds in it (`ClosureInMatrix`).
  A result is right (`Right`) when its files are those that the TOC reaches, it is
  valid exactly when these and the TOC are fine with its snapshot, and its facts
  are what the snapshot says of the uses in these files. `ResultIsRight` derives
  this from `ClosureInv` when a closure is finished; `MatrixInv` keeps it for all
  results, with identifiers that differ; the merge
  keys of its findings do not change, since the directory does not. `VerdictIsExact`, `SummaryIsExact` and
  `SummaryCoversAll` follow; the second needs that a largest pair exists in every
  finite set of uses (`LastIsIn`, by well-founded descent on subsets).

Proved, and in no run of their own because the inductive invariants contain them
or they follow from a property that is run: `PackInductive`, `BuildInductive`,
`WriteOnce`, `ContentBacked`, and the type invariants of all proved modules.
`ReadingEnds` is proved and stated beside its proof only; `MatrixReturns` is the run's
property for the same hazard.

Every invariant and every action property that a run checks is stated by a
theorem. Liveness under fairness
is out of the prover's reach and is only model-checked (`MatrixReturns` too, whose
load closures end by `ReadingComesToAnEnd`).

## Not modelled

Record formats, hashes, compression, SQL text, output and flags are data. Text
processing is pure and has no state: parsers, full-text search, ranking and
excerpts, the walk over Lua and XML trees, interface detection. `uninstall` and
the Git installer are sequences of calls without state of their own. Legacy
single-object files are left out of the object store, schema generations out of
`SnapshotBuild` (they are in `SnapshotQuery`). The snapshot of a `--source-path`
directory is named by its path, and nothing is promised when its content
changes. The installer (`scripts/*.mjs`) runs before the program exists and
shares no state with it; its lock directory follows the scheme of
`internal/lock`. Worktree leases have no time in `MirrorSync`: only worktrees of
dead builds are removed.

## Plan

1. Proofs: measures like `Left` for the other components that must come to an end
   (pipeline, synchronisation), as far as failures are bounded.
2. `Downloader`: lock directory, resume, retries, checksum.
3. Leases of worktrees with time, in `MirrorSync`.
