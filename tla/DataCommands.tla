------------------------------ MODULE DataCommands ------------------------------
(***************************************************************************)
(* The commands that fill the data directory: `wowdoc init` (internal/app/ *)
(* lifecycle.go) and `wowdoc source sync` (internal/app/wowdoc.go).        *)
(*                                                                         *)
(* Both synchronise the mirrors of the selected sources in a pool of       *)
(* workers and then publish, product by product, the refs they read from   *)
(* the mirrors.  init goes on to build the baseline of every product in a  *)
(* second pool, one job per product, and writes ready.json in place when   *)
(* nothing failed.  Commands of several processes run at the same time on  *)
(* the same mirrors, catalogue and indexes; one that failed or died is run *)
(* again.                                                                  *)
(*                                                                         *)
(* Abstractions.  The commits of a branch are numbered and each has a tag; *)
(* the head of a mirror is its latest commit.  Synchronising a source is   *)
(* MirrorSync, building a commit SnapshotBuild: here each is one step that *)
(* succeeds or fails.  A sync that is stopped may leave a repository that  *)
(* refuses every later one (mirror_stranded, and what only a look at the   *)
(* damage tells: a staging repository that fsck refuses, a worktree left   *)
(* in a partial mirror).  A build in hand when the deadline passes may     *)
(* publish the files it has got.  The order in which sources and products  *)
(* are taken is left open.                                                 *)
(***************************************************************************)
EXTENDS Integers, FiniteSets, FiniteSetsExt

CONSTANTS Commands,     \* processes
          KindsOf,      \* what a process may run: "init", "sync"
          Repeated,     \* those whose command the user runs again
          Sources,
          Products,
          SourceOf,     \* the source of a product
          SelectionsOf, \* sets of products a process calls it for
          Budget,       \* initWorkerBudget
          InitTags,     \* --hot-tags of init
          SyncTags,     \* tags source sync asks for (50)
          MaxCommit,    \* bound on the commits of a branch
          MaxFailures   \* bound on failures, expired deadlines and crashes

ASSUME CommandAssumption ==
  /\ KindsOf \in [Commands -> SUBSET {"init", "sync"}]
  /\ Repeated \subseteq Commands
  /\ IsFiniteSet(Products)
  /\ SourceOf \in [Products -> Sources]
  /\ SelectionsOf \in [Commands -> SUBSET SUBSET Products]
  /\ {Budget, InitTags, SyncTags, MaxCommit} \subseteq Nat \ {0}
  /\ MaxFailures \in Nat

Cancelled == "operation_cancelled"

ASSUME CancelledAssumption == Cancelled \notin Sources \cup Products

VARIABLES
  kind,       \* what each process runs
  stage,      \* how far it is
  cmd,        \* what it has in memory, see Memory
  mirror,     \* latest commit of each mirror (0: no mirror)
  refs,       \* catalogue: head (0: none) and tags of each product
  indexed,    \* snapshots with an index and a manifest: <<product, commit>>
  cut,        \* those of them that lack files of their commit
  listed,     \* catalogue: snapshots
  stranded,   \* sources with a repository that refuses every sync
  readyFile,  \* state/ready.json
  lapsed,     \* history: some deadline has passed
  failures    \* failures so far

dataVars == <<mirror, refs, indexed, cut, listed>>
diskVars == <<dataVars, stranded, readyFile, lapsed>>
vars     == <<kind, stage, cmd, diskVars, failures>>

Stages == {"idle", "syncing", "publishing", "building", "writing", "succeeded", "failed"}

(* selected: the products the command was called for.  queue, busy:        *)
(* sources, later products, that no worker has taken yet and those that    *)
(* workers have in hand.  synced: sources synchronised.  failed: sources,  *)
(* products and Cancelled.  plan: the head and the latest tag read for a   *)
(* product (0: not yet).  built: commits built.  expired: its deadline has *)
(* passed.  late: products whose build was in hand then.                   *)
Memory ==
  [selected : SUBSET Products,
   queue    : SUBSET (Sources \cup Products),
   busy     : SUBSET (Sources \cup Products),
   synced   : SUBSET Sources,
   failed   : SUBSET (Sources \cup Products \cup {Cancelled}),
   plan     : [Products -> [head : 0 .. MaxCommit, tag : 0 .. MaxCommit]],
   built    : [Products -> SUBSET (1 .. MaxCommit)],
   expired  : BOOLEAN,
   late     : SUBSET Products]

Fresh ==
  [selected |-> {}, queue |-> {}, busy |-> {}, synced |-> {}, failed |-> {},
   plan |-> [p \in Products |-> [head |-> 0, tag |-> 0]],
   built |-> [p \in Products |-> {}], expired |-> FALSE,
   late |-> {}]

Init ==
  /\ kind \in [Commands -> {"init", "sync"}]
  /\ \A c \in Commands : kind[c] \in KindsOf[c]
  /\ stage = [c \in Commands |-> "idle"]
  /\ cmd = [c \in Commands |-> Fresh]
  /\ mirror = [s \in Sources |-> 0]
  /\ refs = [p \in Products |-> [head |-> 0, tags |-> {}]]
  /\ indexed = {}
  /\ cut = {}
  /\ listed = {}
  /\ stranded = {}
  /\ readyFile = "absent"
  /\ lapsed = FALSE
  /\ failures = 0

Idle(c) == cmd[c].queue = {} /\ cmd[c].busy = {}

(* All workers of a stage are through; the next one has xs to do.          *)
Advance(c, from, to, xs) ==
  /\ stage[c] = from
  /\ Idle(c)
  /\ stage' = [stage EXCEPT ![c] = to]
  /\ cmd' = [cmd EXCEPT ![c].queue = xs]
  /\ UNCHANGED <<kind, diskVars, failures>>

(* A command that ends leaves only what is on disk.                        *)
End(c, from, to) ==
  /\ stage[c] = from
  /\ stage' = [stage EXCEPT ![c] = to]
  /\ cmd' = [cmd EXCEPT ![c] = Fresh]
  /\ UNCHANGED <<kind, dataVars, lapsed>>

Working(c, from) == stage[c] = from /\ UNCHANGED <<kind, stage>>

(* Whatever a command does may fail at any time, within the bound, and     *)
(* does so without counting once its context is done.                      *)
Trouble(c) ==
  \/ cmd[c].expired /\ UNCHANGED failures
  \/ failures < MaxFailures /\ failures' = failures + 1

(* The tags ReachableTags returns for a branch at n, and the commits a job *)
(* of init builds: the head and those tags.                                *)
TagLimit(c) == IF kind[c] = "init" THEN InitTags ELSE SyncTags
LatestTags(c, n) == {k \in 1 .. n : n - k < TagLimit(c)}
PlannedTags(c, p) == LatestTags(c, cmd[c].plan[p].tag)
Planned(c) == {p \in Products : cmd[c].plan[p].head # 0}
JobRefs(c, p) == {cmd[c].plan[p].head} \cup PlannedTags(c, p)

-----------------------------------------------------------------------------
(* Synchronising the sources.                                              *)

(* init takes the sources that have a matching product, source sync all it *)
(* was asked for.                                                          *)
Begin(c) ==
  /\ stage[c] = "idle" \/ (stage[c] = "failed" /\ c \in Repeated)
  /\ stage' = [stage EXCEPT ![c] = "syncing"]
  /\ \E products \in SelectionsOf[c], sources \in {Sources} \cup {{s} : s \in Sources} :
       LET matching == {p \in products : SourceOf[p] \in sources}
       IN  /\ matching # {}
           /\ cmd' = [cmd EXCEPT ![c].selected = matching,
                                 ![c].queue = IF kind[c] = "init"
                                              THEN {SourceOf[p] : p \in matching}
                                              ELSE sources]
  /\ UNCHANGED <<kind, diskVars, failures>>

(* sourceSyncWorkers: at most three, and no more than there are sources.   *)
SourceWorkers(c) == IF kind[c] = "init" THEN Min({Budget, 3}) ELSE 3

CanTake(c, x, workers) == x \in cmd[c].queue /\ Cardinality(cmd[c].busy) < workers

(* A worker takes a source and gets the repository lock, or is told that   *)
(* another process owns it (operation_in_progress).                        *)
StartSync(c, s) ==
  /\ Working(c, "syncing")
  /\ CanTake(c, s, SourceWorkers(c))
  /\ cmd' = [cmd EXCEPT ![c].queue = @ \ {s},
                        ![c].busy = IF \E d \in Commands : s \in cmd[d].busy
                                    THEN @ ELSE @ \cup {s},
                        ![c].failed = IF \E d \in Commands : s \in cmd[d].busy
                                      THEN @ \cup {s} ELSE @]
  /\ UNCHANGED <<diskVars, failures>>

(* The mirror has what the remote had at some moment of the fetch.         *)
SyncDone(c, s) ==
  /\ Working(c, "syncing")
  /\ s \in cmd[c].busy
  /\ s \notin stranded
  /\ \E n \in Max({mirror[s], 1}) .. MaxCommit : mirror' = [mirror EXCEPT ![s] = n]
  /\ cmd' = [cmd EXCEPT ![c].busy = @ \ {s}, ![c].synced = @ \cup {s}]
  /\ UNCHANGED <<refs, indexed, cut, listed, stranded, readyFile, lapsed, failures>>

(* What a sync that is stopped leaves behind may refuse every later one,   *)
(* and then it does.                                                       *)
SyncTrouble(c, s) ==
  \/ s \in stranded /\ UNCHANGED <<stranded, failures>>
  \/ Trouble(c) /\ stranded' \in {stranded, stranded \cup {s}}

(* Mutant: the failure is not recorded.                                    *)
SyncFailsUnreported(c, s) ==
  /\ Working(c, "syncing")
  /\ s \in cmd[c].busy
  /\ SyncTrouble(c, s)
  /\ cmd' = [cmd EXCEPT ![c].busy = @ \ {s}]
  /\ UNCHANGED <<dataVars, readyFile, lapsed>>

SyncFails(c, s) ==
  /\ Working(c, "syncing")
  /\ s \in cmd[c].busy
  /\ SyncTrouble(c, s)
  /\ cmd' = [cmd EXCEPT ![c].busy = @ \ {s}, ![c].failed = @ \cup {s}]
  /\ UNCHANGED <<dataVars, readyFile, lapsed>>

(* All sources are through.  init gives up when one failed, source sync    *)
(* goes on with the others.                                                *)
InitGivesUp(c) ==
  /\ Idle(c)
  /\ kind[c] = "init"
  /\ cmd[c].failed # {}
  /\ End(c, "syncing", "failed")
  /\ UNCHANGED <<stranded, readyFile, failures>>

EndSync(c) ==
  /\ kind[c] = "sync" \/ cmd[c].failed = {}
  /\ Advance(c, "syncing", "publishing",
             {p \in cmd[c].selected : SourceOf[p] \in cmd[c].synced})

-----------------------------------------------------------------------------
(* Publishing the refs, one product after the other.                       *)

(* Head and ReachableTags look into the mirror one after the other, while  *)
(* another command may be updating it.                                     *)
ReadHead(c, p) ==
  /\ Working(c, "publishing")
  /\ cmd[c].busy = {}
  /\ p \in cmd[c].queue
  /\ cmd' = [cmd EXCEPT ![c].plan[p].head = mirror[SourceOf[p]],
                        ![c].queue = @ \ {p}, ![c].busy = {p}]
  /\ UNCHANGED <<diskVars, failures>>

ReadTags(c, p) ==
  /\ Working(c, "publishing")
  /\ p \in cmd[c].busy
  /\ cmd[c].plan[p].tag = 0
  /\ cmd' = [cmd EXCEPT ![c].plan[p].tag = mirror[SourceOf[p]]]
  /\ UNCHANGED <<diskVars, failures>>

(* Catalog.PublishRef replaces head and tags in one transaction.           *)
PublishRef(c, p) ==
  /\ Working(c, "publishing")
  /\ p \in cmd[c].busy
  /\ cmd[c].plan[p].tag # 0
  /\ refs' = [refs EXCEPT ![p] = [head |-> cmd[c].plan[p].head, tags |-> PlannedTags(c, p)]]
  /\ cmd' = [cmd EXCEPT ![c].busy = {}]
  /\ UNCHANGED <<mirror, indexed, cut, listed, stranded, readyFile, lapsed, failures>>

(* The first error ends the command; nothing has been built.               *)
PublishFails(c) ==
  /\ Trouble(c)
  /\ End(c, "publishing", "failed")
  /\ UNCHANGED <<stranded, readyFile>>

(* source sync is through: it succeeded or reports the failed sources.     *)
EndPublish(c) ==
  /\ Idle(c)
  /\ kind[c] = "sync"
  /\ End(c, "publishing", IF cmd[c].failed = {} THEN "succeeded" ELSE "failed")
  /\ UNCHANGED <<stranded, readyFile, failures>>

BeginJobs(c) == kind[c] = "init" /\ Advance(c, "publishing", "building", Planned(c))

-----------------------------------------------------------------------------
(* Building the products.                                                  *)

(* Half the budget of parser workers, from one to four products at a time, *)
(* and what each build gets of the budget.  Mutant: all of it.             *)
BranchWorkers(c) == Min({Max({Budget \div 2, 1}), 4, Cardinality(Planned(c))})
WorkersPerBuildWhole(c) == Budget
WorkersPerBuild(c) == Max({Budget \div BranchWorkers(c), 1})

StartJob(c, p) ==
  /\ Working(c, "building")
  /\ CanTake(c, p, BranchWorkers(c))
  /\ cmd' = [cmd EXCEPT ![c].queue = @ \ {p}, ![c].busy = @ \cup {p}]
  /\ UNCHANGED <<diskVars, failures>>

(* Mutant: jobs that were not handed out are dropped without a word.       *)
StopFeedingSilently(c) ==
  /\ Working(c, "building")
  /\ cmd[c].expired /\ cmd[c].queue # {}
  /\ cmd' = [cmd EXCEPT ![c].queue = {}]
  /\ UNCHANGED <<diskVars, failures>>

(* The feeder sees ctx.Done() and hands out no more jobs.                  *)
StopFeeding(c) ==
  /\ Working(c, "building")
  /\ cmd[c].expired /\ cmd[c].queue # {}
  /\ cmd' = [cmd EXCEPT ![c].queue = {}, ![c].failed = @ \cup {Cancelled}]
  /\ UNCHANGED <<diskVars, failures>>

(* What is left of a job, the head first.                                  *)
Pending(c, p) == JobRefs(c, p) \ cmd[c].built[p]
NextRef(c, p) ==
  IF cmd[c].plan[p].head \in Pending(c, p) THEN cmd[c].plan[p].head ELSE Max(Pending(c, p))

InJob(c, p) == Working(c, "building") /\ p \in cmd[c].busy

NextSnapshot(c, p) == <<p, NextRef(c, p)>>

(* indexer.Build of the next ref, which is not there yet.  Once the        *)
(* deadline has passed no build begins, and one that was in hand may       *)
(* publish a part of its files.                                            *)
Build(c, p) ==
  /\ InJob(c, p)
  /\ Pending(c, p) # {}
  /\ NextSnapshot(c, p) \notin indexed
  /\ cmd[c].expired => p \in cmd[c].late
  /\ indexed' = indexed \cup {NextSnapshot(c, p)}
  /\ cut' \in {cut} \cup (IF cmd[c].expired THEN {cut \cup {NextSnapshot(c, p)}} ELSE {})
  /\ cmd' = [cmd EXCEPT ![c].late = @ \ {p}]
  /\ UNCHANGED <<mirror, refs, listed, stranded, readyFile, lapsed, failures>>

(* Mutant: the catalogue refuses what is listed already.                   *)
SaveSnapshotOnce(c, p) ==
  /\ InJob(c, p)
  /\ Pending(c, p) # {}
  /\ NextSnapshot(c, p) \in indexed
  /\ listed' = listed \cup {NextSnapshot(c, p)}
  /\ cmd' = IF listed' = listed
            THEN [cmd EXCEPT ![c].busy = @ \ {p}, ![c].failed = @ \cup {p}]
            ELSE [cmd EXCEPT ![c].built[p] = @ \cup {NextRef(c, p)}]
  /\ UNCHANGED <<mirror, refs, indexed, cut, stranded, readyFile, lapsed, failures>>

(* A snapshot that is there, from this build or from an earlier attempt,   *)
(* whole or not, is listed.                                                *)
SaveSnapshot(c, p) ==
  /\ InJob(c, p)
  /\ Pending(c, p) # {}
  /\ NextSnapshot(c, p) \in indexed
  /\ listed' = listed \cup {NextSnapshot(c, p)}
  /\ cmd' = [cmd EXCEPT ![c].built[p] = @ \cup {NextRef(c, p)}, ![c].late = @ \ {p}]
  /\ UNCHANGED <<mirror, refs, indexed, cut, stranded, readyFile, lapsed, failures>>

(* A build may also fail because another command is building the product   *)
(* and has the index lock of the commit.                                   *)
BuildTrouble(c, p) ==
  \/ Trouble(c)
  \/ /\ \E d \in Commands \ {c} : stage[d] = "building" /\ p \in cmd[d].busy
     /\ UNCHANGED failures

(* A failed ref ends its job; the worker takes the next one.               *)
BuildFails(c, p) ==
  /\ InJob(c, p)
  /\ Pending(c, p) # {}
  /\ BuildTrouble(c, p)
  /\ cmd' = [cmd EXCEPT ![c].busy = @ \ {p}, ![c].failed = @ \cup {p}]
  /\ UNCHANGED diskVars

(* A build that begins after the deadline fails in Entries.                *)
BuildCancelled(c, p) ==
  /\ cmd[c].expired
  /\ p \notin cmd[c].late
  /\ BuildFails(c, p)
  /\ NextSnapshot(c, p) \notin indexed

EndJob(c, p) ==
  /\ InJob(c, p)
  /\ Pending(c, p) = {}
  /\ cmd' = [cmd EXCEPT ![c].busy = @ \ {p}]
  /\ UNCHANGED <<diskVars, failures>>

ReportFailures(c) ==
  /\ Idle(c)
  /\ cmd[c].failed # {}
  /\ End(c, "building", "failed")
  /\ UNCHANGED <<stranded, readyFile, failures>>

(* os.WriteFile opens ready.json, which truncates it, and then writes.     *)
OpenReady(c) ==
  /\ stage[c] = "building"
  /\ Idle(c)
  /\ cmd[c].failed = {}
  /\ stage' = [stage EXCEPT ![c] = "writing"]
  /\ readyFile' = "torn"
  /\ UNCHANGED <<kind, cmd, dataVars, stranded, lapsed, failures>>

WriteReady(c) ==
  /\ End(c, "writing", "succeeded")
  /\ readyFile' = "written"
  /\ UNCHANGED <<stranded, failures>>

OpenReadyFails(c) ==
  /\ Idle(c)
  /\ cmd[c].failed = {}
  /\ Trouble(c)
  /\ End(c, "building", "failed")
  /\ UNCHANGED <<stranded, readyFile>>

WriteReadyFails(c) ==
  /\ Trouble(c)
  /\ End(c, "writing", "failed")
  /\ readyFile' \in {readyFile, "torn"}
  /\ UNCHANGED stranded

-----------------------------------------------------------------------------
Running(c) == stage[c] \in {"syncing", "publishing", "building", "writing"}

Strike(c) == Running(c) /\ failures < MaxFailures /\ failures' = failures + 1

(* The deadline of the command: 24 hours for init, 30 minutes for sync.    *)
Expire(c) ==
  /\ Strike(c)
  /\ ~cmd[c].expired
  /\ cmd' = [cmd EXCEPT ![c].expired = TRUE,
                        ![c].late = IF stage[c] = "building" THEN cmd[c].busy ELSE {}]
  /\ lapsed' = TRUE
  /\ UNCHANGED <<kind, stage, dataVars, stranded, readyFile>>

(* The process ends; what it has committed stays, and whatever the syncs   *)
(* it had in hand leave.                                                   *)
Crash(c) ==
  /\ Strike(c)
  /\ End(c, stage[c], "idle")
  /\ \E left \in SUBSET (IF stage[c] = "syncing" THEN cmd[c].busy ELSE {}) :
       stranded' = stranded \cup left
  /\ UNCHANGED readyFile

(* What a running command does without more trouble.                       *)
Continue(c) ==
  \/ \E s \in Sources :
       StartSync(c, s) \/ SyncDone(c, s) \/ (s \in stranded /\ SyncFails(c, s))
  \/ InitGivesUp(c) \/ EndSync(c)
  \/ \E p \in Products : ReadHead(c, p) \/ ReadTags(c, p) \/ PublishRef(c, p)
  \/ EndPublish(c) \/ BeginJobs(c)
  \/ \E p \in Products :
       StartJob(c, p) \/ Build(c, p) \/ BuildCancelled(c, p) \/ SaveSnapshot(c, p) \/ EndJob(c, p)
  \/ StopFeeding(c) \/ ReportFailures(c) \/ OpenReady(c) \/ WriteReady(c)

Next ==
  \E c \in Commands :
    \/ Begin(c) \/ Continue(c)
    \/ \E s \in Sources : SyncFails(c, s)
    \/ \E p \in Products : BuildFails(c, p)
    \/ PublishFails(c) \/ OpenReadyFails(c) \/ WriteReadyFails(c)
    \/ Expire(c) \/ Crash(c)

Spec == Init /\ [][Next]_vars

(* A command that runs goes on, and one that failed is run again ("rerun   *)
(* wowdoc init to continue incomplete branches").                          *)
FairSpec ==
  /\ Spec
  /\ \A c \in Commands : WF_vars(Continue(c))
  /\ \A c \in Repeated : WF_vars(Begin(c))

-----------------------------------------------------------------------------
(* Type invariant: stages, memories and the catalogue keep their types.    *)
TypeOK ==
  /\ kind \in [Commands -> {"init", "sync"}]
  /\ stage \in [Commands -> Stages]
  /\ cmd \in [Commands -> Memory]
  /\ mirror \in [Sources -> 0 .. MaxCommit]
  /\ refs \in [Products -> [head : 0 .. MaxCommit, tags : SUBSET (1 .. MaxCommit)]]
  /\ indexed \subseteq Products \X (1 .. MaxCommit)
  /\ cut \subseteq indexed
  /\ listed \subseteq indexed
  /\ stranded \subseteq Sources
  /\ readyFile \in {"absent", "torn", "written"}
  /\ lapsed \in BOOLEAN
  /\ failures \in 0 .. MaxFailures

AllListed(c, p) == \A n \in JobRefs(c, p) : <<p, n>> \in listed

(* Neither pool loses work: a source that is neither waiting nor in hand   *)
(* has been synchronised or is reported (runSourceSyncJobs); a product has *)
(* all its refs in the catalogue, or it or the cancellation is reported    *)
(* (runInitJobs).                                                          *)
NothingForgotten ==
  \A c \in Commands : \A p \in cmd[c].selected :
    LET open == cmd[c].queue \cup cmd[c].busy \cup cmd[c].failed
    IN  /\ stage[c] = "syncing" => SourceOf[p] \in open \cup cmd[c].synced
        /\ stage[c] = "building" => p \in open \/ Cancelled \in open \/ AllListed(c, p)

Whole(c, p) == \A n \in JobRefs(c, p) : <<p, n>> \notin cut

Succeeds(c) == stage[c] # "succeeded" /\ stage'[c] = "succeeded"

(* A command that reports success has done all it was asked for: every     *)
(* selected product has its refs published, and after init its head and    *)
(* tags are in the catalogue, whatever failed, died or ran beside it, and  *)
(* lack no file unless a deadline has passed, its own or one before it.    *)
(* Only an init that does so completes ready.json.                         *)
SuccessMeansDone ==
  [][/\ \A c \in Commands : Succeeds(c) =>
          \A p \in cmd[c].selected :
            /\ refs[p].head # 0
            /\ kind[c] = "init" =>
                 p \in Planned(c) /\ AllListed(c, p) /\ (lapsed \/ Whole(c, p))
     /\ readyFile' = "written" /\ readyFile # "written"
          => \E c \in Commands : kind[c] = "init" /\ Succeeds(c)]_vars

(* The parser goroutines of the builds that init runs side by side never   *)
(* exceed its worker budget.                                               *)
WithinBudget ==
  \A c \in Commands : stage[c] = "building" =>
    Cardinality(cmd[c].busy) * WorkersPerBuild(c) <= Budget

(* Running init again after failures, expired deadlines or crashes finally *)
(* succeeds, unless a sync that was stopped has left a repository that     *)
(* refuses every later one: nothing else an earlier attempt left behind    *)
(* (refs, indexes, partial or not listed, a torn ready.json), and no other *)
(* command, stops it for good.                                             *)
RerunsFinish == \A c \in Repeated : <>(stage[c] = "succeeded" \/ stranded # {})
==============================================================================
