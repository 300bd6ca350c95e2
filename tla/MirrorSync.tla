------------------------------ MODULE MirrorSync ------------------------------
(***************************************************************************)
(* The Git mirror of one source (internal/gitstore/git.go) and the refs a  *)
(* command publishes from it (internal/app/wowdoc.go, lifecycle.go).       *)
(*                                                                         *)
(* Sync holds the repository lock.  The first time it fills a staging      *)
(* repository, verifies it and renames it into place; later it updates the *)
(* mirror in place; a partial mirror of an older version is replaced by a  *)
(* full one with two renames.  Fetches are retried.  After Sync, without   *)
(* the lock, the command reads the head and the tags and stores them in    *)
(* the catalogue.  Builds add worktrees to the mirror without the lock.    *)
(*                                                                         *)
(* Abstractions.  The state of the remote repository is a version number;  *)
(* the heads and the tags of a local repository are those of some version. *)
(* One product.  Git itself is modelled by what its commands leave.        *)
(***************************************************************************)
EXTENDS Naturals

CONSTANTS Syncers,      \* processes that synchronise the source
          Builders,     \* builds that use a worktree of the mirror
          Attempts,     \* gitNetworkAttempts
          MaxVersion,   \* bound on the versions of the remote repository
          MaxFailures,  \* bound on failed or killed commands
          MayDamage,    \* a crash may leave a repository with broken objects
          MayStrand     \* a command may stop between `init` and `remote add`

ASSUME MirrorAssumption ==
  /\ Attempts \in Nat \ {0}
  /\ MaxVersion \in Nat \ {0}
  /\ MaxFailures \in Nat
  /\ MayDamage \in BOOLEAN
  /\ MayStrand \in BOOLEAN

Free      == "free"
Abandoned == "abandoned"

ASSUME DistinctAssumption == {Free, Abandoned} \cap Syncers = {}

VARIABLES
  pc,         \* where each synchroniser is
  where,      \* the repository it fetches into
  attempt,    \* number of the network attempt it is in
  lock,       \* the repository lock file
  repo,       \* the repositories on disk
  worktrees,  \* builds with a worktree registered in the mirror
  parked,     \* those registered in the mirror that was moved aside
  building,   \* builds that are running
  upstream,   \* version of the remote repository
  got,        \* head and tags a synchroniser has read
  catalog,    \* head and tags in the catalogue (0: none)
  failures,   \* commands that failed or died so far
  asked       \* history: upstream when the synchroniser began

syncVars == <<pc, where, attempt, got, asked>>
vars == <<syncVars, lock, repo, worktrees, parked, building, upstream, catalog, failures>>

Places   == {"mirror", "staging", "full", "backup"}
Versions == 0 .. MaxVersion

Repositories == [there : BOOLEAN, bare : BOOLEAN, origin : BOOLEAN, partial : BOOLEAN,
                 sound : BOOLEAN, heads : Versions, tags : Versions]

NoRepo == [there |-> FALSE, bare |-> FALSE, origin |-> FALSE, partial |-> FALSE,
           sound |-> TRUE, heads |-> 0, tags |-> 0]
Broken  == [NoRepo EXCEPT !.there = TRUE]
Empty   == [Broken EXCEPT !.bare = TRUE]
Partial == [Empty EXCEPT !.origin = TRUE, !.partial = TRUE, !.heads = 1, !.tags = 1]

SyncStages == {"locked", "prepare", "remote", "heads", "tags", "fsck", "verified",
               "moved", "discard"}
ReadStages == {"synced", "head", "refs"}

NoRefs == <<0, 0>>

(* A home directory without the mirror, or with one of an older version.   *)
Init ==
  /\ pc = [p \in Syncers |-> "idle"]
  /\ where = [p \in Syncers |-> "mirror"]
  /\ attempt = [p \in Syncers |-> 1]
  /\ lock = Free
  /\ \E mirror \in {NoRepo, Partial} :
       repo = [place \in Places |-> IF place = "mirror" THEN mirror ELSE NoRepo]
  /\ worktrees = {}
  /\ parked = {}
  /\ building = {}
  /\ upstream = 1
  /\ got = [p \in Syncers |-> NoRefs]
  /\ catalog = NoRefs
  /\ failures = 0
  /\ asked = [p \in Syncers |-> 0]

Go(p, from, to) ==
  /\ pc[p] = from
  /\ pc' = [pc EXCEPT ![p] = to]

-----------------------------------------------------------------------------
(* Choosing the repository to fetch into.                                  *)

(* lock.Acquire; the file of a dead process is stale after 24 hours, which *)
(* no live holder reaches (the commands have deadlines).                   *)
Begin(p) ==
  /\ lock \in {Free, Abandoned}
  /\ Go(p, "idle", "locked")
  /\ lock' = p
  /\ asked' = [asked EXCEPT ![p] = upstream]
  /\ UNCHANGED <<where, attempt, got, repo, worktrees, parked, building,
                 upstream, catalog, failures>>

FirstSync(p) ==
  /\ ~repo["mirror"].there
  /\ Go(p, "locked", "prepare")
  /\ where' = [where EXCEPT ![p] = "staging"]
  /\ UNCHANGED <<attempt, got, asked, lock, repo, worktrees, parked, building,
                 upstream, catalog, failures>>

WithoutStaging == [repo EXCEPT !["staging"] = NoRepo]

(* isPartialMirror: remote.origin.promisor is set.                         *)
HasMirror(partial) == repo["mirror"].there /\ repo["mirror"].partial = partial

(* Mutant: a mirror that is there is not fetched again.                    *)
UpdateMirrorUnfetched(p) ==
  /\ HasMirror(FALSE)
  /\ Go(p, "locked", "fsck")
  /\ where' = [where EXCEPT ![p] = "mirror"]
  /\ repo' = WithoutStaging
  /\ UNCHANGED <<attempt, got, asked, lock, worktrees, parked, building,
                 upstream, catalog, failures>>

UpdateMirror(p) ==
  /\ HasMirror(FALSE)
  /\ Go(p, "locked", "heads")
  /\ where' = [where EXCEPT ![p] = "mirror"]
  /\ repo' = WithoutStaging
  /\ UNCHANGED <<attempt, got, asked, lock, worktrees, parked, building,
                 upstream, catalog, failures>>

UpgradePartial(p) ==
  /\ HasMirror(TRUE)
  /\ worktrees = {}
  /\ Go(p, "locked", "prepare")
  /\ where' = [where EXCEPT ![p] = "full"]
  /\ repo' = WithoutStaging
  /\ UNCHANGED <<attempt, got, asked, lock, worktrees, parked, building,
                 upstream, catalog, failures>>

(* "partial mirror upgrade is waiting for active worktrees"                *)
UpgradeRefused(p) ==
  /\ HasMirror(TRUE)
  /\ worktrees # {}
  /\ Go(p, "locked", "idle")
  /\ lock' = Free
  /\ repo' = WithoutStaging
  /\ UNCHANGED <<where, attempt, got, asked, worktrees, parked, building,
                 upstream, catalog, failures>>

-----------------------------------------------------------------------------
(* prepareBareStaging: create the staging repository or take up the one a  *)
(* former command left.                                                    *)

(* Nothing is there, or something that is not a bare repository: it is     *)
(* removed.                                                                *)
InitBare(p) ==
  /\ ~repo[where[p]].bare
  /\ Go(p, "prepare", "remote")
  /\ repo' = [repo EXCEPT ![where[p]] = Empty]
  /\ UNCHANGED <<where, attempt, got, asked, lock, worktrees, parked, building,
                 upstream, catalog, failures>>

AddRemote(p) ==
  /\ Go(p, "remote", "heads")
  /\ repo' = [repo EXCEPT ![where[p]].origin = TRUE]
  /\ UNCHANGED <<where, attempt, got, asked, lock, worktrees, parked, building,
                 upstream, catalog, failures>>

SetURL(p) ==
  /\ repo[where[p]].bare /\ repo[where[p]].origin
  /\ Go(p, "prepare", "heads")
  /\ UNCHANGED <<where, attempt, got, asked, lock, repo, worktrees, parked,
                 building, upstream, catalog, failures>>

(* `git remote set-url origin`: "No such remote 'origin'".                 *)
SetURLFails(p) ==
  /\ repo[where[p]].bare /\ ~repo[where[p]].origin
  /\ Go(p, "prepare", "idle")
  /\ lock' = Free
  /\ UNCHANGED <<where, attempt, got, asked, repo, worktrees, parked, building,
                 upstream, catalog, failures>>

-----------------------------------------------------------------------------
(* syncBareRepository and retryNetwork.                                    *)

(* The branch refs; tags of fetched commits may come along.                *)
FetchHeads(p) ==
  /\ Go(p, "heads", "tags")
  /\ attempt' = [attempt EXCEPT ![p] = 1]
  /\ \E tags \in {repo[where[p]].tags, upstream} :
       repo' = [repo EXCEPT ![where[p]].heads = upstream, ![where[p]].tags = tags]
  /\ UNCHANGED <<where, got, asked, lock, worktrees, parked, building, upstream,
                 catalog, failures>>

FetchTags(p) ==
  /\ Go(p, "tags", "fsck")
  /\ attempt' = [attempt EXCEPT ![p] = 1]
  /\ repo' = [repo EXCEPT ![where[p]].tags = upstream]
  /\ UNCHANGED <<where, got, asked, lock, worktrees, parked, building, upstream,
                 catalog, failures>>

(* Mutant: counting starts again after the last attempt.                   *)
AttemptFailsRestarts(p) ==
  /\ pc[p] \in {"heads", "tags"}
  /\ attempt' = [attempt EXCEPT ![p] = (@ % Attempts) + 1]
  /\ UNCHANGED <<pc, where, got, asked, lock, repo, worktrees, parked, building,
                 upstream, catalog, failures>>

(* A retryable error; the refs may or may not have been updated.           *)
AttemptFails(p) ==
  /\ pc[p] \in {"heads", "tags"}
  /\ attempt[p] < Attempts
  /\ attempt' = [attempt EXCEPT ![p] = @ + 1]
  /\ \/ UNCHANGED repo
     \/ pc[p] = "heads" /\ repo' = [repo EXCEPT ![where[p]].heads = upstream]
     \/ pc[p] = "tags"  /\ repo' = [repo EXCEPT ![where[p]].tags = upstream]
  /\ UNCHANGED <<pc, where, got, asked, lock, worktrees, parked, building,
                 upstream, catalog, failures>>

LastAttemptFails(p) ==
  /\ pc[p] \in {"heads", "tags"}
  /\ attempt[p] = Attempts
  /\ Go(p, pc[p], "idle")
  /\ attempt' = [attempt EXCEPT ![p] = 1]
  /\ lock' = Free
  /\ UNCHANGED <<where, got, asked, repo, worktrees, parked, building, upstream,
                 catalog, failures>>

-----------------------------------------------------------------------------
(* Verifying and activating.                                               *)

RefsOf(r) == <<r.heads, r.tags>>

(* Sync returns without an error.                                          *)
Succeed(p, from) ==
  /\ Go(p, from, "synced")
  /\ lock' = Free

(* Mutant: the result of fsck is ignored.                                  *)
FsckIgnored(p) ==
  /\ where[p] # "mirror"
  /\ Go(p, "fsck", "verified")
  /\ UNCHANGED <<where, attempt, got, asked, lock, repo, worktrees, parked,
                 building, upstream, catalog, failures>>

Fsck(p) ==
  /\ where[p] # "mirror"
  /\ repo[where[p]].sound
  /\ Go(p, "fsck", "verified")
  /\ UNCHANGED <<where, attempt, got, asked, lock, repo, worktrees, parked,
                 building, upstream, catalog, failures>>

FsckInPlace(p) ==
  /\ where[p] = "mirror"
  /\ repo["mirror"].sound
  /\ UNCHANGED repo
  /\ Succeed(p, "fsck")
  /\ UNCHANGED <<where, attempt, got, asked, worktrees, parked, building, upstream,
                 catalog, failures>>

(* repository_incomplete                                                   *)
FsckFails(p) ==
  /\ ~repo[where[p]].sound
  /\ Go(p, "fsck", "idle")
  /\ lock' = Free
  /\ UNCHANGED <<where, attempt, got, asked, repo, worktrees, parked, building,
                 upstream, catalog, failures>>

Activate(p) ==
  /\ where[p] = "staging"
  /\ repo' = [repo EXCEPT !["mirror"] = repo["staging"], !["staging"] = NoRepo]
  /\ Succeed(p, "verified")
  /\ UNCHANGED <<where, attempt, got, asked, worktrees, parked, building, upstream,
                 catalog, failures>>

(* Mutant: the partial mirror is removed instead of moved aside.           *)
MoveAsideRemoves(p) ==
  /\ where[p] = "full"
  /\ Go(p, "verified", "moved")
  /\ repo' = [repo EXCEPT !["mirror"] = NoRepo]
  /\ worktrees' = {}
  /\ UNCHANGED <<where, attempt, got, asked, lock, parked, building, upstream,
                 catalog, failures>>

(* replacePartialMirror: the mirror goes to a fresh backup path, with the  *)
(* worktrees that are registered in it.                                    *)
MoveAside(p) ==
  /\ where[p] = "full"
  /\ Go(p, "verified", "moved")
  /\ repo' = [repo EXCEPT !["backup"] = repo["mirror"], !["mirror"] = NoRepo]
  /\ parked' = worktrees
  /\ worktrees' = {}
  /\ UNCHANGED <<where, attempt, got, asked, lock, building, upstream, catalog,
                 failures>>

(* Mutant: the new mirror is still marked as partial.                      *)
ActivateFullPartial(p) ==
  /\ Go(p, "moved", "discard")
  /\ repo' = [repo EXCEPT !["mirror"] = [repo["full"] EXCEPT !.partial = TRUE],
                          !["full"] = NoRepo]
  /\ UNCHANGED <<where, attempt, got, asked, lock, worktrees, parked, building,
                 upstream, catalog, failures>>

ActivateFull(p) ==
  /\ Go(p, "moved", "discard")
  /\ repo' = [repo EXCEPT !["mirror"] = repo["full"], !["full"] = NoRepo]
  /\ UNCHANGED <<where, attempt, got, asked, lock, worktrees, parked, building,
                 upstream, catalog, failures>>

(* The second rename fails; moving the backup back may fail as well, which *)
(* nobody looks at.                                                        *)
ActivateFullFails(p) ==
  /\ failures < MaxFailures
  /\ failures' = failures + 1
  /\ Go(p, "moved", "idle")
  /\ lock' = Free
  /\ \/ /\ repo' = [repo EXCEPT !["mirror"] = repo["backup"], !["backup"] = NoRepo]
        /\ worktrees' = parked
        /\ parked' = {}
     \/ UNCHANGED <<repo, worktrees, parked>>
  /\ UNCHANGED <<where, attempt, got, asked, building, upstream, catalog>>

DiscardBackup(p) ==
  /\ repo' = [repo EXCEPT !["backup"] = NoRepo]
  /\ parked' = {}
  /\ Succeed(p, "discard")
  /\ UNCHANGED <<where, attempt, got, asked, worktrees, building, upstream, catalog,
                 failures>>

-----------------------------------------------------------------------------
(* The command goes on without the lock.                                   *)

ReadHead(p) ==
  /\ repo["mirror"].there
  /\ Go(p, "synced", "head")
  /\ got' = [got EXCEPT ![p][1] = repo["mirror"].heads]
  /\ UNCHANGED <<where, attempt, asked, lock, repo, worktrees, parked, building,
                 upstream, catalog, failures>>

ReadTags(p) ==
  /\ repo["mirror"].there
  /\ Go(p, "head", "refs")
  /\ got' = [got EXCEPT ![p][2] = repo["mirror"].tags]
  /\ UNCHANGED <<where, attempt, asked, lock, repo, worktrees, parked, building,
                 upstream, catalog, failures>>

(* One transaction replaces the head and the tags of the product.          *)
PublishRef(p) ==
  /\ Go(p, "refs", "idle")
  /\ catalog' = got[p]
  /\ UNCHANGED <<where, attempt, got, asked, lock, repo, worktrees, parked,
                 building, upstream, failures>>

-----------------------------------------------------------------------------
(* Failures.                                                               *)

Stop(p) ==
  /\ failures < MaxFailures
  /\ failures' = failures + 1
  /\ pc[p] # "idle"
  /\ pc' = [pc EXCEPT ![p] = "idle"]
  /\ attempt' = [attempt EXCEPT ![p] = 1]
  /\ pc[p] = "remote" => MayStrand
  /\ UNCHANGED <<where, got, asked, worktrees, parked, building, upstream,
                 catalog>>

(* What a command that is stopped leaves in its repository.                *)
Left(p) ==
  LET r == repo[where[p]]
  IN  {r} \cup (IF pc[p] = "prepare" /\ ~r.bare THEN {Broken} ELSE {})
          \cup (IF MayDamage /\ pc[p] \in {"heads", "tags"}
                THEN {[r EXCEPT !.sound = FALSE]} ELSE {})

(* A command fails for good, is cancelled or runs into its deadline.       *)
Fail(p) ==
  /\ Stop(p)
  /\ pc[p] # "moved"
  /\ lock' = IF lock = p THEN Free ELSE lock
  /\ \E r \in Left(p) : repo' = [repo EXCEPT ![where[p]] = r]

Crash(p) ==
  /\ Stop(p)
  /\ lock' = IF lock = p THEN Abandoned ELSE lock
  /\ \E r \in Left(p) : repo' = [repo EXCEPT ![where[p]] = r]

-----------------------------------------------------------------------------
(* The surroundings: the remote repository and the builds.                 *)

Advance ==
  /\ upstream < MaxVersion
  /\ upstream' = upstream + 1
  /\ UNCHANGED <<syncVars, lock, repo, worktrees, parked, building, catalog, failures>>

(* CleanupStaleWorktrees removes worktrees whose lease has expired; those  *)
(* are of builds that died.                                                *)
StaleWorktrees == SUBSET (worktrees \ building)

(* Stale worktrees are cleaned up before one is added.                     *)
CreateWorktree(b) ==
  /\ repo["mirror"].there
  /\ b \notin building \cup worktrees
  /\ \E expired \in StaleWorktrees : worktrees' = (worktrees \ expired) \cup {b}
  /\ building' = building \cup {b}
  /\ UNCHANGED <<syncVars, lock, repo, parked, upstream, catalog, failures>>

CloseWorktree(b) ==
  /\ b \in building
  /\ building' = building \ {b}
  /\ worktrees' = worktrees \ {b}
  /\ UNCHANGED <<syncVars, lock, repo, parked, upstream, catalog, failures>>

BuildDies(b) ==
  /\ b \in building
  /\ failures < MaxFailures
  /\ failures' = failures + 1
  /\ building' = building \ {b}
  /\ UNCHANGED <<syncVars, lock, repo, worktrees, parked, upstream, catalog>>

-----------------------------------------------------------------------------
Fetching(p) == FetchHeads(p) \/ FetchTags(p)

Syncing(p) ==
  \/ FirstSync(p) \/ UpdateMirror(p) \/ UpgradePartial(p) \/ UpgradeRefused(p)
  \/ InitBare(p) \/ AddRemote(p) \/ SetURL(p) \/ SetURLFails(p)
  \/ Fetching(p) \/ AttemptFails(p) \/ LastAttemptFails(p)
  \/ Fsck(p) \/ FsckInPlace(p) \/ FsckFails(p)
  \/ Activate(p) \/ MoveAside(p) \/ ActivateFull(p) \/ DiscardBackup(p)

Reading(p) == ReadHead(p) \/ ReadTags(p) \/ PublishRef(p)

Next ==
  \/ \E p \in Syncers :
       \/ Begin(p) \/ Syncing(p) \/ Reading(p)
       \/ ActivateFullFails(p) \/ Fail(p) \/ Crash(p)
  \/ \E b \in Builders : CreateWorktree(b) \/ CloseWorktree(b) \/ BuildDies(b)
  \/ Advance

Spec == Init /\ [][Next]_vars

(* A command that runs goes on; whether its fetches succeed is left open.  *)
FairSpec ==
  Spec /\ \A p \in Syncers : WF_vars(Syncing(p)) /\ WF_vars(Reading(p))

(* The command is run again and again, and the network works now and then. *)
Retried ==
  /\ \A p \in Syncers : SF_vars(FetchHeads(p)) /\ SF_vars(FetchTags(p))
  /\ WF_vars(\E p \in Syncers : Begin(p))

RetrySpec == FairSpec /\ Retried

-----------------------------------------------------------------------------
(* Properties.                                                             *)

(* The variables have their types.                                         *)
TypeOK ==
  /\ pc \in [Syncers -> {"idle"} \cup SyncStages \cup ReadStages]
  /\ where \in [Syncers -> Places \ {"backup"}]
  /\ attempt \in [Syncers -> 1 .. Attempts]
  /\ lock \in Syncers \cup {Free, Abandoned}
  /\ repo \in [Places -> Repositories]
  /\ worktrees \subseteq Builders
  /\ parked \subseteq Builders
  /\ building \subseteq Builders
  /\ upstream \in 1 .. MaxVersion
  /\ got \in [Syncers -> Versions \X Versions]
  /\ catalog \in Versions \X Versions
  /\ failures \in 0 .. MaxFailures
  /\ asked \in [Syncers -> Versions]

Verified(r) == r.there /\ r.bare /\ r.origin /\ r.sound /\ r.heads > 0 /\ r.tags > 0

(* Whatever earlier commands left in a staging repository, only one that   *)
(* has all its refs and passed fsck becomes the mirror.                    *)
ActivatedVerified ==
  [][~repo["mirror"].there /\ repo["mirror"].there' => Verified(repo["mirror"]')]_vars

(* Once a source has a mirror there is always a copy of it: the mirror or, *)
(* while a partial one is replaced, its backup.                            *)
CopyKept ==
  [][repo["mirror"].there \/ repo["backup"].there
       => repo["mirror"].there' \/ repo["backup"].there']_vars

(* The refs a command publishes are at least as new as the remote was when *)
(* it began, whatever it found on disk and whoever synchronises next to it.*)
PublishesFresh ==
  \A p \in Syncers :
    pc[p] = "refs" => got[p][1] >= asked[p] /\ got[p][2] >= asked[p]

(* Sync returns even when the network never works: the repository lock is  *)
(* given back again and again (it is held from `locked` until Sync ends).  *)
SyncReturns == []<>(lock \notin Syncers)

(* After failures and crashes a source that is tried again gets a full     *)
(* mirror, and its refs are published ("rerun wowdoc source sync to retry  *)
(* failed source mirrors").                                                *)
EventuallySynced ==
  <>(Verified(repo["mirror"]) /\ ~repo["mirror"].partial /\ catalog # NoRefs)

(* The three things a command may leave that no later command clears: a    *)
(* staging repository without a remote, a repository that fails fsck, and  *)
(* the worktree of a dead build in a mirror that is still partial.         *)
Unblocked ==
  /\ \A place \in {"staging", "full"} :
       repo[place].bare => repo[place].origin \/ \E p \in Syncers : pc[p] = "remote"
  /\ \A place \in Places : repo[place].sound
  /\ HasMirror(TRUE) => worktrees \subseteq building

(* Nothing else keeps a repeated command from succeeding: neither failures *)
(* and crashes at any step, nor the other synchroniser, nor builds as long *)
(* as they end.                                                            *)
RetriesSucceed ==
  Retried /\ []Unblocked /\ <>[](building = {}) => EventuallySynced
==============================================================================
