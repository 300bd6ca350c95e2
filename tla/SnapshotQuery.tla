---------------------------- MODULE SnapshotQuery -----------------------------
(***************************************************************************)
(* Queries beside syncs and builds (internal/app/context.go and wowdoc.go, *)
(* internal/query, internal/store/catalog.go and branch.go), for one       *)
(* product.                                                                *)
(*                                                                         *)
(* A query selects a snapshot in the catalogue, opens the branch database  *)
(* of its own schema generation, checks that the snapshot is ready there   *)
(* and reads it.  Meanwhile other commands, also of an older or a newer    *)
(* program, fetch, publish refs and build.  An agent follows the           *)
(* instructions that come with the program (skill/SKILL.md:13, :14): after *)
(* snapshot_not_ready it synchronises, builds and asks again; after        *)
(* version_not_found it does the same for the latest commit.               *)
(*                                                                         *)
(* Abstractions.  Commits are numbered in the order of the branch, and     *)
(* each is tagged.  What a build reads is a function of the commit and the *)
(* generation of the program (Facts); its inner steps are in SnapshotBuild *)
(* and its locks in FileLock: here a snapshot becomes ready in one step.   *)
(* Fetching cannot fail (that is MirrorSync); search and ranking within a  *)
(* snapshot are left out: an answer is what the snapshot holds.            *)
(***************************************************************************)
EXTENDS Integers, Sequences

CONSTANTS
  MaxCommit,     \* upstream has the commits 0 .. MaxCommit in the end
  Generations,   \* schema generations of the programs in use
  SyncTags, InitTags,  \* tags that `source sync` and `init` publish
  Facts,         \* what a build of a generation reads of a commit
  Agents, Others, \* processes: agents that ask, and other users
  AgentRefs, OtherRefs \* what they ask for

Commits == 0 .. MaxCommit
Procs   == Agents \cup Others

ASSUME QueryAssumption ==
  /\ MaxCommit \in Nat
  /\ SyncTags \in Nat \ {0} /\ InitTags \in Nat \ {0}
  /\ Generations \subseteq Nat \ {0} /\ Generations # {}
  /\ DOMAIN Facts = Commits \X Generations
  /\ Agents \cap Others = {}

NoRow  == 0
Latest == [by |-> "latest", of |-> 0]
Refs   == {Latest} \cup [by : {"tag", "commit"}, of : Commits]

VARIABLES
  upstream,   \* the newest commit of the remote branch
  mirror,     \* the newest commit in the local mirror
  refs,       \* catalogue: the published head and tags
  rows,       \* catalogue: the generation in the db_path of each snapshot
  branch,     \* branch database files by generation: absent, bare or open
  ready,      \* the ready snapshots in each of them
  installed,  \* generation of the installed program
  built,      \* (history) snapshots that `index build` reported as built
  cmd,        \* the command each process runs
  todo        \* what an agent does next

vars == <<upstream, mirror, refs, rows, branch, ready, installed, built, cmd, todo>>
catalogue == <<refs, rows>>
databases == <<branch, ready, built>>
world     == <<upstream, mirror, installed>>

(* The newest n commits up to h, or all of them.                           *)
Newest(h, n) == {c \in 0 .. h : c > h - n}

Idle == [pc |-> "idle", op |-> "none", outcome |-> "none", gen |-> 0, ref |-> Latest, to |-> Latest,
         got |-> <<>>, db |-> 0, tags |-> {}, promised |-> {}, answer |-> <<>>]

(* After a first `wowdoc init` that has published its refs and was stopped *)
(* before it built anything (what an init builds, a build of Others does). *)
Init ==
  /\ upstream = 0 /\ mirror = 0
  /\ refs = [head |-> 0, tags |-> Newest(0, InitTags)]
  /\ rows = [c \in Commits |-> NoRow]
  /\ branch = [g \in Generations |-> "absent"]
  /\ ready = [g \in Generations |-> {}]
  /\ installed \in Generations /\ \A g \in Generations : installed <= g
  /\ built = [g \in Generations |-> {}]
  /\ cmd = [p \in Procs |-> Idle]
  /\ todo = [p \in Agents |-> <<>>]

-----------------------------------------------------------------------------
(* Commands begin and end.                                                 *)

First == [query |-> "select", diff |-> "select", build |-> "resolve",
          sync |-> "fetch", init |-> "fetch"]

Reading == {"query", "diff"}

Launch(p, op, r, to) ==
  cmd' = [cmd EXCEPT ![p] =
            [Idle EXCEPT !.pc = First[op], !.op = op, !.gen = installed, !.ref = r, !.to = to,
                         !.promised = IF op \in Reading THEN built[installed] ELSE {}]]

At(p, pc) == cmd[p].pc = pc

(* The next step of the command of p, with new values for some fields.     *)
Step(p, c, pc) == cmd' = [cmd EXCEPT ![p] = [c EXCEPT !.pc = pc]]
Go(p, pc) == Step(p, cmd[p], pc)

(* What an agent does about an outcome (skill/SKILL.md:13, :14): repair    *)
(* and ask again, for the latest commit if the version is not known; an    *)
(* error without next steps is met by asking again.                        *)
Repair(r) == <<[op |-> "sync", ref |-> r], [op |-> "build", ref |-> r], [op |-> "query", ref |-> r]>>

NextSteps(p, outcome) ==
  CASE outcome = "snapshot_not_ready" -> Repair(cmd[p].ref)
    [] outcome = "version_not_found" -> Repair(Latest)
    [] outcome = "error" -> <<[op |-> "query", ref |-> cmd[p].ref]>>
    [] outcome = "answered" -> <<>>
    [] OTHER -> Tail(todo[p])

EndWith(p, c, outcome) ==
  /\ cmd' = [cmd EXCEPT ![p] = IF c.op \in Reading
                               THEN [c EXCEPT !.pc = "idle", !.outcome = outcome,
                                              !.ref = Latest, !.to = Latest, !.db = 0]
                               ELSE Idle]
  /\ todo' = IF p \in Agents THEN [todo EXCEPT ![p] = NextSteps(p, outcome)] ELSE todo

End(p, outcome) == EndWith(p, cmd[p], outcome)

-----------------------------------------------------------------------------
(* The catalogue.                                                          *)

(* Resolve: the commit a ref stands for, if there is one.                  *)
Named(r) ==
  IF r.by = "latest" THEN {refs.head}
  ELSE IF r.by = "tag" THEN {r.of} \cap refs.tags
  ELSE {r.of}

(* selectSnapshot; a diff selects twice.  The context of the query keeps   *)
(* the commit and the database path of the row.                            *)
Wanted(p) == IF cmd[p].got = <<>> THEN cmd[p].ref ELSE cmd[p].to
Complete(p, got) == cmd[p].op = "query" \/ Len(got) = 2

Select(p) ==
  /\ At(p, "select")
  /\ IF Named(Wanted(p)) = {} THEN End(p, "version_not_found")
     ELSE \E c \in Named(Wanted(p)) :
            LET next == [cmd[p] EXCEPT !.got = Append(@, c), !.db = rows[c]]
            IN  IF rows[c] = NoRow THEN EndWith(p, next, "snapshot_not_ready")
                ELSE /\ Step(p, next, IF Complete(p, next.got) THEN "open" ELSE "select")
                     /\ UNCHANGED todo
  /\ UNCHANGED <<world, catalogue, databases>>

(* sync and init: fetch, then read head and tags without the lock.         *)
Fetch(p) ==
  /\ At(p, "fetch")
  /\ mirror' = upstream
  /\ Go(p, "head")
  /\ UNCHANGED <<upstream, installed, catalogue, databases, todo>>

ReadHead(p) ==
  /\ At(p, "head")
  /\ Step(p, [cmd[p] EXCEPT !.got = <<mirror>>], "tags")
  /\ UNCHANGED <<world, catalogue, databases, todo>>

Limit(p) == IF cmd[p].op = "sync" THEN SyncTags ELSE InitTags

ReachableTags(p) ==
  /\ At(p, "tags")
  /\ Step(p, [cmd[p] EXCEPT !.tags = Newest(mirror, Limit(p))], "publish_ref")
  /\ UNCHANGED <<world, catalogue, databases, todo>>

(* Mutant: the head is read once more when it is published.                *)
PublishRefRereads(p) ==
  /\ At(p, "publish_ref")
  /\ refs' = [head |-> mirror, tags |-> cmd[p].tags]
  /\ End(p, "synced")
  /\ UNCHANGED <<world, rows, databases>>

(* PublishRef is one transaction; an init publishes fewer tags than a sync.*)
PublishRef(p) ==
  /\ At(p, "publish_ref")
  /\ refs' = [head |-> cmd[p].got[1], tags |-> cmd[p].tags]
  /\ End(p, "synced")
  /\ UNCHANGED <<world, rows, databases>>

-----------------------------------------------------------------------------
(* index build.                                                            *)

Commit(p) == cmd[p].got[1]
Gen(p) == cmd[p].gen

ResolveBuild(p) ==
  /\ At(p, "resolve")
  /\ IF Named(cmd[p].ref) = {} THEN End(p, "version_not_found")
     ELSE \E c \in Named(cmd[p].ref) :
            Step(p, [cmd[p] EXCEPT !.got = <<c>>], "create") /\ UNCHANGED todo
  /\ UNCHANGED <<world, catalogue, databases>>

(* OpenBranch: SQLite creates the file, then the tables are made.          *)
CreateBranch(p) ==
  /\ At(p, "create")
  /\ branch' = [branch EXCEPT ![Gen(p)] = IF @ = "absent" THEN "bare" ELSE @]
  /\ Go(p, "schema")
  /\ UNCHANGED <<world, catalogue, ready, built, todo>>

MakeTables(p) ==
  /\ At(p, "schema")
  /\ branch' = [branch EXCEPT ![Gen(p)] = "open"]
  /\ Go(p, "publish")
  /\ UNCHANGED <<world, catalogue, ready, built, todo>>

(* Mutant: a snapshot that is found ready is not entered in the catalogue. *)
PublishSnapshotReused(p) ==
  /\ At(p, "publish")
  /\ IF Commit(p) \in ready[Gen(p)] THEN End(p, "built") /\ UNCHANGED ready
     ELSE /\ ready' = [ready EXCEPT ![Gen(p)] = @ \cup {Commit(p)}]
          /\ Go(p, "save") /\ UNCHANGED todo
  /\ UNCHANGED <<world, catalogue, branch, built>>

(* Mutant: only the snapshot built last is kept.                           *)
PublishSnapshotReplaces(p) ==
  /\ At(p, "publish")
  /\ ready' = [ready EXCEPT ![Gen(p)] = {Commit(p)}]
  /\ Go(p, "save")
  /\ UNCHANGED <<world, catalogue, branch, built, todo>>

(* The snapshot becomes ready, or is found ready and reused.               *)
PublishSnapshot(p) ==
  /\ At(p, "publish")
  /\ ready' = [ready EXCEPT ![Gen(p)] = @ \cup {Commit(p)}]
  /\ Go(p, "save")
  /\ UNCHANGED <<world, catalogue, branch, built, todo>>

SaveSnapshot(p) ==
  /\ At(p, "save")
  /\ rows' = [rows EXCEPT ![Commit(p)] = Gen(p)]
  /\ built' = [built EXCEPT ![Gen(p)] = @ \cup {Commit(p)}]
  /\ End(p, "built")
  /\ UNCHANGED <<world, refs, branch, ready>>

-----------------------------------------------------------------------------
(* Reading.                                                                *)

(* Mutant: the database the catalogue names.                               *)
OpenedByRow(p) == cmd[p].db

(* openBranch: the database the catalogue names if it is of the generation *)
(* of this program, and that of this generation otherwise.                 *)
Opened(p) == IF cmd[p].db = Gen(p) THEN cmd[p].db ELSE Gen(p)

OpenBranchRead(p) ==
  /\ At(p, "open")
  /\ IF branch[Opened(p)] = "absent" THEN End(p, "snapshot_not_ready")
     ELSE /\ Step(p, [cmd[p] EXCEPT !.db = Opened(p)], IF cmd[p].op = "query" THEN "check" ELSE "load")
          /\ UNCHANGED todo
  /\ UNCHANGED <<world, catalogue, databases>>

(* Mutant: an open database is taken to hold the snapshot, as Diff does.   *)
EnsureReadySkipped(p) ==
  /\ At(p, "check")
  /\ IF branch[cmd[p].db] = "bare" THEN End(p, "error") ELSE Go(p, "read") /\ UNCHANGED todo
  /\ UNCHANGED <<world, catalogue, databases>>

(* A database without tables is an error of its own.                       *)
EnsureReady(p) ==
  /\ At(p, "check")
  /\ IF branch[cmd[p].db] = "bare" THEN End(p, "error")
     ELSE IF Commit(p) \notin ready[cmd[p].db] \/ cmd[p].db # Gen(p)
          THEN End(p, "snapshot_not_ready")
          ELSE Go(p, "read") /\ UNCHANGED todo
  /\ UNCHANGED <<world, catalogue, databases>>

(* The rows of a snapshot in a database.                                   *)
Stored(db, c) == IF c \in ready[db] THEN Facts[<<c, db>>] ELSE {}

Read(p) ==
  /\ At(p, "read")
  /\ EndWith(p, [cmd[p] EXCEPT !.answer = <<Stored(cmd[p].db, Commit(p))>>], "answered")
  /\ UNCHANGED <<world, catalogue, databases>>

(* Diff loads both snapshots; it does not check that they are ready.       *)
Load(p) ==
  /\ At(p, "load")
  /\ IF branch[cmd[p].db] = "bare" THEN End(p, "error")
     ELSE LET side == [i \in 1 .. 2 |-> Stored(cmd[p].db, cmd[p].got[i])]
          IN  EndWith(p, [cmd[p] EXCEPT !.answer = <<side[2] \ side[1], side[1] \ side[2]>>],
                      "answered")
  /\ UNCHANGED <<world, catalogue, databases>>

-----------------------------------------------------------------------------
(* Who does what.                                                          *)

Resting(p) == At(p, "idle")

(* The commits somebody can have learned of.                               *)
Known == {r \in Refs : r.of <= mirror}

Ask(p, r) ==
  /\ Resting(p) /\ todo[p] = <<>>
  /\ Launch(p, "query", r, r)
  /\ UNCHANGED <<world, catalogue, databases, todo>>

Continue(p) ==
  /\ Resting(p) /\ todo[p] # <<>>
  /\ Launch(p, Head(todo[p]).op, Head(todo[p]).ref, Latest)
  /\ UNCHANGED <<world, catalogue, databases, todo>>

Start(p) ==
  /\ Resting(p)
  /\ \/ \E op \in {"sync", "init"} : Launch(p, op, Latest, Latest)
     \/ \E r \in Known \cap OtherRefs : Launch(p, "build", r, Latest)
     \/ \E r, to \in Known \cap OtherRefs : Launch(p, "diff", r, to)
  /\ UNCHANGED <<world, catalogue, databases, todo>>

Die(p) ==
  /\ ~Resting(p)
  /\ cmd' = [cmd EXCEPT ![p] = Idle]
  /\ UNCHANGED <<world, catalogue, databases, todo>>

Work(p) ==
  \/ Select(p) \/ OpenBranchRead(p) \/ EnsureReady(p) \/ Read(p) \/ Load(p)
  \/ Fetch(p) \/ ReadHead(p) \/ ReachableTags(p) \/ PublishRef(p)
  \/ ResolveBuild(p) \/ CreateBranch(p) \/ MakeTables(p) \/ PublishSnapshot(p) \/ SaveSnapshot(p)

Advance ==
  /\ upstream < MaxCommit
  /\ upstream' = upstream + 1
  /\ UNCHANGED <<mirror, installed, catalogue, databases, cmd, todo>>

(* Commands of the older program may still be running.                     *)
Upgrade(g) ==
  /\ g > installed
  /\ installed' = g
  /\ UNCHANGED <<upstream, mirror, catalogue, databases, cmd, todo>>

Next ==
  \/ Advance
  \/ \E g \in Generations : Upgrade(g)
  \/ \E p \in Agents : Continue(p) \/ \E r \in Known \cap AgentRefs : Ask(p, r)
  \/ \E p \in Others : Start(p) \/ Die(p)
  \/ \E p \in Procs : Work(p)

Spec == Init /\ [][Next]_vars
FairSpec == Spec /\ \A p \in Agents : WF_vars(Work(p) \/ Continue(p))

-----------------------------------------------------------------------------
(* Properties.                                                             *)

Ended(p, op, outcome) == cmd[p].pc = "idle" /\ cmd[p].op = op /\ cmd[p].outcome = outcome

(* A query that is answered is answered with all of the snapshot of the    *)
(* commit it resolved to, as the generation of its own program reads it,   *)
(* whatever else builds, installs or publishes meanwhile; never with       *)
(* nothing for a commit that is not indexed, never with the facts of       *)
(* another parser (wowdoc-cli/spec.md:51, :55).                            *)
AnswersExact ==
  \A p \in Procs : Ended(p, "query", "answered") =>
    cmd[p].answer = <<Facts[<<Commit(p), Gen(p)>>]>>

(* A diff of two commits is exact when both were built by programs of the  *)
(* generation that compares them; the code checks nothing.                 *)
DiffExact ==
  \A p \in Procs :
    /\ Ended(p, "diff", "answered")
    /\ \A i \in 1 .. 2 : cmd[p].got[i] \in cmd[p].promised
    => LET side == [i \in 1 .. 2 |-> Facts[<<cmd[p].got[i], Gen(p)>>]]
       IN  cmd[p].answer = <<side[2] \ side[1], side[1] \ side[2]>>

(* What `index build` reported as built is served to every later query of  *)
(* that generation: builds by other programs, which replace the row of the *)
(* catalogue, do not take it away (wowdoc-cli/spec.md:51).                 *)
BuiltIsServed ==
  \A p \in Procs : \A op \in Reading :
    Ended(p, op, "snapshot_not_ready") =>
      cmd[p].got[Len(cmd[p].got)] \notin cmd[p].promised

(* The published tags are at least as new as the published head: a release *)
(* that `latest` already contains is not missing among them because two    *)
(* programs published at the same time, or because they were read from the *)
(* mirror while it was fetched.                                            *)
TagsNotOlderThanHead ==
  \E h \in refs.head .. mirror : \E n \in {SyncTags, InitTags} : refs.tags = Newest(h, n)

(* An agent that follows the next steps gets an answer, although heads     *)
(* move, tags are withdrawn and programs are replaced under it; provided   *)
(* that no branch database stays without its tables.                       *)
Waiting(p) == ~Resting(p) \/ todo[p] # <<>>
Tabled == \A g \in Generations : branch[g] # "bare"

AgentAnswered ==
  []<>Tabled => \A p \in Agents : []<>~Waiting(p)
================================================================================
