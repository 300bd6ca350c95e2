--------------------------- MODULE MirrorSync_proofs ---------------------------
(***************************************************************************)
(* Proofs about mirrors and the refs published from them, for any number   *)
(* of synchronisers, builds, versions, attempts and failures.              *)
(***************************************************************************)
EXTENDS MirrorSync, TLAPS

(***************************************************************************)
(* The inductive invariant.                                                *)
(***************************************************************************)

(* The repositories on disk: a mirror was verified when it was activated,  *)
(* and a partial one, which nobody fetches into, still is.                 *)
Disk ==
  /\ \A place \in Places :
       /\ repo[place].bare => repo[place].there
       /\ repo[place].heads <= upstream /\ repo[place].tags <= upstream
  /\ ~repo["staging"].partial /\ ~repo["full"].partial
  /\ LET m == repo["mirror"]
     IN  m.there => /\ m.bare /\ m.origin /\ m.heads > 0 /\ m.tags > 0
                    /\ m.partial => m.sound

(* A mirror that is no longer partial and has the refs of version v.       *)
FullMirror(v) == HasMirror(FALSE) /\ repo["mirror"].heads >= v /\ repo["mirror"].tags >= v

(* What the holder of the lock has made of the repository it fetches into, *)
(* and why that is the right one.                                          *)
Writes(p) ==
  LET r == repo[where[p]]
      v == asked[p]
  IN  /\ pc[p] \in {"prepare", "remote", "heads", "tags", "fsck", "verified"} =>
           /\ where[p] = "staging" => ~repo["mirror"].there
           /\ where[p] = "full" => HasMirror(TRUE)
           /\ where[p] = "mirror" => HasMirror(FALSE)
      /\ pc[p] \in {"prepare", "remote", "verified"} => where[p] # "mirror"
      /\ pc[p] = "remote" => r.bare
      /\ pc[p] \in {"heads", "tags", "fsck", "verified", "moved"} => r.bare /\ r.origin
      /\ pc[p] \in {"tags", "fsck", "verified", "moved"} => r.heads >= v /\ r.heads > 0
      /\ pc[p] \in {"fsck", "verified", "moved"} => r.tags >= v /\ r.tags > 0
      /\ pc[p] \in {"verified", "moved"} => r.sound
      /\ pc[p] = "moved" => where[p] = "full" /\ ~repo["mirror"].there /\ Verified(repo["backup"])
      /\ pc[p] = "discard" => FullMirror(v)

(* What a command that has left the lock can rely on.                      *)
Reads(p) ==
  /\ pc[p] \in ReadStages => FullMirror(asked[p])
  /\ pc[p] \in {"head", "refs"} => got[p][1] >= asked[p]
  /\ pc[p] = "refs" => got[p][2] >= asked[p]

Own(p) ==
  /\ pc[p] \in SyncStages <=> lock = p
  /\ asked[p] <= upstream
  /\ Writes(p) /\ Reads(p)

Inv == TypeOK /\ Disk /\ \A p \in Syncers : Own(p)

(* The repositories that commands leave behind.                            *)
LEMMA RepositoryKinds ==
  /\ NoRepo \in Repositories /\ Broken \in Repositories
  /\ Empty \in Repositories /\ Partial \in Repositories
  /\ NoRepo.heads = 0 /\ NoRepo.tags = 0 /\ ~NoRepo.there /\ ~NoRepo.bare /\ ~NoRepo.partial
  /\ Broken.heads = 0 /\ Broken.tags = 0 /\ Broken.there /\ ~Broken.bare /\ ~Broken.partial
  /\ Empty.heads = 0 /\ Empty.tags = 0 /\ Empty.there /\ Empty.bare /\ ~Empty.partial
  /\ Partial.heads = 1 /\ Partial.tags = 1 /\ Partial.bare /\ Partial.origin /\ Partial.sound
  /\ Partial.there
<1>1. {0, 1} \subseteq Versions
  BY MirrorAssumption DEF Versions
<1>2. /\ NoRepo \in Repositories
      /\ NoRepo.heads = 0 /\ NoRepo.tags = 0 /\ ~NoRepo.there /\ ~NoRepo.bare /\ ~NoRepo.partial
      /\ NoRepo.sound
  BY <1>1 DEF NoRepo, Repositories
<1>3. /\ Broken \in Repositories
      /\ Broken.heads = 0 /\ Broken.tags = 0 /\ Broken.there /\ ~Broken.bare /\ ~Broken.partial
      /\ Broken.sound
  BY <1>2 DEF Broken, Repositories
<1>4. /\ Empty \in Repositories
      /\ Empty.heads = 0 /\ Empty.tags = 0 /\ Empty.there /\ Empty.bare /\ ~Empty.partial
      /\ Empty.sound
  BY <1>3 DEF Empty, Repositories
<1>5. /\ Partial \in Repositories
      /\ Partial.heads = 1 /\ Partial.tags = 1 /\ Partial.bare /\ Partial.origin /\ Partial.sound
      /\ Partial.there
  BY <1>1, <1>4 DEF Partial, Repositories
<1>6. QED
  BY <1>2, <1>3, <1>4, <1>5

LEMMA InitInv == Init => Inv
<1> SUFFICES ASSUME Init PROVE Inv
  OBVIOUS
<1> USE MirrorAssumption, DistinctAssumption DEF Init
<1>1. /\ NoRepo \in Repositories /\ Partial \in Repositories
      /\ NoRepo.heads = 0 /\ NoRepo.tags = 0 /\ ~NoRepo.there /\ ~NoRepo.bare /\ ~NoRepo.partial
      /\ Partial.heads = 1 /\ Partial.tags = 1 /\ Partial.bare /\ Partial.origin /\ Partial.sound
      /\ Partial.there
  BY RepositoryKinds
<1>2. PICK m \in {NoRepo, Partial} : repo = [place \in Places |-> IF place = "mirror" THEN m ELSE NoRepo]
  OBVIOUS
<1>3. TypeOK
  <2>1. repo \in [Places -> Repositories]
    BY <1>1, <1>2
  <2>2. pc \in [Syncers -> {"idle"} \cup SyncStages \cup ReadStages]
    OBVIOUS
  <2>3. where \in [Syncers -> Places \ {"backup"}]
    BY DEF Places
  <2>4. got \in [Syncers -> Versions \X Versions] /\ catalog \in Versions \X Versions
    BY DEF NoRefs, Versions
  <2>5. asked \in [Syncers -> Versions] /\ upstream \in 1 .. MaxVersion
    BY DEF Versions
  <2>6. attempt \in [Syncers -> 1 .. Attempts] /\ failures \in 0 .. MaxFailures
    OBVIOUS
  <2>7. QED
    BY <2>1, <2>2, <2>3, <2>4, <2>5, <2>6 DEF TypeOK
<1>4. Disk
  <2>1. \A place \in Places \ {"mirror"} : repo[place] = NoRepo
    BY <1>2
  <2>2. repo["mirror"] \in {NoRepo, Partial} /\ {"mirror", "staging", "full"} \subseteq Places
    BY <1>2 DEF Places
  <2>3. \A place \in Places : /\ repo[place].bare => repo[place].there
                             /\ repo[place].heads <= upstream /\ repo[place].tags <= upstream
    BY <1>1, <2>1, <2>2
  <2>4. QED
    BY <1>1, <2>1, <2>2, <2>3 DEF Disk
<1>5. ASSUME NEW p \in Syncers PROVE Own(p)
  <2>1. pc[p] = "idle" /\ lock # p /\ asked[p] = 0 /\ upstream = 1
    OBVIOUS
  <2>2. Writes(p)
    BY <2>1 DEF Writes
  <2>3. Reads(p)
    BY <2>1 DEF Reads, ReadStages
  <2>4. QED
    BY <2>1, <2>2, <2>3 DEF Own, SyncStages
<1>6. QED
  BY <1>3, <1>4, <1>5 DEF Inv

(***************************************************************************)
(* What is common to the steps.                                            *)
(***************************************************************************)

(* A mirror that is not partial stays and its refs only become newer.      *)
MirrorKept ==
  HasMirror(FALSE) =>
    /\ HasMirror(FALSE)'
    /\ repo'["mirror"].heads >= repo["mirror"].heads
    /\ repo'["mirror"].tags >= repo["mirror"].tags

LEMMA FullMirrorStays ==
  ASSUME TypeOK, TypeOK', MirrorKept, NEW v \in Versions, FullMirror(v)
  PROVE  FullMirror(v)'
<1>1. /\ repo["mirror"] \in Repositories /\ repo'["mirror"] \in Repositories
  BY DEF TypeOK, Places
<1>2. /\ repo["mirror"].heads \in Nat /\ repo'["mirror"].heads \in Nat
      /\ repo["mirror"].tags \in Nat /\ repo'["mirror"].tags \in Nat /\ v \in Nat
  BY <1>1, MirrorAssumption DEF Repositories, Versions
<1>3. QED
  BY <1>2 DEF FullMirror, MirrorKept, HasMirror

(* A step of p leaves the others alone, and changes repositories only with *)
(* the lock.                                                               *)
LEMMA StepOf ==
  ASSUME Inv, TypeOK', Disk', MirrorKept, upstream <= upstream', NEW p \in Syncers,
         \A q \in Syncers \ {p} :
           pc'[q] = pc[q] /\ where'[q] = where[q] /\ asked'[q] = asked[q] /\ got'[q] = got[q],
         \/ pc[p] \in SyncStages /\ lock' \in {p, Free, Abandoned}
         \/ lock \notin Syncers /\ lock' = p
         \/ lock' = lock /\ repo' = repo,
         Own(p)'
  PROVE  Inv'
<1>1. ASSUME NEW q \in Syncers \ {p}
      PROVE  Own(q)'
  <2>1. pc'[q] = pc[q] /\ where'[q] = where[q] /\ asked'[q] = asked[q] /\ got'[q] = got[q]
    BY <1>1
  <2>2. Own(q) /\ asked[q] \in Versions
    BY DEF Inv, TypeOK
  <2>3. asked'[q] <= upstream'
    <3>1. asked[q] \in Nat /\ upstream \in Nat /\ upstream' \in Nat
      BY <2>2, MirrorAssumption DEF Inv, TypeOK, Versions
    <3>2. QED
      BY <2>1, <2>2, <3>1 DEF Own
  <2>4. Reads(q)'
    BY <2>1, <2>2, FullMirrorStays DEF Own, Reads, Inv
  <2>5. CASE lock' = lock /\ repo' = repo
    <3>1. Writes(q)'
      BY <2>1, <2>2, <2>5 DEF Own, Writes, HasMirror, FullMirror, Verified
    <3>2. QED
      BY <2>1, <2>2, <2>3, <2>4, <2>5, <3>1 DEF Own
  <2>6. CASE lock # q /\ lock' # q
    <3>1. pc'[q] \notin SyncStages
      BY <2>1, <2>2, <2>6 DEF Own
    <3>2. Writes(q)'
      BY <3>1 DEF Writes, SyncStages
    <3>3. QED
      BY <2>3, <2>4, <2>6, <3>1, <3>2 DEF Own
  <2>7. QED
    <3>1. pc[p] \in SyncStages => lock = p
      BY DEF Inv, Own
    <3>2. q # Free /\ q # Abandoned /\ q # p
      BY DistinctAssumption
    <3>3. QED
      BY <2>5, <2>6, <3>1, <3>2
<1>2. QED
  BY <1>1 DEF Inv

(* A step of the surroundings.                                             *)
LEMMA WorldMoves ==
  ASSUME Inv, TypeOK', UNCHANGED <<syncVars, lock, repo>>, upstream <= upstream'
  PROVE  Inv'
<1>1. /\ repo' = repo /\ lock' = lock /\ pc' = pc /\ where' = where /\ asked' = asked /\ got' = got
      /\ upstream \in Nat /\ upstream' \in Nat
  BY MirrorAssumption DEF syncVars, Inv, TypeOK
<1>2. Disk'
  <2>1. \A place \in Places : repo[place].heads \in Nat /\ repo[place].tags \in Nat
    BY MirrorAssumption DEF Inv, TypeOK, Repositories, Versions
  <2>2. \A place \in Places : repo[place].heads <= upstream' /\ repo[place].tags <= upstream'
    BY <1>1, <2>1 DEF Inv, Disk
  <2>3. QED
    BY <1>1, <2>2 DEF Inv, Disk
<1>3. ASSUME NEW p \in Syncers
      PROVE  Own(p)'
  <2>1. asked[p] \in Nat /\ Own(p)
    BY MirrorAssumption DEF Inv, TypeOK, Versions
  <2>2. asked'[p] <= upstream'
    BY <1>1, <2>1 DEF Own
  <2>3. Writes(p)'
    BY <1>1, <2>1 DEF Own, Writes, HasMirror, FullMirror, Verified
  <2>4. Reads(p)'
    BY <1>1, <2>1 DEF Own, Reads, HasMirror, FullMirror
  <2>5. QED
    BY <1>1, <2>1, <2>2, <2>3, <2>4 DEF Own
<1>4. QED
  BY <1>2, <1>3 DEF Inv

(* What the holder of the lock knows.                                      *)
LEMMA Held ==
  ASSUME Inv, NEW p \in Syncers, pc[p] \in SyncStages
  PROVE  /\ lock = p /\ Writes(p) /\ asked[p] \in Nat /\ asked[p] <= upstream
         /\ where[p] \in Places \ {"backup"} /\ upstream \in Nat \ {0} /\ upstream \in Versions
         /\ repo[where[p]] \in Repositories
         /\ \A place \in Places : repo[place] \in Repositories
         /\ \A v \in Versions : v \in Nat
BY MirrorAssumption DEF Inv, TypeOK, Own, Versions

(* A step that leaves the repositories alone.                              *)
LEMMA DiskStays ==
  ASSUME Inv, UNCHANGED <<repo, upstream>>
  PROVE  Disk' /\ MirrorKept /\ repo' \in [Places -> Repositories]
<1>1. repo["mirror"] \in Repositories
  BY DEF Inv, TypeOK, Places
<1>2. repo["mirror"].heads >= repo["mirror"].heads /\ repo["mirror"].tags >= repo["mirror"].tags
  BY <1>1, MirrorAssumption DEF Repositories, Versions
<1>3. QED
  BY <1>2 DEF Inv, TypeOK, Disk, MirrorKept, HasMirror

(* A step that changes one repository: the mirror only by adding refs.     *)
LEMMA DiskAt ==
  ASSUME Inv, NEW place \in Places, NEW r \in Repositories,
         repo' = [repo EXCEPT ![place] = r], UNCHANGED upstream,
         r.bare => r.there, r.heads <= upstream, r.tags <= upstream,
         place \in {"staging", "full"} => ~r.partial,
         place = "mirror" =>
           /\ HasMirror(FALSE) /\ r.there /\ ~r.partial /\ r.bare /\ r.origin
           /\ r.heads >= repo["mirror"].heads /\ r.tags >= repo["mirror"].tags
  PROVE  Disk' /\ MirrorKept /\ repo' \in [Places -> Repositories]
<1>1. /\ repo \in [Places -> Repositories] /\ {"mirror", "staging", "full", "backup"} = Places
      /\ repo["mirror"] \in Repositories
  BY DEF Inv, TypeOK, Places
<1>2. repo' \in [Places -> Repositories]
  BY <1>1
<1>3. /\ repo'[place] = r /\ \A other \in Places \ {place} : repo'[other] = repo[other]
  BY <1>1
<1>4. /\ repo["mirror"].heads \in Nat /\ repo["mirror"].tags \in Nat /\ r.heads \in Nat /\ r.tags \in Nat
  BY <1>1, MirrorAssumption DEF Repositories, Versions
<1>5. MirrorKept
  <2>1. CASE place = "mirror"
    BY <1>3, <2>1 DEF MirrorKept, HasMirror
  <2>2. CASE place # "mirror"
    <3>1. repo'["mirror"] = repo["mirror"]
      BY <1>1, <1>3, <2>2
    <3>2. QED
      BY <1>4, <3>1 DEF MirrorKept, HasMirror
  <2>3. QED
    BY <2>1, <2>2
<1>6. Disk'
  <2>1. \A other \in Places :
          /\ repo'[other].bare => repo'[other].there
          /\ repo'[other].heads <= upstream' /\ repo'[other].tags <= upstream'
    BY <1>3 DEF Inv, Disk
  <2>2. ~repo'["staging"].partial /\ ~repo'["full"].partial
    BY <1>1, <1>3 DEF Inv, Disk
  <2>3. LET m == repo'["mirror"]
        IN  m.there => /\ m.bare /\ m.origin /\ m.heads > 0 /\ m.tags > 0
                       /\ m.partial => m.sound
    <3>1. CASE place = "mirror"
      BY <1>3, <1>4, <3>1 DEF Inv, Disk, HasMirror
    <3>2. CASE place # "mirror"
      BY <1>1, <1>3, <3>2 DEF Inv, Disk
    <3>3. QED
      BY <3>1, <3>2
  <2>4. QED
    BY <2>1, <2>2, <2>3 DEF Disk
<1>7. QED
  BY <1>2, <1>5, <1>6

Stages == {"idle"} \cup SyncStages \cup ReadStages

(* A step of the holder of the lock.                                       *)
LEMMA SyncMoves ==
  ASSUME Inv, NEW p \in Syncers, pc[p] \in SyncStages,
         NEW s \in Stages, pc' = [pc EXCEPT ![p] = s],
         lock' \in {p, Free, Abandoned}, s \in SyncStages <=> lock' = p,
         NEW w \in Places \ {"backup"}, where' = [where EXCEPT ![p] = w],
         UNCHANGED <<asked, got, building, upstream, catalog>>,
         attempt' \in [Syncers -> 1 .. Attempts], worktrees' \subseteq Builders,
         parked' \subseteq Builders, failures' \in 0 .. MaxFailures,
         repo' \in [Places -> Repositories], Disk', MirrorKept,
         s \in SyncStages => Writes(p)',
         s \notin {"head", "refs"}, s = "synced" => FullMirror(asked[p])'
  PROVE  Inv'
<1>1. /\ pc \in [Syncers -> Stages] /\ where \in [Syncers -> Places \ {"backup"}]
      /\ upstream \in Nat /\ upstream <= upstream
  BY MirrorAssumption DEF Inv, TypeOK, Stages
<1>2. pc'[p] = s
  BY <1>1
<1>3. TypeOK'
  BY <1>1 DEF Inv, TypeOK, Stages
<1>4. Writes(p)'
  BY <1>2 DEF Writes, SyncStages
<1>5. Reads(p)'
  BY <1>2 DEF Reads, ReadStages
<1>6. Own(p)'
  BY <1>2, <1>4, <1>5 DEF Own, Inv
<1>7. QED
  BY <1>1, <1>3, <1>6, StepOf

LEMMA Kinds ==
  /\ {"mirror", "staging", "full"} = Places \ {"backup"} /\ "idle" \in Stages /\ "synced" \in Stages
  /\ SyncStages \subseteq Stages /\ "idle" \notin SyncStages /\ "synced" \notin SyncStages
  /\ SyncStages = {"locked", "prepare", "remote", "heads", "tags", "fsck", "verified", "moved", "discard"}
BY DEF Places, Stages, SyncStages, ReadStages

(* The holder goes on to s with the same repositories.                     *)
LEMMA MovesOn ==
  ASSUME Inv, NEW p \in Syncers, NEW from \in SyncStages, NEW s \in SyncStages, Go(p, from, s),
         NEW w \in Places \ {"backup"}, where' = [where EXCEPT ![p] = w],
         UNCHANGED <<attempt, got, asked, lock, repo, worktrees, parked, building,
                     upstream, catalog, failures>>,
         Writes(p)'
  PROVE  Inv'
<1>1. pc[p] \in SyncStages /\ pc' = [pc EXCEPT ![p] = s] /\ s \in Stages /\ s \notin {"head", "refs", "synced"}
  BY Kinds DEF Go
<1>2. lock' = p
  BY <1>1, Held
<1>3. Disk' /\ MirrorKept /\ repo' \in [Places -> Repositories]
  BY DiskStays
<1>4. QED
  BY <1>1, <1>2, <1>3, SyncMoves DEF Inv, TypeOK

(* The holder gives up the lock and ends, with or without success.         *)
LEMMA LetsGo ==
  ASSUME Inv, NEW p \in Syncers, pc[p] \in SyncStages, NEW s \in {"idle", "synced"},
         pc' = [pc EXCEPT ![p] = s], lock' \in {Free, Abandoned},
         attempt' \in [Syncers -> 1 .. Attempts], failures' \in 0 .. MaxFailures,
         worktrees' \subseteq Builders, parked' \subseteq Builders,
         UNCHANGED <<where, got, asked, building, upstream, catalog>>,
         repo' \in [Places -> Repositories], Disk', MirrorKept,
         s = "synced" => FullMirror(asked[p])'
  PROVE  Inv'
<1>1. s \in Stages /\ s \notin SyncStages /\ s \notin {"head", "refs"} /\ lock' # p
  BY Kinds, DistinctAssumption
<1>2. where[p] \in Places \ {"backup"} /\ where' = [where EXCEPT ![p] = where[p]]
  BY DEF Inv, TypeOK
<1>3. QED
  BY <1>1, <1>2, SyncMoves

(***************************************************************************)
(* Choosing and preparing a repository.                                    *)
(***************************************************************************)
LEMMA FirstSyncInv ==
  ASSUME Inv, NEW p \in Syncers, FirstSync(p)
  PROVE  Inv'
<1>1. Go(p, "locked", "prepare") /\ where' = [where EXCEPT ![p] = "staging"] /\ UNCHANGED repo
  BY DEF FirstSync
<1>2. pc'[p] = "prepare" /\ where'[p] = "staging" /\ ~repo'["mirror"].there
  BY <1>1 DEF FirstSync, Go, Inv, TypeOK
<1>3. Writes(p)'
  BY <1>2 DEF Writes
<1>4. QED
  BY <1>1, <1>3, MovesOn, Kinds DEF FirstSync

(* What the removal of the first staging repository leaves.                *)
LEMMA StagingGone ==
  ASSUME Inv, repo' = WithoutStaging, UNCHANGED upstream
  PROVE  /\ Disk' /\ MirrorKept /\ repo' \in [Places -> Repositories]
         /\ repo'["mirror"] = repo["mirror"] /\ repo'["full"] = repo["full"]
<1>1. 0 <= upstream
  BY MirrorAssumption DEF Inv, TypeOK
<1>2. "staging" \in Places /\ "mirror" \in Places /\ "full" \in Places
  BY DEF Places
<1>3. repo'["mirror"] = repo["mirror"] /\ repo'["full"] = repo["full"]
  BY <1>2 DEF WithoutStaging, Inv, TypeOK
<1>4. repo' = [repo EXCEPT !["staging"] = NoRepo]
  BY DEF WithoutStaging
<1>5. QED
  BY <1>1, <1>2, <1>3, <1>4, DiskAt, RepositoryKinds

LEMMA ChosenInv ==
  ASSUME Inv, NEW p \in Syncers, UpdateMirror(p) \/ UpgradePartial(p)
  PROVE  Inv'
<1>1. PICK s \in {"heads", "prepare"}, w \in {"mirror", "full"} :
        /\ Go(p, "locked", s) /\ where' = [where EXCEPT ![p] = w]
        /\ s = "heads" => w = "mirror" /\ HasMirror(FALSE)
        /\ s = "prepare" => w = "full" /\ HasMirror(TRUE)
  BY DEF UpdateMirror, UpgradePartial
<1>2. /\ repo' = WithoutStaging
      /\ UNCHANGED <<attempt, got, asked, lock, worktrees, parked, building, upstream, catalog, failures>>
  BY DEF UpdateMirror, UpgradePartial
<1>3. /\ Disk' /\ MirrorKept /\ repo' \in [Places -> Repositories] /\ repo'["mirror"] = repo["mirror"]
  BY <1>2, StagingGone
<1>4. pc'[p] = s /\ where'[p] = w /\ pc[p] \in SyncStages /\ pc' = [pc EXCEPT ![p] = s]
  BY <1>1, Kinds DEF Go, Inv, TypeOK
<1>5. HasMirror(FALSE) => repo["mirror"].bare /\ repo["mirror"].origin
  BY DEF Inv, Disk, HasMirror
<1>6. Writes(p)'
  <2>1. CASE s = "heads"
    BY <1>1, <1>3, <1>4, <1>5, <2>1 DEF Writes, HasMirror
  <2>2. CASE s = "prepare"
    BY <1>1, <1>3, <1>4, <2>2 DEF Writes, HasMirror
  <2>3. QED
    BY <2>1, <2>2
<1>7. s \in SyncStages /\ s \in Stages /\ s \notin {"head", "refs", "synced"} /\ w \in Places \ {"backup"}
  BY Kinds
<1>8. lock' = p
  BY <1>2, <1>4, Held
<1>9. QED
  BY <1>1, <1>2, <1>3, <1>4, <1>6, <1>7, <1>8, SyncMoves DEF Inv, TypeOK

LEMMA UpgradeRefusedInv ==
  ASSUME Inv, NEW p \in Syncers, UpgradeRefused(p)
  PROVE  Inv'
<1>1. pc[p] \in SyncStages /\ pc' = [pc EXCEPT ![p] = "idle"]
  BY Kinds DEF UpgradeRefused, Go
<1>2. Disk' /\ MirrorKept /\ repo' \in [Places -> Repositories]
  BY StagingGone DEF UpgradeRefused
<1>3. QED
  BY <1>1, <1>2, LetsGo DEF UpgradeRefused, Inv, TypeOK

LEMMA InitBareInv ==
  ASSUME Inv, NEW p \in Syncers, InitBare(p)
  PROVE  Inv'
<1>1. pc[p] = "prepare" /\ pc[p] \in SyncStages /\ pc' = [pc EXCEPT ![p] = "remote"] /\ pc'[p] = "remote"
  BY Kinds DEF InitBare, Go, Inv, TypeOK
<1>2. /\ lock = p /\ Writes(p) /\ where[p] \in Places \ {"backup"} /\ 0 <= upstream /\ where[p] # "mirror"
      /\ where' = where /\ where' = [where EXCEPT ![p] = where[p]]
  <2>1. lock = p /\ Writes(p) /\ where[p] \in Places \ {"backup"} /\ upstream \in Nat
    BY <1>1, Held
  <2>2. where[p] # "mirror"
    BY <1>1, <2>1 DEF Writes
  <2>3. QED
    BY <2>1, <2>2 DEF InitBare, Inv, TypeOK
<1>3. /\ repo' = [repo EXCEPT ![where[p]] = Empty]
      /\ UNCHANGED <<attempt, got, asked, lock, worktrees, parked, building, upstream, catalog, failures>>
  BY DEF InitBare
<1>4. Disk' /\ MirrorKept /\ repo' \in [Places -> Repositories]
  BY <1>2, <1>3, DiskAt, RepositoryKinds
<1>5. repo'[where[p]] = Empty /\ repo'["mirror"] = repo["mirror"]
  BY <1>2, <1>3, Kinds DEF Inv, TypeOK
<1>6. Writes(p)'
  BY <1>1, <1>2, <1>5, RepositoryKinds DEF Writes, HasMirror
<1>7. "remote" \in SyncStages /\ "remote" \in Stages
  BY Kinds
<1>8. QED
  BY <1>1, <1>2, <1>3, <1>4, <1>6, <1>7, SyncMoves DEF Inv, TypeOK

(* The holder changes the repository it fetches into to r.                 *)
LEMMA Changes ==
  ASSUME Inv, NEW p \in Syncers, pc[p] \in {"prepare", "remote", "heads", "tags"},
         NEW r \in Repositories, repo' = [repo EXCEPT ![where[p]] = r], UNCHANGED upstream,
         r.bare => r.there, r.heads <= upstream, r.tags <= upstream, ~r.partial,
         where[p] = "mirror" =>
           /\ r.there /\ r.bare /\ r.origin
           /\ r.heads >= repo["mirror"].heads /\ r.tags >= repo["mirror"].tags
  PROVE  /\ Disk' /\ MirrorKept /\ repo' \in [Places -> Repositories]
         /\ repo'[where[p]] = r
         /\ where[p] = "staging" => ~repo'["mirror"].there
         /\ where[p] = "full" => HasMirror(TRUE)'
         /\ where[p] = "mirror" => HasMirror(FALSE)'
<1>1. pc[p] \in SyncStages
  BY Kinds
<1>2. /\ Writes(p) /\ where[p] \in {"mirror", "staging", "full"}
      /\ repo \in [Places -> Repositories]
  BY <1>1, Held, Kinds DEF Inv, TypeOK
<1>3. /\ where[p] = "staging" => ~repo["mirror"].there
      /\ where[p] = "full" => HasMirror(TRUE)
      /\ where[p] = "mirror" => HasMirror(FALSE)
  BY <1>2 DEF Writes
<1>4. where[p] \in Places /\ "mirror" \in Places
  BY <1>2, Kinds
<1>5. Disk' /\ MirrorKept /\ repo' \in [Places -> Repositories]
  BY <1>3, <1>4, DiskAt
<1>6. repo'[where[p]] = r /\ (where[p] # "mirror" => repo'["mirror"] = repo["mirror"])
  BY <1>2, <1>4
<1>7. QED
  BY <1>3, <1>5, <1>6 DEF HasMirror

(* The repository the holder fetches into is of the kind that is fetched.  *)
LEMMA Fetched ==
  ASSUME Inv, NEW p \in Syncers, pc[p] \in {"prepare", "remote", "heads", "tags"}
  PROVE  LET r == repo[where[p]]
         IN  /\ r \in Repositories /\ ~r.partial /\ (r.bare => r.there)
             /\ r.heads \in Nat /\ r.tags \in Nat /\ r.heads <= upstream /\ r.tags <= upstream
             /\ where[p] = "mirror" => r.there /\ r.bare /\ r.origin /\ pc[p] \in {"heads", "tags"}
<1>1. pc[p] \in SyncStages
  BY Kinds
<1>2. Writes(p) /\ where[p] \in {"mirror", "staging", "full"} /\ repo[where[p]] \in Repositories
  BY <1>1, Held, Kinds
<1>3. repo[where[p]].heads \in Nat /\ repo[where[p]].tags \in Nat
  BY <1>2, MirrorAssumption DEF Repositories, Versions
<1>4. where[p] = "mirror" => HasMirror(FALSE) /\ pc[p] \notin {"prepare", "remote"}
  BY <1>2 DEF Writes
<1>5. where[p] \in Places
  BY <1>2, Kinds
<1>6. QED
  BY <1>2, <1>3, <1>4, <1>5 DEF Inv, Disk, HasMirror

LEMMA AddRemoteInv ==
  ASSUME Inv, NEW p \in Syncers, AddRemote(p)
  PROVE  Inv'
<1>1. /\ pc[p] = "remote" /\ pc[p] \in SyncStages /\ pc' = [pc EXCEPT ![p] = "heads"] /\ pc'[p] = "heads"
      /\ where' = where /\ where' = [where EXCEPT ![p] = where[p]]
      /\ UNCHANGED <<attempt, got, asked, lock, worktrees, parked, building, upstream, catalog, failures>>
  BY Kinds DEF AddRemote, Go, Inv, TypeOK
<1>2. lock = p /\ Writes(p) /\ where[p] \in Places \ {"backup"}
  BY <1>1, Held
<1>3. PICK r : r = [repo[where[p]] EXCEPT !.origin = TRUE]
  OBVIOUS
<1>4. repo' = [repo EXCEPT ![where[p]] = r]
  BY <1>3 DEF AddRemote
<1>5. /\ r \in Repositories /\ r.bare = repo[where[p]].bare /\ r.there = repo[where[p]].there
      /\ r.heads = repo[where[p]].heads /\ r.tags = repo[where[p]].tags /\ r.origin
      /\ r.partial = repo[where[p]].partial
  BY <1>1, <1>3, Fetched DEF Repositories
<1>6. where[p] # "mirror" /\ repo[where[p]].bare
  BY <1>1, <1>2 DEF Writes
<1>7. /\ Disk' /\ MirrorKept /\ repo' \in [Places -> Repositories] /\ repo'[where[p]] = r
      /\ where[p] = "staging" => ~repo'["mirror"].there
      /\ where[p] = "full" => HasMirror(TRUE)'
  BY <1>1, <1>4, <1>5, <1>6, Changes, Fetched
<1>8. Writes(p)'
  BY <1>1, <1>5, <1>6, <1>7 DEF Writes
<1>9. "heads" \in SyncStages /\ "heads" \in Stages
  BY Kinds
<1>10. QED
  BY <1>1, <1>2, <1>7, <1>8, <1>9, SyncMoves DEF Inv, TypeOK

LEMMA SetURLInv ==
  ASSUME Inv, NEW p \in Syncers, SetURL(p)
  PROVE  Inv'
<1>1. /\ pc[p] = "prepare" /\ pc[p] \in SyncStages /\ pc'[p] = "heads" /\ Go(p, "prepare", "heads")
      /\ where' = where /\ where' = [where EXCEPT ![p] = where[p]]
      /\ UNCHANGED <<attempt, got, asked, lock, repo, worktrees, parked, building,
                     upstream, catalog, failures>>
  BY Kinds DEF SetURL, Go, Inv, TypeOK
<1>2. Writes(p) /\ where[p] \in Places \ {"backup"}
  BY <1>1, Held
<1>3. repo[where[p]].bare /\ repo[where[p]].origin
  BY DEF SetURL
<1>4. Writes(p)'
  BY <1>1, <1>2, <1>3 DEF Writes, HasMirror
<1>5. "heads" \in SyncStages /\ "prepare" \in SyncStages
  BY Kinds
<1>6. QED
  BY <1>1, <1>2, <1>4, <1>5, MovesOn

(* Commands that give up before they have changed anything.                *)
LEMMA GivesUpInv ==
  ASSUME Inv, NEW p \in Syncers, SetURLFails(p) \/ LastAttemptFails(p) \/ FsckFails(p)
  PROVE  Inv'
<1>1. pc[p] \in SyncStages /\ pc' = [pc EXCEPT ![p] = "idle"]
  BY Kinds DEF SetURLFails, LastAttemptFails, FsckFails, Go
<1>2. /\ lock' = Free
      /\ UNCHANGED <<where, got, asked, repo, worktrees, parked, building, upstream, catalog, failures>>
  BY DEF SetURLFails, LastAttemptFails, FsckFails
<1>3. Disk' /\ MirrorKept /\ repo' \in [Places -> Repositories]
  BY <1>2, DiskStays
<1>4. attempt' \in [Syncers -> 1 .. Attempts]
  BY MirrorAssumption DEF SetURLFails, LastAttemptFails, FsckFails, Inv, TypeOK
<1>5. QED
  BY <1>1, <1>2, <1>3, <1>4, LetsGo DEF Inv, TypeOK

(***************************************************************************)
(* Fetching.                                                               *)
(***************************************************************************)

(* The refs of the repository are updated, and the holder goes on to s.    *)
LEMMA FetchesTo ==
  ASSUME Inv, NEW p \in Syncers, pc[p] \in {"heads", "tags"},
         NEW s \in {"heads", "tags", "fsck"}, pc' = [pc EXCEPT ![p] = s],
         NEW heads \in {repo[where[p]].heads, upstream}, NEW tags \in {repo[where[p]].tags, upstream},
         repo' = [repo EXCEPT ![where[p]] = [repo[where[p]] EXCEPT !.heads = heads, !.tags = tags]],
         attempt' \in [Syncers -> 1 .. Attempts],
         UNCHANGED <<where, got, asked, lock, worktrees, parked, building, upstream, catalog, failures>>,
         s \in {"tags", "fsck"} => heads = upstream \/ (pc[p] = "tags" /\ heads = repo[where[p]].heads),
         s = "fsck" => tags = upstream
  PROVE  Inv'
<1>1. /\ pc[p] \in SyncStages /\ pc'[p] = s
      /\ where' = where /\ where' = [where EXCEPT ![p] = where[p]] /\ asked' = asked
  BY Kinds DEF Inv, TypeOK
<1>2. /\ lock = p /\ Writes(p) /\ where[p] \in Places \ {"backup"}
      /\ upstream \in Nat \ {0} /\ upstream \in Versions /\ asked[p] \in Nat /\ asked[p] <= upstream
  BY <1>1, Held
<1>3. PICK r : r = [repo[where[p]] EXCEPT !.heads = heads, !.tags = tags]
  OBVIOUS
<1>4. /\ repo[where[p]] \in Repositories /\ ~repo[where[p]].partial
      /\ repo[where[p]].bare => repo[where[p]].there
      /\ repo[where[p]].heads \in Nat /\ repo[where[p]].tags \in Nat
      /\ repo[where[p]].heads <= upstream /\ repo[where[p]].tags <= upstream
      /\ where[p] = "mirror" => repo[where[p]].there
  BY Fetched
<1>5. heads \in Versions /\ tags \in Versions
  BY <1>2, <1>4 DEF Repositories
<1>6. /\ r \in Repositories /\ r.bare = repo[where[p]].bare /\ r.there = repo[where[p]].there
      /\ r.heads = heads /\ r.tags = tags /\ r.origin = repo[where[p]].origin
      /\ r.partial = repo[where[p]].partial
  BY <1>3, <1>4, <1>5 DEF Repositories
<1>7. repo[where[p]].bare /\ repo[where[p]].origin
  BY <1>2 DEF Writes
<1>8. /\ repo[where[p]].heads <= heads /\ heads <= upstream
      /\ repo[where[p]].tags <= tags /\ tags <= upstream
  BY <1>2, <1>4
<1>9. /\ Disk' /\ MirrorKept /\ repo' \in [Places -> Repositories] /\ repo'[where[p]] = r
      /\ where[p] = "staging" => ~repo'["mirror"].there
      /\ where[p] = "full" => HasMirror(TRUE)'
      /\ where[p] = "mirror" => HasMirror(FALSE)'
  <2>1. where[p] = "mirror" =>
           /\ r.there /\ r.bare /\ r.origin
           /\ r.heads >= repo["mirror"].heads /\ r.tags >= repo["mirror"].tags
    BY <1>4, <1>6, <1>7, <1>8
  <2>2. (r.bare => r.there) /\ r.heads <= upstream /\ r.tags <= upstream /\ ~r.partial
    BY <1>4, <1>6, <1>8
  <2>3. repo' = [repo EXCEPT ![where[p]] = r]
    BY <1>3
  <2>4. QED
    BY <1>6, <2>1, <2>2, <2>3, Changes
<1>10. s \in {"tags", "fsck"} => heads >= asked[p] /\ heads > 0
  BY <1>2 DEF Writes
<1>11. s = "fsck" => tags >= asked[p] /\ tags > 0
  BY <1>2
<1>12. Writes(p)'
  BY <1>1, <1>6, <1>7, <1>9, <1>10, <1>11 DEF Writes
<1>13. s \in SyncStages /\ s \in Stages /\ s \notin {"head", "refs", "synced"} /\ lock' = p
  BY <1>2, Kinds
<1>14. QED
  BY <1>1, <1>2, <1>9, <1>12, <1>13, SyncMoves DEF Inv, TypeOK

LEMMA FetchInv ==
  ASSUME Inv, NEW p \in Syncers, FetchHeads(p) \/ FetchTags(p) \/ AttemptFails(p)
  PROVE  Inv'
<1>1. repo \in [Places -> Repositories] /\ where[p] \in Places /\ repo[where[p]] \in Repositories
  BY DEF Inv, TypeOK
<1>2. [repo EXCEPT ![where[p]] = [repo[where[p]] EXCEPT !.heads = repo[where[p]].heads, !.tags = repo[where[p]].tags]] = repo
  BY <1>1 DEF Repositories
<1>3. CASE FetchHeads(p)
  <2>1. PICK tags \in {repo[where[p]].tags, upstream} :
          repo' = [repo EXCEPT ![where[p]].heads = upstream, ![where[p]].tags = tags]
    BY <1>3 DEF FetchHeads
  <2>2. repo' = [repo EXCEPT ![where[p]] = [repo[where[p]] EXCEPT !.heads = upstream, !.tags = tags]]
    BY <1>1, <2>1
  <2>3. pc[p] = "heads" /\ pc' = [pc EXCEPT ![p] = "tags"] /\ attempt' \in [Syncers -> 1 .. Attempts]
    BY <1>3, MirrorAssumption DEF FetchHeads, Go, Inv, TypeOK
  <2>4. QED
    BY <1>3, <2>2, <2>3, FetchesTo DEF FetchHeads
<1>4. CASE FetchTags(p)
  <2>1. repo' = [repo EXCEPT ![where[p]] = [repo[where[p]] EXCEPT !.heads = repo[where[p]].heads, !.tags = upstream]]
    BY <1>1, <1>4 DEF FetchTags, Repositories
  <2>2. pc[p] = "tags" /\ pc' = [pc EXCEPT ![p] = "fsck"] /\ attempt' \in [Syncers -> 1 .. Attempts]
    BY <1>4, MirrorAssumption DEF FetchTags, Go, Inv, TypeOK
  <2>3. QED
    BY <1>4, <2>1, <2>2, FetchesTo DEF FetchTags
<1>5. CASE AttemptFails(p)
  <2>1. /\ pc[p] \in {"heads", "tags"} /\ pc' = [pc EXCEPT ![p] = pc[p]]
        /\ attempt' \in [Syncers -> 1 .. Attempts]
    BY <1>5, MirrorAssumption DEF AttemptFails, Inv, TypeOK
  <2>2. PICK heads \in {repo[where[p]].heads, upstream}, tags \in {repo[where[p]].tags, upstream} :
          /\ repo' = [repo EXCEPT ![where[p]] = [repo[where[p]] EXCEPT !.heads = heads, !.tags = tags]]
          /\ pc[p] = "tags" => heads = repo[where[p]].heads
    <3>1. CASE UNCHANGED repo
      BY <1>2, <3>1
    <3>2. CASE pc[p] = "heads" /\ repo' = [repo EXCEPT ![where[p]].heads = upstream]
      <4>1. repo' = [repo EXCEPT ![where[p]] = [repo[where[p]] EXCEPT !.heads = upstream, !.tags = repo[where[p]].tags]]
        BY <1>1, <3>2 DEF Repositories
      <4>2. QED
        BY <3>2, <4>1
    <3>3. CASE pc[p] = "tags" /\ repo' = [repo EXCEPT ![where[p]].tags = upstream]
      <4>1. repo' = [repo EXCEPT ![where[p]] = [repo[where[p]] EXCEPT !.heads = repo[where[p]].heads, !.tags = upstream]]
        BY <1>1, <3>3 DEF Repositories
      <4>2. QED
        BY <3>3, <4>1
    <3>4. QED
      BY <1>5, <3>1, <3>2, <3>3 DEF AttemptFails
  <2>3. pc[p] \in {"heads", "tags", "fsck"} /\ pc[p] # "fsck"
    BY <2>1
  <2>4. QED
    BY <1>5, <2>1, <2>2, <2>3, FetchesTo DEF AttemptFails
<1>6. QED
  BY <1>3, <1>4, <1>5

(***************************************************************************)
(* Verifying and activating.                                               *)
(***************************************************************************)
LEMMA FsckInv ==
  ASSUME Inv, NEW p \in Syncers, Fsck(p)
  PROVE  Inv'
<1>1. /\ pc[p] = "fsck" /\ pc[p] \in SyncStages /\ pc'[p] = "verified" /\ Go(p, "fsck", "verified")
      /\ where' = where /\ where' = [where EXCEPT ![p] = where[p]]
      /\ UNCHANGED <<attempt, got, asked, lock, repo, worktrees, parked, building,
                     upstream, catalog, failures>>
  BY Kinds DEF Fsck, Go, Inv, TypeOK
<1>2. Writes(p) /\ where[p] \in Places \ {"backup"}
  BY <1>1, Held
<1>3. where[p] # "mirror" /\ repo[where[p]].sound
  BY DEF Fsck
<1>4. Writes(p)'
  BY <1>1, <1>2, <1>3 DEF Writes, HasMirror
<1>5. "fsck" \in SyncStages /\ "verified" \in SyncStages
  BY Kinds
<1>6. QED
  BY <1>1, <1>2, <1>4, <1>5, MovesOn

LEMMA FsckInPlaceInv ==
  ASSUME Inv, NEW p \in Syncers, FsckInPlace(p)
  PROVE  Inv'
<1>1. /\ pc[p] = "fsck" /\ pc[p] \in SyncStages /\ pc' = [pc EXCEPT ![p] = "synced"] /\ lock' = Free
      /\ UNCHANGED <<repo, where, attempt, got, asked, worktrees, parked, building, upstream,
                     catalog, failures>>
  BY Kinds DEF FsckInPlace, Succeed, Go
<1>2. Writes(p) /\ where[p] = "mirror"
  BY <1>1, Held DEF FsckInPlace
<1>3. HasMirror(FALSE) /\ repo["mirror"].heads >= asked[p] /\ repo["mirror"].tags >= asked[p]
  BY <1>1, <1>2 DEF Writes
<1>4. FullMirror(asked[p])'
  BY <1>1, <1>3 DEF FullMirror, HasMirror
<1>5. Disk' /\ MirrorKept /\ repo' \in [Places -> Repositories]
  BY <1>1, DiskStays
<1>6. QED
  BY <1>1, <1>4, <1>5, LetsGo DEF Inv, TypeOK

(* The repositories when there was no full mirror and now there may be.    *)
LEMMA DiskSwitched ==
  ASSUME Inv, UNCHANGED upstream, ~HasMirror(FALSE), repo' \in [Places -> Repositories],
         NEW r \in Repositories, repo'["mirror"] = r,
         \A place \in Places : \/ repo'[place] = NoRepo
                               \/ \E old \in Places : repo'[place] = repo[old],
         \A place \in {"staging", "full"} : repo'[place] \in {repo[place], NoRepo},
         r.there => Verified(r)
  PROVE  Disk' /\ MirrorKept
<1>1. upstream \in Nat /\ upstream' = upstream
  BY MirrorAssumption DEF Inv, TypeOK
<1>2. \A place \in Places :
        /\ repo'[place].bare => repo'[place].there
        /\ repo'[place].heads <= upstream' /\ repo'[place].tags <= upstream'
  BY <1>1, RepositoryKinds DEF Inv, Disk
<1>3. ~repo'["staging"].partial /\ ~repo'["full"].partial
  BY RepositoryKinds DEF Inv, Disk
<1>4. Disk'
  BY <1>2, <1>3 DEF Disk, Verified
<1>5. QED
  BY <1>4 DEF MirrorKept

LEMMA ActivateInv ==
  ASSUME Inv, NEW p \in Syncers, Activate(p)
  PROVE  Inv' /\ Verified(repo'["mirror"])
<1>1. /\ pc[p] = "verified" /\ pc[p] \in SyncStages /\ pc' = [pc EXCEPT ![p] = "synced"] /\ lock' = Free
      /\ UNCHANGED <<where, attempt, got, asked, worktrees, parked, building, upstream,
                     catalog, failures>>
  BY Kinds DEF Activate, Succeed, Go
<1>2. Writes(p) /\ where[p] = "staging" /\ repo["staging"] \in Repositories
  BY <1>1, Held DEF Activate
<1>3. /\ repo["staging"].heads >= asked[p] /\ repo["staging"].tags >= asked[p]
      /\ ~repo["mirror"].there /\ Verified(repo["staging"]) /\ ~repo["staging"].partial
  <2>1. /\ repo["staging"].heads >= asked[p] /\ repo["staging"].tags >= asked[p]
        /\ ~repo["mirror"].there /\ repo["staging"].bare /\ repo["staging"].origin
        /\ repo["staging"].sound /\ repo["staging"].heads > 0 /\ repo["staging"].tags > 0
    BY <1>1, <1>2 DEF Writes
  <2>2. repo["staging"].there /\ ~repo["staging"].partial
    BY <2>1, Kinds DEF Inv, Disk
  <2>3. QED
    BY <2>1, <2>2 DEF Verified
<1>4. /\ repo' \in [Places -> Repositories]
      /\ repo'["mirror"] = repo["staging"] /\ repo'["staging"] = NoRepo
      /\ \A place \in Places \ {"mirror", "staging"} : repo'[place] = repo[place]
  BY <1>2, Kinds, RepositoryKinds DEF Activate, Inv, TypeOK
<1>5. Disk' /\ MirrorKept
  <2>1. ~HasMirror(FALSE)
    BY <1>3 DEF HasMirror
  <2>2. \A place \in Places : \/ repo'[place] = NoRepo
                              \/ \E old \in Places : repo'[place] = repo[old]
    BY <1>4, Kinds
  <2>3. \A place \in {"staging", "full"} : repo'[place] \in {repo[place], NoRepo}
    BY <1>4, Kinds
  <2>4. QED
    BY <1>1, <1>2, <1>3, <1>4, <2>1, <2>2, <2>3, DiskSwitched
<1>6. FullMirror(asked[p])'
  BY <1>1, <1>3, <1>4 DEF FullMirror, HasMirror, Verified
<1>7. Inv'
  BY <1>1, <1>4, <1>5, <1>6, LetsGo DEF Inv, TypeOK
<1>8. QED
  BY <1>3, <1>4, <1>7

LEMMA MoveAsideInv ==
  ASSUME Inv, NEW p \in Syncers, MoveAside(p)
  PROVE  Inv' /\ repo'["backup"].there
<1>1. /\ pc[p] = "verified" /\ pc[p] \in SyncStages /\ pc' = [pc EXCEPT ![p] = "moved"] /\ pc'[p] = "moved"
      /\ where' = where /\ where' = [where EXCEPT ![p] = where[p]]
      /\ parked' = worktrees /\ worktrees' = {}
      /\ UNCHANGED <<attempt, got, asked, lock, building, upstream, catalog, failures>>
  BY Kinds DEF MoveAside, Go, Inv, TypeOK
<1>2. /\ lock = p /\ Writes(p) /\ where[p] = "full" /\ where[p] \in Places \ {"backup"}
      /\ repo["mirror"] \in Repositories
  BY <1>1, Held, Kinds DEF MoveAside
<1>3. /\ repo["full"].bare /\ repo["full"].origin /\ repo["full"].sound
      /\ repo["full"].heads >= asked[p] /\ repo["full"].heads > 0
      /\ repo["full"].tags >= asked[p] /\ repo["full"].tags > 0
      /\ HasMirror(TRUE)
  BY <1>1, <1>2 DEF Writes
<1>4. Verified(repo["mirror"]) /\ ~HasMirror(FALSE)
  BY <1>3 DEF Inv, Disk, HasMirror, Verified
<1>5. /\ repo' \in [Places -> Repositories]
      /\ repo'["mirror"] = NoRepo /\ repo'["backup"] = repo["mirror"]
      /\ \A place \in {"staging", "full"} : repo'[place] = repo[place]
  BY <1>2, Kinds, RepositoryKinds DEF MoveAside, Places, Inv, TypeOK
<1>6. Disk' /\ MirrorKept
  <2>1. \A place \in Places : \/ repo'[place] = NoRepo
                              \/ \E old \in Places : repo'[place] = repo[old]
    BY <1>5 DEF Places
  <2>2. \A place \in {"staging", "full"} : repo'[place] \in {repo[place], NoRepo}
    BY <1>5
  <2>3. NoRepo \in Repositories /\ ~NoRepo.there
    BY RepositoryKinds
  <2>4. QED
    BY <1>1, <1>4, <1>5, <2>1, <2>2, <2>3, DiskSwitched
<1>7. Writes(p)'
  <2>1. Verified(repo'["backup"]) /\ ~repo'["mirror"].there
    BY <1>4, <1>5, RepositoryKinds
  <2>2. repo'[where'[p]] = repo["full"] /\ where'[p] = "full"
    BY <1>1, <1>2, <1>5
  <2>3. QED
    BY <1>1, <1>3, <2>1, <2>2 DEF Writes, Verified
<1>8. "moved" \in SyncStages /\ "moved" \in Stages /\ lock' = p
  BY <1>1, <1>2, Kinds
<1>9. Inv'
  BY <1>1, <1>2, <1>5, <1>6, <1>7, <1>8, SyncMoves DEF Inv, TypeOK
<1>10. QED
  BY <1>4, <1>5, <1>9 DEF Verified

LEMMA ActivateFullInv ==
  ASSUME Inv, NEW p \in Syncers, ActivateFull(p)
  PROVE  Inv' /\ Verified(repo'["mirror"])
<1>1. /\ pc[p] = "moved" /\ pc[p] \in SyncStages /\ pc' = [pc EXCEPT ![p] = "discard"] /\ pc'[p] = "discard"
      /\ where' = where /\ where' = [where EXCEPT ![p] = where[p]]
      /\ UNCHANGED <<attempt, got, asked, lock, worktrees, parked, building, upstream, catalog, failures>>
  BY Kinds DEF ActivateFull, Go, Inv, TypeOK
<1>2. lock = p /\ Writes(p) /\ where[p] \in Places \ {"backup"} /\ repo["full"] \in Repositories
  BY <1>1, Held, Kinds
<1>3. /\ where[p] = "full" /\ ~repo["mirror"].there /\ Verified(repo["full"]) /\ ~repo["full"].partial
      /\ repo["full"].heads >= asked[p] /\ repo["full"].tags >= asked[p]
  <2>1. where[p] = "full"
    BY <1>1, <1>2 DEF Writes
  <2>2. /\ repo["full"].bare /\ repo["full"].origin /\ repo["full"].sound
        /\ repo["full"].heads >= asked[p] /\ repo["full"].heads > 0
        /\ repo["full"].tags >= asked[p] /\ repo["full"].tags > 0
        /\ ~repo["mirror"].there
    BY <1>1, <1>2, <2>1 DEF Writes
  <2>3. repo["full"].there /\ ~repo["full"].partial
    BY <2>2, Kinds DEF Inv, Disk
  <2>4. QED
    BY <2>1, <2>2, <2>3 DEF Verified
<1>4. /\ repo' \in [Places -> Repositories]
      /\ repo'["mirror"] = repo["full"] /\ repo'["full"] = NoRepo
      /\ \A place \in Places \ {"mirror", "full"} : repo'[place] = repo[place]
  BY <1>2, Kinds, RepositoryKinds DEF ActivateFull, Inv, TypeOK
<1>5. Disk' /\ MirrorKept
  <2>1. ~HasMirror(FALSE)
    BY <1>3 DEF HasMirror
  <2>2. \A place \in Places : \/ repo'[place] = NoRepo
                              \/ \E old \in Places : repo'[place] = repo[old]
    BY <1>4, Kinds
  <2>3. \A place \in {"staging", "full"} : repo'[place] \in {repo[place], NoRepo}
    BY <1>4, Kinds
  <2>4. QED
    BY <1>1, <1>2, <1>3, <1>4, <2>1, <2>2, <2>3, DiskSwitched
<1>6. FullMirror(asked[p])'
  BY <1>1, <1>3, <1>4 DEF FullMirror, HasMirror, Verified
<1>7. Writes(p)'
  BY <1>1, <1>6 DEF Writes
<1>8. "discard" \in SyncStages /\ "discard" \in Stages /\ lock' = p
  BY <1>1, <1>2, Kinds
<1>9. Inv'
  BY <1>1, <1>2, <1>4, <1>5, <1>7, <1>8, SyncMoves DEF Inv, TypeOK
<1>10. QED
  BY <1>3, <1>4, <1>9

LEMMA ActivateFullFailsInv ==
  ASSUME Inv, NEW p \in Syncers, ActivateFullFails(p)
  PROVE  /\ Inv'
         /\ repo'["mirror"].there => Verified(repo'["mirror"])
         /\ repo'["mirror"].there \/ repo'["backup"].there
<1>1. /\ pc[p] = "moved" /\ pc[p] \in SyncStages /\ pc' = [pc EXCEPT ![p] = "idle"] /\ lock' = Free
      /\ failures' \in 0 .. MaxFailures
      /\ UNCHANGED <<where, attempt, got, asked, building, upstream, catalog>>
  BY Kinds, MirrorAssumption DEF ActivateFullFails, Go, Inv, TypeOK
<1>2. Writes(p) /\ repo["backup"] \in Repositories /\ "backup" \in Places /\ "mirror" \in Places
  BY <1>1, Held DEF Places
<1>3. ~repo["mirror"].there /\ Verified(repo["backup"])
  BY <1>1, <1>2 DEF Writes
<1>4. CASE /\ repo' = [repo EXCEPT !["mirror"] = repo["backup"], !["backup"] = NoRepo]
           /\ worktrees' = parked /\ parked' = {}
  <2>1. /\ repo' \in [Places -> Repositories]
        /\ repo'["mirror"] = repo["backup"] /\ repo'["backup"] = NoRepo
        /\ \A place \in Places \ {"mirror", "backup"} : repo'[place] = repo[place]
    BY <1>2, <1>4, RepositoryKinds DEF Inv, TypeOK
  <2>2. Disk' /\ MirrorKept
    <3>1. ~HasMirror(FALSE)
      BY <1>3 DEF HasMirror
    <3>2. \A place \in Places : \/ repo'[place] = NoRepo
                                \/ \E old \in Places : repo'[place] = repo[old]
      BY <1>2, <2>1
    <3>3. \A place \in {"staging", "full"} : repo'[place] \in {repo[place], NoRepo}
      BY <2>1 DEF Places
    <3>4. QED
      BY <1>1, <1>2, <1>3, <2>1, <3>1, <3>2, <3>3, DiskSwitched
  <2>3. Inv'
    BY <1>1, <1>4, <2>1, <2>2, LetsGo DEF Inv, TypeOK
  <2>4. QED
    BY <1>3, <2>1, <2>3 DEF Verified
<1>5. CASE UNCHANGED <<repo, worktrees, parked>>
  <2>1. Disk' /\ MirrorKept /\ repo' \in [Places -> Repositories]
    BY <1>1, <1>5, DiskStays
  <2>2. Inv'
    BY <1>1, <1>5, <2>1, LetsGo DEF Inv, TypeOK
  <2>3. QED
    BY <1>3, <1>5, <2>2 DEF Verified
<1>6. QED
  BY <1>4, <1>5 DEF ActivateFullFails

LEMMA DiscardBackupInv ==
  ASSUME Inv, NEW p \in Syncers, DiscardBackup(p)
  PROVE  Inv' /\ repo'["mirror"] = repo["mirror"] /\ repo["mirror"].there
<1>1. /\ pc[p] = "discard" /\ pc[p] \in SyncStages /\ pc' = [pc EXCEPT ![p] = "synced"] /\ lock' = Free
      /\ repo' = [repo EXCEPT !["backup"] = NoRepo] /\ parked' = {}
      /\ UNCHANGED <<where, attempt, got, asked, worktrees, building, upstream, catalog, failures>>
  BY Kinds DEF DiscardBackup, Succeed, Go
<1>2. Writes(p) /\ 0 <= upstream /\ "backup" \in Places /\ "mirror" \in Places
  BY <1>1, Held DEF Places
<1>3. FullMirror(asked[p])
  BY <1>1, <1>2 DEF Writes
<1>4. Disk' /\ MirrorKept /\ repo' \in [Places -> Repositories]
  BY <1>1, <1>2, DiskAt, RepositoryKinds
<1>5. repo'["mirror"] = repo["mirror"]
  BY <1>1, <1>2 DEF Inv, TypeOK
<1>6. FullMirror(asked[p])'
  BY <1>1, <1>3, <1>5 DEF FullMirror, HasMirror
<1>7. Inv'
  BY <1>1, <1>4, <1>6, LetsGo DEF Inv, TypeOK
<1>8. QED
  BY <1>3, <1>5, <1>7 DEF FullMirror, HasMirror

(***************************************************************************)
(* Beginning, reading the refs and stopping.                               *)
(***************************************************************************)
LEMMA BeginInv ==
  ASSUME Inv, NEW p \in Syncers, Begin(p)
  PROVE  Inv'
<1>1. /\ pc' = [pc EXCEPT ![p] = "locked"] /\ pc'[p] = "locked" /\ lock' = p /\ lock \notin Syncers
      /\ asked' = [asked EXCEPT ![p] = upstream] /\ asked'[p] = upstream
      /\ UNCHANGED <<where, attempt, got, repo, worktrees, parked, building, upstream, catalog, failures>>
  BY DistinctAssumption DEF Begin, Go, Inv, TypeOK
<1>2. upstream \in Versions /\ upstream \in Nat /\ upstream <= upstream
  BY MirrorAssumption DEF Inv, TypeOK, Versions
<1>3. TypeOK'
  BY <1>1, <1>2 DEF Inv, TypeOK, SyncStages
<1>4. Disk' /\ MirrorKept
  BY <1>1, DiskStays
<1>5. Own(p)'
  <2>1. Writes(p)'
    BY <1>1 DEF Writes
  <2>2. Reads(p)'
    BY <1>1 DEF Reads, ReadStages
  <2>3. QED
    BY <1>1, <1>2, <2>1, <2>2 DEF Own, SyncStages
<1>6. \A q \in Syncers \ {p} :
        pc'[q] = pc[q] /\ where'[q] = where[q] /\ asked'[q] = asked[q] /\ got'[q] = got[q]
  BY <1>1 DEF Inv, TypeOK
<1>7. QED
  BY <1>1, <1>2, <1>3, <1>4, <1>5, <1>6, StepOf

(* A command without the lock goes on to s and keeps what it has read.     *)
LEMMA ReadMoves ==
  ASSUME Inv, NEW p \in Syncers, pc[p] \notin SyncStages,
         NEW s \in {"idle", "head", "refs"}, pc' = [pc EXCEPT ![p] = s],
         s # "idle" => pc[p] \in ReadStages,
         NEW refs \in Versions \X Versions, got' = [got EXCEPT ![p] = refs],
         s = "head" => refs[1] = repo["mirror"].heads,
         s = "refs" => pc[p] = "head" /\ refs[1] = got[p][1] /\ refs[2] = repo["mirror"].tags,
         attempt' \in [Syncers -> 1 .. Attempts], failures' \in 0 .. MaxFailures,
         catalog' \in Versions \X Versions,
         UNCHANGED <<where, asked, lock, repo, worktrees, parked, building, upstream>>
  PROVE  Inv'
<1>1. pc'[p] = s /\ got'[p] = refs /\ upstream <= upstream /\ s \notin SyncStages
  BY MirrorAssumption DEF Inv, TypeOK, SyncStages
<1>2. TypeOK'
  BY DEF Inv, TypeOK, ReadStages
<1>3. Disk' /\ MirrorKept
  BY DiskStays
<1>4. Own(p) /\ Reads(p)
  BY DEF Inv, Own
<1>5. Own(p)'
  <2>1. Writes(p)'
    BY <1>1 DEF Writes
  <2>2. s # "idle" => FullMirror(asked[p])
    BY <1>4 DEF Reads
  <2>3. FullMirror(asked[p])' <=> FullMirror(asked[p])
    BY DEF FullMirror, HasMirror
  <2>4. s \in {"head", "refs"} => refs[1] >= asked[p]
    BY <1>4, <2>2 DEF FullMirror, Reads
  <2>5. s = "refs" => refs[2] >= asked[p]
    BY <2>2 DEF FullMirror
  <2>6. Reads(p)'
    BY <1>1, <2>2, <2>3, <2>4, <2>5 DEF Reads, ReadStages
  <2>7. QED
    BY <1>1, <1>4, <2>1, <2>6 DEF Own
<1>6. \A q \in Syncers \ {p} :
        pc'[q] = pc[q] /\ where'[q] = where[q] /\ asked'[q] = asked[q] /\ got'[q] = got[q]
  BY DEF Inv, TypeOK
<1>7. QED
  BY <1>1, <1>2, <1>3, <1>5, <1>6, StepOf

LEMMA ReadingInv ==
  ASSUME Inv, NEW p \in Syncers, Reading(p)
  PROVE  Inv'
<1>1. got \in [Syncers -> Versions \X Versions] /\ got[p] \in Versions \X Versions /\ repo["mirror"] \in Repositories
  BY DEF Inv, TypeOK, Places
<1>2. repo["mirror"].heads \in Versions /\ repo["mirror"].tags \in Versions
  BY <1>1 DEF Repositories
<1>3. CASE ReadHead(p)
  <2>1. PICK refs \in Versions \X Versions : refs = <<repo["mirror"].heads, got[p][2]>>
    BY <1>1, <1>2
  <2>2. got' = [got EXCEPT ![p] = [got[p] EXCEPT ![1] = repo["mirror"].heads]]
    BY <1>1, <1>3 DEF ReadHead
  <2>3. [got[p] EXCEPT ![1] = repo["mirror"].heads] = refs
    BY <1>1, <2>1
  <2>4. pc[p] = "synced" /\ pc[p] \notin SyncStages /\ pc[p] \in ReadStages /\ pc' = [pc EXCEPT ![p] = "head"]
    BY <1>3 DEF ReadHead, Go, SyncStages, ReadStages
  <2>5. got' = [got EXCEPT ![p] = refs] /\ refs[1] = repo["mirror"].heads
    <3>1. refs[1] = repo["mirror"].heads
      BY <2>1
    <3>2. QED
      BY <2>2, <2>3, <3>1
  <2>6. QED
    BY <1>3, <2>4, <2>5, ReadMoves DEF ReadHead, Inv, TypeOK
<1>4. CASE ReadTags(p)
  <2>1. PICK refs \in Versions \X Versions : refs = <<got[p][1], repo["mirror"].tags>>
    BY <1>1, <1>2
  <2>2. got' = [got EXCEPT ![p] = [got[p] EXCEPT ![2] = repo["mirror"].tags]]
    BY <1>1, <1>4 DEF ReadTags
  <2>3. [got[p] EXCEPT ![2] = repo["mirror"].tags] = refs
    BY <1>1, <2>1
  <2>4. pc[p] = "head" /\ pc[p] \notin SyncStages /\ pc[p] \in ReadStages /\ pc' = [pc EXCEPT ![p] = "refs"]
    BY <1>4 DEF ReadTags, Go, SyncStages, ReadStages
  <2>5. got' = [got EXCEPT ![p] = refs] /\ refs[1] = got[p][1] /\ refs[2] = repo["mirror"].tags
    <3>1. refs[1] = got[p][1] /\ refs[2] = repo["mirror"].tags
      BY <2>1
    <3>2. QED
      BY <2>2, <2>3, <3>1
  <2>6. QED
    BY <1>4, <2>4, <2>5, ReadMoves DEF ReadTags, Inv, TypeOK
<1>5. CASE PublishRef(p)
  <2>1. /\ pc[p] = "refs" /\ pc[p] \notin SyncStages /\ pc' = [pc EXCEPT ![p] = "idle"]
        /\ got' = [got EXCEPT ![p] = got[p]] /\ catalog' \in Versions \X Versions
    BY <1>1, <1>5 DEF PublishRef, Go, SyncStages
  <2>2. QED
    BY <1>1, <1>5, <2>1, ReadMoves DEF PublishRef, Inv, TypeOK
<1>6. QED
  BY <1>3, <1>4, <1>5 DEF Reading

(* Which copies of the source are there does not change.                   *)
SameCopies == \A place \in {"mirror", "backup"} : repo'[place].there = repo[place].there

LEMMA SameElsewhere ==
  ASSUME Inv, NEW place \in Places, NEW r \in Repositories, repo' = [repo EXCEPT ![place] = r],
         place \in {"staging", "full"} \/ r.there = repo[place].there
  PROVE  SameCopies
<1>1. repo \in [Places -> Repositories] /\ {"mirror", "backup"} \subseteq Places
  BY DEF Inv, TypeOK, Places
<1>2. QED
  BY <1>1 DEF SameCopies

(* What a command that is stopped leaves is in order.                      *)
LEMMA LeftInv ==
  ASSUME Inv, NEW p \in Syncers, Stop(p), NEW r \in Left(p), repo' = [repo EXCEPT ![where[p]] = r],
         lock' = lock \/ (lock = p /\ lock' \in {Free, Abandoned}), lock' # p
  PROVE  Inv' /\ SameCopies
<1>1. /\ pc' = [pc EXCEPT ![p] = "idle"] /\ attempt' \in [Syncers -> 1 .. Attempts]
      /\ failures' \in 0 .. MaxFailures
      /\ UNCHANGED <<where, got, asked, worktrees, parked, building, upstream, catalog>>
  BY MirrorAssumption DEF Stop, Inv, TypeOK
<1>2. /\ repo \in [Places -> Repositories] /\ where[p] \in Places /\ where[p] \in {"mirror", "staging", "full"}
      /\ repo[where[p]] \in Repositories
  BY Kinds DEF Inv, TypeOK
<1>3. CASE r = repo[where[p]]
  <2>1. repo' = repo
    BY <1>2, <1>3
  <2>2. Disk' /\ MirrorKept /\ repo' \in [Places -> Repositories]
    BY <1>1, <2>1, DiskStays
  <2>3. CASE pc[p] \in SyncStages
    <3>1. lock = p /\ lock' \in {Free, Abandoned}
      BY <2>3, Held
    <3>2. Inv'
      BY <1>1, <2>2, <2>3, <3>1, LetsGo DEF Inv, TypeOK
    <3>3. QED
      BY <2>1, <3>2 DEF SameCopies
  <2>4. CASE pc[p] \notin SyncStages
    <3>1. lock' = lock
      BY <2>4 DEF Inv, Own
    <3>2. got' = [got EXCEPT ![p] = got[p]] /\ got[p] \in Versions \X Versions
      BY <1>1 DEF Inv, TypeOK
    <3>3. catalog' \in Versions \X Versions
      BY <1>1 DEF Inv, TypeOK
    <3>4. Inv'
      BY <1>1, <2>1, <2>4, <3>1, <3>2, <3>3, ReadMoves
    <3>5. QED
      BY <2>1, <3>4 DEF SameCopies
  <2>5. QED
    BY <2>3, <2>4
<1>4. CASE r # repo[where[p]]
  <2>1. \/ pc[p] = "prepare" /\ r = Broken /\ ~repo[where[p]].bare
        \/ pc[p] \in {"heads", "tags"} /\ r = [repo[where[p]] EXCEPT !.sound = FALSE]
    BY <1>4 DEF Left
  <2>2. pc[p] \in SyncStages /\ pc[p] \in {"prepare", "remote", "heads", "tags"}
    BY <2>1, Kinds
  <2>3. lock = p /\ lock' \in {Free, Abandoned} /\ 0 <= upstream /\ Writes(p)
    <3>1. lock = p /\ upstream \in Nat /\ Writes(p)
      BY <2>2, Held
    <3>2. QED
      BY <3>1
  <2>4. /\ r \in Repositories /\ ~r.partial /\ (r.bare => r.there)
        /\ r.heads <= upstream /\ r.tags <= upstream
        /\ where[p] = "mirror" =>
             /\ r.there /\ r.bare /\ r.origin /\ r.there = repo["mirror"].there
             /\ r.heads >= repo["mirror"].heads /\ r.tags >= repo["mirror"].tags
    <3>1. CASE pc[p] = "prepare" /\ r = Broken
      <4>1. where[p] # "mirror"
        BY <2>3, <3>1 DEF Writes
      <4>2. QED
        BY <2>3, <3>1, <4>1, RepositoryKinds
    <3>2. CASE pc[p] \in {"heads", "tags"} /\ r = [repo[where[p]] EXCEPT !.sound = FALSE]
      <4>1. /\ r \in Repositories /\ r.there = repo[where[p]].there /\ r.bare = repo[where[p]].bare
            /\ r.origin = repo[where[p]].origin /\ r.partial = repo[where[p]].partial
            /\ r.heads = repo[where[p]].heads /\ r.tags = repo[where[p]].tags
        BY <1>2, <3>2 DEF Repositories
      <4>2. QED
        BY <2>2, <4>1, Fetched
    <3>3. QED
      BY <2>1, <3>1, <3>2
  <2>5. Disk' /\ MirrorKept /\ repo' \in [Places -> Repositories]
    BY <1>1, <2>2, <2>4, Changes
  <2>6. Inv'
    BY <1>1, <2>2, <2>3, <2>5, LetsGo DEF Inv, TypeOK
  <2>7. SameCopies
    BY <1>2, <2>4, SameElsewhere
  <2>8. QED
    BY <2>6, <2>7
<1>5. QED
  BY <1>3, <1>4

LEMMA StopInv ==
  ASSUME Inv, NEW p \in Syncers, Fail(p) \/ Crash(p)
  PROVE  Inv' /\ SameCopies
<1>1. Stop(p) /\ \E r \in Left(p) : repo' = [repo EXCEPT ![where[p]] = r]
  BY DEF Fail, Crash
<1>2. (lock' = lock \/ (lock = p /\ lock' \in {Free, Abandoned})) /\ lock' # p
  BY DistinctAssumption DEF Fail, Crash
<1>3. QED
  BY <1>1, <1>2, LeftInv

LEMMA WorldInv ==
  ASSUME Inv,
         Advance \/ \E b \in Builders : CreateWorktree(b) \/ CloseWorktree(b) \/ BuildDies(b)
  PROVE  Inv' /\ SameCopies
<1>1. UNCHANGED <<syncVars, lock, repo>> /\ upstream <= upstream'
  BY MirrorAssumption DEF Advance, CreateWorktree, CloseWorktree, BuildDies, Inv, TypeOK
<1>2. TypeOK'
  <2>1. CASE Advance
    BY <2>1, MirrorAssumption DEF Advance, syncVars, Inv, TypeOK
  <2>2. CASE \E b \in Builders : CreateWorktree(b) \/ CloseWorktree(b) \/ BuildDies(b)
    <3>1. /\ UNCHANGED <<syncVars, lock, repo, parked, upstream, catalog>>
          /\ worktrees' \subseteq Builders /\ building' \subseteq Builders /\ failures' \in 0 .. MaxFailures
      BY <2>2, MirrorAssumption DEF CreateWorktree, CloseWorktree, BuildDies, StaleWorktrees, Inv, TypeOK
    <3>2. QED
      BY <3>1 DEF syncVars, Inv, TypeOK
  <2>3. QED
    BY <2>1, <2>2
<1>3. QED
  BY <1>1, <1>2, WorldMoves DEF SameCopies

(***************************************************************************)
(* The theorems.                                                           *)
(***************************************************************************)

(* Steps that keep the copies that are there.                              *)
LEMMA FetchesKeepCopies ==
  ASSUME Inv, NEW p \in Syncers,
         \/ FirstSync(p) \/ UpdateMirror(p) \/ UpgradePartial(p) \/ UpgradeRefused(p)
         \/ InitBare(p) \/ AddRemote(p) \/ SetURL(p) \/ SetURLFails(p)
         \/ Fetching(p) \/ AttemptFails(p) \/ LastAttemptFails(p)
         \/ Fsck(p) \/ FsckInPlace(p) \/ FsckFails(p)
         \/ Begin(p) \/ Reading(p)
  PROVE  SameCopies
<1>1. /\ repo \in [Places -> Repositories] /\ where[p] \in Places
      /\ {"mirror", "backup", "staging"} \subseteq Places /\ repo[where[p]] \in Repositories
  BY DEF Inv, TypeOK, Places
<1>2. CASE UNCHANGED repo
  BY <1>2 DEF SameCopies
<1>3. CASE repo' = WithoutStaging
  <2>1. repo' = [repo EXCEPT !["staging"] = NoRepo] /\ "staging" \in {"staging", "full"}
    BY <1>3 DEF WithoutStaging
  <2>2. QED
    BY <1>1, <2>1, SameElsewhere, RepositoryKinds
<1>4. CASE InitBare(p)
  <2>1. pc[p] = "prepare" /\ pc[p] \in SyncStages
    BY <1>4, Kinds DEF InitBare, Go
  <2>2. where[p] \in {"staging", "full"}
    BY <2>1, Held, Kinds DEF Writes
  <2>3. QED
    BY <1>1, <1>4, <2>2, SameElsewhere, RepositoryKinds DEF InitBare
<1>5. CASE AddRemote(p) \/ Fetching(p) \/ AttemptFails(p)
  <2>1. \E r : repo' = [repo EXCEPT ![where[p]] = r] /\ r.there = repo[where[p]].there
    <3>1. CASE AddRemote(p)
      <4>1. repo' = [repo EXCEPT ![where[p]] = [repo[where[p]] EXCEPT !.origin = TRUE]]
        BY <1>1, <3>1 DEF AddRemote
      <4>2. [repo[where[p]] EXCEPT !.origin = TRUE].there = repo[where[p]].there
        BY <1>1 DEF Repositories
      <4>3. QED
        BY <4>1, <4>2
    <3>2. CASE FetchHeads(p)
      <4>1. PICK tags \in {repo[where[p]].tags, upstream} :
              repo' = [repo EXCEPT ![where[p]].heads = upstream, ![where[p]].tags = tags]
        BY <3>2 DEF FetchHeads
      <4>2. repo' = [repo EXCEPT ![where[p]] = [repo[where[p]] EXCEPT !.heads = upstream, !.tags = tags]]
        BY <1>1, <4>1
      <4>3. [repo[where[p]] EXCEPT !.heads = upstream, !.tags = tags].there = repo[where[p]].there
        BY <1>1 DEF Repositories
      <4>4. QED
        BY <4>2, <4>3
    <3>3. CASE repo' = [repo EXCEPT ![where[p]].heads = upstream]
      <4>1. repo' = [repo EXCEPT ![where[p]] = [repo[where[p]] EXCEPT !.heads = upstream]]
        BY <1>1, <3>3
      <4>2. [repo[where[p]] EXCEPT !.heads = upstream].there = repo[where[p]].there
        BY <1>1 DEF Repositories
      <4>3. QED
        BY <4>1, <4>2
    <3>4. CASE repo' = [repo EXCEPT ![where[p]].tags = upstream]
      <4>1. repo' = [repo EXCEPT ![where[p]] = [repo[where[p]] EXCEPT !.tags = upstream]]
        BY <1>1, <3>4
      <4>2. [repo[where[p]] EXCEPT !.tags = upstream].there = repo[where[p]].there
        BY <1>1 DEF Repositories
      <4>3. QED
        BY <4>1, <4>2
    <3>5. CASE UNCHANGED repo
      <4>1. repo' = [repo EXCEPT ![where[p]] = repo[where[p]]]
        BY <1>1, <3>5
      <4>2. QED
        BY <4>1
    <3>6. QED
      BY <1>5, <3>1, <3>2, <3>3, <3>4, <3>5 DEF Fetching, FetchTags, AttemptFails
  <2>2. PICK r : repo' = [repo EXCEPT ![where[p]] = r] /\ r.there = repo[where[p]].there
    BY <2>1
  <2>3. \A place \in Places : repo'[place].there = repo[place].there
    BY <1>1, <2>2
  <2>4. QED
    BY <1>1, <2>3 DEF SameCopies
<1>6. QED
  BY <1>2, <1>3, <1>4, <1>5
     DEF FirstSync, UpdateMirror, UpgradePartial, UpgradeRefused, SetURL, SetURLFails,
         LastAttemptFails, Fsck, FsckInPlace, FsckFails, Begin, Reading, ReadHead, ReadTags, PublishRef

(* What a step may do to the copies of the source.                         *)
CopiesStep ==
  /\ ~repo["mirror"].there /\ repo'["mirror"].there => Verified(repo'["mirror"])
  /\ repo["mirror"].there \/ repo["backup"].there
       => repo'["mirror"].there \/ repo'["backup"].there

LEMMA StepInv == Inv /\ [Next]_vars => Inv' /\ CopiesStep
<1> SUFFICES ASSUME Inv, [Next]_vars
             PROVE  Inv' /\ CopiesStep
  OBVIOUS
<1>1. SameCopies => CopiesStep
  BY DEF SameCopies, CopiesStep
<1>2. ASSUME NEW p \in Syncers, Begin(p) PROVE Inv' /\ CopiesStep
  BY <1>1, <1>2, BeginInv, FetchesKeepCopies
<1>3. ASSUME NEW p \in Syncers, Syncing(p) PROVE Inv' /\ CopiesStep
  <2>1. CASE FirstSync(p) \/ UpdateMirror(p) \/ UpgradePartial(p) \/ UpgradeRefused(p)
    BY <1>1, <2>1, FetchesKeepCopies, FirstSyncInv, ChosenInv, UpgradeRefusedInv
  <2>2. CASE InitBare(p) \/ AddRemote(p) \/ SetURL(p) \/ SetURLFails(p)
    BY <1>1, <2>2, FetchesKeepCopies, InitBareInv, AddRemoteInv, SetURLInv, GivesUpInv
  <2>3. CASE Fetching(p) \/ AttemptFails(p) \/ LastAttemptFails(p)
    BY <1>1, <2>3, FetchesKeepCopies, FetchInv, GivesUpInv DEF Fetching
  <2>4. CASE Fsck(p) \/ FsckInPlace(p) \/ FsckFails(p)
    BY <1>1, <2>4, FetchesKeepCopies, FsckInv, FsckInPlaceInv, GivesUpInv
  <2>5. CASE Activate(p)
    BY <2>5, ActivateInv DEF CopiesStep, Verified
  <2>6. CASE MoveAside(p)
    <3>1. ~repo'["mirror"].there
      BY <2>6, RepositoryKinds DEF MoveAside, Inv, TypeOK, Places
    <3>2. QED
      BY <2>6, <3>1, MoveAsideInv DEF CopiesStep
  <2>7. CASE ActivateFull(p)
    BY <2>7, ActivateFullInv DEF CopiesStep, Verified
  <2>8. CASE DiscardBackup(p)
    BY <2>8, DiscardBackupInv DEF CopiesStep
  <2>9. QED
    BY <1>3, <2>1, <2>2, <2>3, <2>4, <2>5, <2>6, <2>7, <2>8 DEF Syncing
<1>4. ASSUME NEW p \in Syncers, Reading(p) PROVE Inv' /\ CopiesStep
  BY <1>1, <1>4, ReadingInv, FetchesKeepCopies
<1>5. ASSUME NEW p \in Syncers, ActivateFullFails(p) PROVE Inv' /\ CopiesStep
  BY <1>5, ActivateFullFailsInv DEF CopiesStep
<1>6. ASSUME NEW p \in Syncers, Fail(p) \/ Crash(p) PROVE Inv' /\ CopiesStep
  BY <1>1, <1>6, StopInv
<1>7. ASSUME Advance \/ \E b \in Builders : CreateWorktree(b) \/ CloseWorktree(b) \/ BuildDies(b)
      PROVE  Inv' /\ CopiesStep
  BY <1>1, <1>7, WorldInv
<1>8. CASE UNCHANGED vars
  <2>1. UNCHANGED <<syncVars, lock, repo, worktrees, parked, building, upstream, catalog, failures>>
    BY <1>8 DEF vars
  <2>2. upstream <= upstream'
    BY <2>1, MirrorAssumption DEF Inv, TypeOK
  <2>3. TypeOK'
    BY <2>1 DEF syncVars, Inv, TypeOK
  <2>4. SameCopies
    BY <2>1 DEF SameCopies
  <2>5. QED
    BY <1>1, <2>1, <2>2, <2>3, <2>4, WorldMoves
<1>9. QED
  BY <1>2, <1>3, <1>4, <1>5, <1>6, <1>7, <1>8 DEF Next

(* The inductive invariant holds of every behaviour.                       *)
THEOREM MirrorInvariant == Spec => []Inv
<1>1. Inv /\ [Next]_vars => Inv'
  BY StepInv
<1>2. QED
  BY <1>1, InitInv, PTL DEF Spec

(* Only a repository that has all its refs and passed fsck becomes the     *)
(* mirror, for any number of synchronisers, crashes and left-overs.        *)
THEOREM OnlyVerifiedActivated == Spec => ActivatedVerified
<1>1. Inv /\ [Next]_vars =>
        [~repo["mirror"].there /\ repo["mirror"].there' => Verified(repo["mirror"]')]_vars
  BY StepInv DEF CopiesStep
<1>2. QED
  BY <1>1, MirrorInvariant, PTL DEF Spec, ActivatedVerified

(* From the first mirror on there is a mirror or the backup of one.        *)
THEOREM CopyAlwaysKept == Spec => CopyKept
<1>1. Inv /\ [Next]_vars =>
        [repo["mirror"].there \/ repo["backup"].there
           => repo["mirror"].there' \/ repo["backup"].there']_vars
  BY StepInv DEF CopiesStep
<1>2. QED
  BY <1>1, MirrorInvariant, PTL DEF Spec, CopyKept

(* What a command publishes is at least as new as the remote was when it   *)
(* began, although it reads the mirror without the lock.                   *)
THEOREM FreshPublished == Spec => []PublishesFresh
<1>1. Inv => PublishesFresh
  BY DEF Inv, Own, Reads, PublishesFresh
<1>2. QED
  BY <1>1, MirrorInvariant, PTL
================================================================================
