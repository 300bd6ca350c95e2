------------------------- MODULE SnapshotBuild_proofs -------------------------
(* Proofs about SnapshotBuild.                                             *)
EXTENDS SnapshotBuild, TLAPS

(* Initially all variables have their types.                               *)
LEMMA InitTyped == Init => TypeOK
BY BuildAssumption DEF Init, TypeOK, Stages

(* Every step keeps the types.                                             *)
LEMMA StepTyped == TypeOK /\ [Next]_vars => TypeOK'
<1> SUFFICES ASSUME TypeOK, [Next]_vars PROVE TypeOK'
    OBVIOUS
<1> USE BuildAssumption DEF TypeOK, Stages, Go
<1>1. CASE UNCHANGED vars
    BY <1>1 DEF vars, buildVars, diskVars
<1>2. ASSUME NEW b \in Builders, NEW s \in Snapshots, Begin(b, s) PROVE TypeOK'
    BY <1>2 DEF Begin, diskVars
<1>3. ASSUME NEW b \in Builders, OpenBranch(b) PROVE TypeOK'
    BY <1>3 DEF OpenBranch, diskVars
<1>4. ASSUME NEW b \in Builders, LockContent(b) PROVE TypeOK'
    BY <1>4 DEF LockContent, diskVars
<1>5. ASSUME NEW b \in Builders, Continue(b) PROVE TypeOK'
  <2>1. CASE ReuseSnapshot(b)
      BY <2>1 DEF ReuseSnapshot, Forget, diskVars
  <2>2. CASE ListEntries(b)
      BY <2>2 DEF ListEntries, diskVars
  <2>3. CASE Collecting(b)
    <3> PICK f \in TreeOf[target[b]] :
               ReuseContent(b, f) \/ Parse(b, f) \/ ParseFails(b, f) \/ LoseSource(b, f)
        BY <2>3 DEF Collecting
    <3>1. f \in Paths \X Blobs
        OBVIOUS
    <3>2. ASSUME NEW c \in Contents, NEW n \in 0 .. 1,
                 NEW new \in SUBSET ({"source", "ast"} \X Blobs),
                 Record(b, f, c, n, new)
          PROVE  TypeOK'
        BY <3>1, <3>2 DEF Record, diskVars
    <3>a. /\ f[2] \in Contents
          /\ Lost \in Contents
          /\ {"source", "ast"} \X {f[2]} \subseteq {"source", "ast"} \X Blobs
          /\ {<<"source", f[2]>>} \subseteq {"source", "ast"} \X Blobs
        BY <3>1 DEF Contents
    <3>3. CASE ReuseContent(b, f)
        BY <3>2, <3>3 DEF ReuseContent
    <3>4. CASE Parse(b, f)
      <4>1. Record(b, f, f[2], 1, {"source", "ast"} \X {f[2]})
          BY <3>4 DEF Parse
      <4> HIDE DEF TypeOK
      <4> QED BY <3>2, <3>a, <4>1
    <3>5. CASE ParseFails(b, f)
      <4>1. Record(b, f, f[2], 0, {<<"source", f[2]>>})
          BY <3>5 DEF ParseFails
      <4> HIDE DEF TypeOK
      <4> QED BY <3>2, <3>a, <4>1
    <3>6. CASE LoseSource(b, f)
      <4>1. Record(b, f, Lost, 0, {})
          BY <3>6 DEF LoseSource
      <4> HIDE DEF TypeOK
      <4> QED BY <3>2, <3>a, <4>1
    <3> QED BY <3>3, <3>4, <3>5, <3>6
  <2>4. CASE PublishObjects(b)
      BY <2>4 DEF PublishObjects
  <2>5. CASE PublishContent(b)
    <3>1. BatchContents(b) \subseteq Contents
        BY DEF BatchContents
    <3>2. PICK lead \in [NewContents(b) -> batch[b]] :
            facts' = [c \in Contents |->
                        IF c \in NewContents(b) THEN facts[c] + lead[c][4] ELSE facts[c]]
        BY <2>5 DEF PublishContent
    <3>3. facts' \in [Contents -> Nat]
      <4>1. ASSUME NEW c \in NewContents(b) PROVE lead[c][4] \in Nat
          BY DEF Contents
      <4> QED BY <3>2, <4>1
    <3> QED BY <2>5, <3>1, <3>3 DEF PublishContent
  <2>6. CASE PublishBranch(b)
    <3>1. {<<e[1], e[3]>> : e \in batch[b]} \subseteq Paths \X Contents
        OBVIOUS
    <3>2. {<<c, facts[c]>> : c \in BatchContents(b) \ IndexedContents(ProductOf[target[b]])}
            \subseteq Contents \X Nat
        BY DEF BatchContents
    <3> QED BY <2>6, <3>1, <3>2 DEF PublishBranch
  <2>7. CASE WriteManifest(b)
      BY <2>7 DEF WriteManifest, Forget
  <2>8. CASE SaveSnapshot(b)
      BY <2>8 DEF SaveSnapshot
  <2>9. CASE EntriesFail(b)
      BY <2>9 DEF EntriesFail, Fail, Stop, Forget, diskVars
  <2> QED BY <1>5, <2>1, <2>2, <2>3, <2>4, <2>5, <2>6, <2>7, <2>8, <2>9 DEF Continue
<1>6. ASSUME NEW b \in Builders, Fail(b) PROVE TypeOK'
    BY <1>6 DEF Fail, Stop, Forget, diskVars
<1>7. ASSUME NEW b \in Builders, Crash(b) PROVE TypeOK'
    BY <1>7 DEF Crash, Stop, Forget, diskVars
<1>8. ASSUME NEW b \in Builders, EndContext(b) PROVE TypeOK'
    BY <1>8 DEF EndContext, diskVars
<1> QED BY <1>1, <1>2, <1>3, <1>4, <1>5, <1>6, <1>7, <1>8 DEF Next

(* Whatever file a build collects next, the record names its content or    *)
(* the lost one, and the objects it refers to are in the packs or staged.  *)
LEMMA CollectingRecords ==
  ASSUME TypeOK, AliasSound, NEW b \in Builders, Collecting(b)
  PROVE  \E f \in TreeOf[target[b]], c \in Contents, n \in 0 .. 1,
            new \in SUBSET ({"source", "ast"} \X Blobs) :
           /\ Record(b, f, c, n, new)
           /\ c \in {f[2], Lost}
           /\ c # Lost => /\ <<"source", c>> \in objects \cup new
                          /\ n > 0 => <<"ast", c>> \in objects \cup new
<1> DEFINE Goal(f, c, n, new) ==
             /\ Record(b, f, c, n, new)
             /\ c \in {f[2], Lost}
             /\ c # Lost => /\ <<"source", c>> \in objects \cup new
                            /\ n > 0 => <<"ast", c>> \in objects \cup new
<1>1. PICK f \in TreeOf[target[b]] :
             ReuseContent(b, f) \/ Parse(b, f) \/ ParseFails(b, f) \/ LoseSource(b, f)
    BY DEF Collecting
<1>2. f \in Paths \X Blobs
    BY BuildAssumption DEF TypeOK
<1>3. /\ f[2] \in Contents
      /\ Lost \in Contents
      /\ {"source", "ast"} \X {f[2]} \in SUBSET ({"source", "ast"} \X Blobs)
      /\ {<<"source", f[2]>>} \in SUBSET ({"source", "ast"} \X Blobs)
      /\ {} \in SUBSET ({"source", "ast"} \X Blobs)
      /\ 0 \in 0 .. 1
      /\ 1 \in 0 .. 1
    BY <1>2 DEF Contents
<1>4. CASE ReuseContent(b, f)
  <2>1. PICK c \in contents : ReusableContent(f[2], c) /\ Record(b, f, c, 0, {})
      BY <1>4 DEF ReuseContent
  <2>2. c \in Contents /\ c = f[2]
      BY <1>2, <2>1, DistinctAssumption DEF ReusableContent, AliasSound, TypeOK
  <2>3. Goal(f, c, 0, {})
      BY <2>1, <2>2 DEF ReusableContent
  <2> QED BY <1>3, <2>2, <2>3
<1>5. CASE Parse(b, f)
  <2>1. Goal(f, f[2], 1, {"source", "ast"} \X {f[2]})
      BY <1>5 DEF Parse
  <2> HIDE DEF Goal
  <2>2. \E c \in Contents, n \in 0 .. 1, new \in SUBSET ({"source", "ast"} \X Blobs) :
          Goal(f, c, n, new)
      BY <1>3, <2>1
  <2> QED BY <2>2 DEF Goal
<1>6. CASE ParseFails(b, f)
  <2>1. Goal(f, f[2], 0, {<<"source", f[2]>>})
      BY <1>6 DEF ParseFails
  <2> HIDE DEF Goal
  <2>2. \E c \in Contents, n \in 0 .. 1, new \in SUBSET ({"source", "ast"} \X Blobs) :
          Goal(f, c, n, new)
      BY <1>3, <2>1
  <2> QED BY <2>2 DEF Goal
<1>7. CASE LoseSource(b, f)
  <2>1. Goal(f, Lost, 0, {})
      BY <1>7 DEF LoseSource
  <2> HIDE DEF Goal
  <2>2. \E c \in Contents, n \in 0 .. 1, new \in SUBSET ({"source", "ast"} \X Blobs) :
          Goal(f, c, n, new)
      BY <1>3, <2>1
  <2> QED BY <2>2 DEF Goal
<1> QED BY <1>1, <1>4, <1>5, <1>6, <1>7

(* Batches stay faithful: only Record adds to one, and only a build that   *)
(* has nothing left to collect goes on in a context that lives.            *)
LEMMA StepKeepsBatch ==
  BuildInductive /\ TypeOK' /\ [Next]_vars => BatchFaithful'
<1> SUFFICES ASSUME BuildInductive, TypeOK', [Next]_vars PROVE BatchFaithful'
    OBVIOUS
<1> USE BuildAssumption, DistinctAssumption DEF BuildInductive, TypeOK, BatchFaithful, Remaining
<1>1. CASE UNCHANGED vars
    BY <1>1 DEF vars, buildVars, diskVars
<1>2. ASSUME NEW b \in Builders, NEW s \in Snapshots, Begin(b, s) PROVE BatchFaithful'
    BY <1>2 DEF Begin, Go, diskVars
<1>3. ASSUME NEW b \in Builders, OpenBranch(b) PROVE BatchFaithful'
    BY <1>3 DEF OpenBranch, Go, diskVars
<1>4. ASSUME NEW b \in Builders, LockContent(b) PROVE BatchFaithful'
    BY <1>4 DEF LockContent, Go, diskVars
<1>5. ASSUME NEW b \in Builders, ReuseSnapshot(b) PROVE BatchFaithful'
    BY <1>5 DEF ReuseSnapshot, Forget, Go, diskVars
<1>6. ASSUME NEW b \in Builders, ListEntries(b) PROVE BatchFaithful'
    BY <1>6 DEF ListEntries, Go, diskVars
<1>7. ASSUME NEW b \in Builders, Collecting(b) PROVE BatchFaithful'
  <2>1. PICK f \in TreeOf[target[b]], c \in Contents, n \in 0 .. 1,
             new \in SUBSET ({"source", "ast"} \X Blobs) :
          /\ Record(b, f, c, n, new)
          /\ c \in {f[2], Lost}
          /\ c # Lost => /\ <<"source", c>> \in objects \cup new
                         /\ n > 0 => <<"ast", c>> \in objects \cup new
      BY <1>7, CollectingRecords
  <2>2. f \in Paths \X Blobs /\ <<f[1], f[2]>> = f
      OBVIOUS
  <2>3. ASSUME NEW q \in Builders, NEW e \in batch'[q]
        PROVE  <<e[1], e[2]>> \in TreeOf[target'[q]] /\ e[3] \in {e[2], Lost}
    <3>1. CASE q = b /\ e = <<f[1], f[2], c, n>>
        BY <2>1, <2>2, <3>1 DEF Record
    <3>2. CASE e \in batch[q]
        BY <2>1, <3>2 DEF Record
    <3> QED BY <2>1, <3>1, <3>2 DEF Record
  <2>4. \A q \in Builders : pc'[q] \in {"idle", "locked", "opened", "built"}
                             => batch'[q] = {} /\ staged'[q] = {}
      BY <2>1 DEF Record
  <2>5. \A q \in Builders : pc'[q] \in {"stored", "merging", "merged"} /\ q \notin ended'
          => \A g \in TreeOf[target'[q]] : \E e \in batch'[q] : e[1] = g[1]
      BY <2>1 DEF Record
  <2> QED BY <2>3, <2>4, <2>5
<1>8. ASSUME NEW b \in Builders, PublishObjects(b) PROVE BatchFaithful'
    BY <1>8 DEF PublishObjects, Go, diskVars
<1>9. ASSUME NEW b \in Builders, PublishContent(b) PROVE BatchFaithful'
    BY <1>9 DEF PublishContent, Go, diskVars
<1>10. ASSUME NEW b \in Builders, PublishBranch(b) PROVE BatchFaithful'
    BY <1>10 DEF PublishBranch, Go, diskVars
<1>11. ASSUME NEW b \in Builders, WriteManifest(b) PROVE BatchFaithful'
    BY <1>11 DEF WriteManifest, Forget, Go, diskVars
<1>12. ASSUME NEW b \in Builders, SaveSnapshot(b) PROVE BatchFaithful'
    BY <1>12 DEF SaveSnapshot, Go, diskVars
<1>13. ASSUME NEW b \in Builders, Fail(b) PROVE BatchFaithful'
    BY <1>13 DEF Fail, Stop, Forget, HoldsIndexLock, diskVars
<1>14. ASSUME NEW b \in Builders, Crash(b) PROVE BatchFaithful'
    BY <1>14 DEF Crash, Stop, Forget, HoldsIndexLock, diskVars
<1>15. ASSUME NEW b \in Builders, EndContext(b) PROVE BatchFaithful'
    BY <1>15 DEF EndContext, diskVars
<1> QED BY <1>1, <1>2, <1>3, <1>4, <1>5, <1>6, <1>7, <1>8, <1>9, <1>10, <1>11, <1>12, <1>13, <1>14, <1>15
       DEF Next, Continue, EntriesFail

(* Objects are never removed, so what a batch refers to stays backed.      *)
LEMMA StepKeepsBacking ==
  BuildInductive /\ TypeOK' /\ [Next]_vars => BatchBacked'
<1> SUFFICES ASSUME BuildInductive, TypeOK', [Next]_vars PROVE BatchBacked'
    OBVIOUS
<1> USE BuildAssumption, DistinctAssumption DEF BuildInductive, TypeOK, BatchBacked, BatchFaithful
<1>1. CASE UNCHANGED vars
    BY <1>1 DEF vars, buildVars, diskVars
<1>2. ASSUME NEW b \in Builders, NEW s \in Snapshots, Begin(b, s) PROVE BatchBacked'
    BY <1>2 DEF Begin, Go, diskVars
<1>3. ASSUME NEW b \in Builders, OpenBranch(b) PROVE BatchBacked'
    BY <1>3 DEF OpenBranch, Go, diskVars
<1>4. ASSUME NEW b \in Builders, LockContent(b) PROVE BatchBacked'
    BY <1>4 DEF LockContent, Go, diskVars
<1>5. ASSUME NEW b \in Builders, ReuseSnapshot(b) PROVE BatchBacked'
    BY <1>5 DEF ReuseSnapshot, Forget, Go, diskVars
<1>6. ASSUME NEW b \in Builders, ListEntries(b) PROVE BatchBacked'
    BY <1>6 DEF ListEntries, Go, diskVars
<1>7. ASSUME NEW b \in Builders, Collecting(b) PROVE BatchBacked'
  <2>1. PICK f \in TreeOf[target[b]], c \in Contents, n \in 0 .. 1,
             new \in SUBSET ({"source", "ast"} \X Blobs) :
          /\ Record(b, f, c, n, new)
          /\ c \in {f[2], Lost}
          /\ c # Lost => /\ <<"source", c>> \in objects \cup new
                         /\ n > 0 => <<"ast", c>> \in objects \cup new
      BY <1>7, CollectingRecords
  <2>2. ASSUME NEW q \in Builders, NEW e \in batch'[q], e[3] # Lost
        PROVE  /\ <<"source", e[3]>> \in objects' \cup staged'[q]
               /\ e[4] > 0 => <<"ast", e[3]>> \in objects' \cup staged'[q]
    <3>1. CASE q = b /\ e = <<f[1], f[2], c, n>>
        BY <2>1, <2>2, <3>1 DEF Record, diskVars
    <3>2. CASE e \in batch[q]
        BY <2>1, <2>2, <3>2 DEF Record, diskVars
    <3> QED BY <2>1, <3>1, <3>2 DEF Record
  <2>3. \A q \in Builders : pc'[q] \in {"stored", "merging", "merged"}
                             => staged'[q] \subseteq objects'
      BY <2>1 DEF Record, diskVars
  <2> QED BY <2>2, <2>3
<1>8. ASSUME NEW b \in Builders, PublishObjects(b) PROVE BatchBacked'
    BY <1>8 DEF PublishObjects, Go, diskVars
<1>9. ASSUME NEW b \in Builders, PublishContent(b) PROVE BatchBacked'
    BY <1>9 DEF PublishContent, Go, diskVars
<1>10. ASSUME NEW b \in Builders, PublishBranch(b) PROVE BatchBacked'
    BY <1>10 DEF PublishBranch, Go, diskVars
<1>11. ASSUME NEW b \in Builders, WriteManifest(b) PROVE BatchBacked'
    BY <1>11 DEF WriteManifest, Forget, Go, diskVars
<1>12. ASSUME NEW b \in Builders, SaveSnapshot(b) PROVE BatchBacked'
    BY <1>12 DEF SaveSnapshot, Go, diskVars
<1>13. ASSUME NEW b \in Builders, Fail(b) PROVE BatchBacked'
    BY <1>13 DEF Fail, Stop, Forget, HoldsIndexLock, diskVars
<1>14. ASSUME NEW b \in Builders, Crash(b) PROVE BatchBacked'
    BY <1>14 DEF Crash, Stop, Forget, HoldsIndexLock, diskVars
<1>15. ASSUME NEW b \in Builders, EndContext(b) PROVE BatchBacked'
    BY <1>15 DEF EndContext, diskVars
<1> QED BY <1>1, <1>2, <1>3, <1>4, <1>5, <1>6, <1>7, <1>8, <1>9, <1>10, <1>11, <1>12, <1>13, <1>14, <1>15
       DEF Next, Continue, EntriesFail

(* Rows, ready snapshots and manifests are never removed, and nobody else  *)
(* writes the manifest of a snapshot while it is built.                    *)
LEMMA StepKeepsStages ==
  BuildInductive /\ TypeOK' /\ [Next]_vars => StagesRecorded'
<1> SUFFICES ASSUME BuildInductive, TypeOK', [Next]_vars PROVE StagesRecorded'
    OBVIOUS
<1> USE BuildAssumption, DistinctAssumption DEF BuildInductive, TypeOK, StagesRecorded, BatchContents
<1>1. CASE UNCHANGED vars
    BY <1>1 DEF vars, buildVars, diskVars
<1>2. ASSUME NEW b \in Builders, NEW s \in Snapshots, Begin(b, s) PROVE StagesRecorded'
    BY <1>2 DEF Begin, Go, diskVars
<1>3. ASSUME NEW b \in Builders, OpenBranch(b) PROVE StagesRecorded'
    BY <1>3 DEF OpenBranch, Go, diskVars
<1>4. ASSUME NEW b \in Builders, LockContent(b) PROVE StagesRecorded'
    BY <1>4 DEF LockContent, Go, diskVars
<1>5. ASSUME NEW b \in Builders, ReuseSnapshot(b) PROVE StagesRecorded'
    BY <1>5 DEF ReuseSnapshot, Reusable, Forget, Go, diskVars
<1>6. ASSUME NEW b \in Builders, ListEntries(b) PROVE StagesRecorded'
    BY <1>6 DEF ListEntries, Reusable, ListedBacked, Go, diskVars
<1>7. ASSUME NEW b \in Builders, Collecting(b) PROVE StagesRecorded'
  <2>1. PICK f \in TreeOf[target[b]], c \in Contents, n \in 0 .. 1,
             new \in SUBSET ({"source", "ast"} \X Blobs) :
          /\ Record(b, f, c, n, new)
          /\ c \in {f[2], Lost}
          /\ c # Lost => /\ <<"source", c>> \in objects \cup new
                         /\ n > 0 => <<"ast", c>> \in objects \cup new
      BY <1>7, CollectingRecords
  <2>2. UNCHANGED <<pc, target, contents, ready, manifests>>
      BY <2>1 DEF Record, diskVars
  <2>3. \A q \in Builders : pc[q] = "merged" => batch'[q] = batch[q]
      BY <2>1 DEF Record
  <2> QED BY <2>2, <2>3
<1>8. ASSUME NEW b \in Builders, PublishObjects(b) PROVE StagesRecorded'
    BY <1>8 DEF PublishObjects, Go, diskVars
<1>9. ASSUME NEW b \in Builders, PublishContent(b) PROVE StagesRecorded'
    BY <1>9 DEF PublishContent, Go, diskVars
<1>10. ASSUME NEW b \in Builders, PublishBranch(b) PROVE StagesRecorded'
    BY <1>10 DEF PublishBranch, Go, diskVars
<1>11. ASSUME NEW b \in Builders, WriteManifest(b) PROVE StagesRecorded'
  <2>1. /\ pc[b] = "branched"
        /\ pc' = [pc EXCEPT ![b] = "built"]
        /\ manifests' = manifests \cup {target[b]}
        /\ UNCHANGED <<target, contents, ready>>
        /\ batch' = [batch EXCEPT ![b] = {}]
      BY <1>11 DEF WriteManifest, Forget, Go
  <2>2. ASSUME NEW q \in Builders, q # b, HoldsIndexLock(q)
        PROVE  target[q] # target[b]
      BY <2>1, <2>2 DEF OneBuildPerSnapshot, HoldsIndexLock
  <2>3. \A q \in Builders : pc'[q] \in {"collecting", "stored", "merging", "merged"}
          => target'[q] \notin manifests'
      BY <2>1, <2>2 DEF HoldsIndexLock
  <2> QED BY <2>1, <2>3
<1>12. ASSUME NEW b \in Builders, SaveSnapshot(b) PROVE StagesRecorded'
    BY <1>12 DEF SaveSnapshot, Go, diskVars
<1>13. ASSUME NEW b \in Builders, Fail(b) PROVE StagesRecorded'
    BY <1>13 DEF Fail, Stop, Forget, HoldsIndexLock, diskVars
<1>14. ASSUME NEW b \in Builders, Crash(b) PROVE StagesRecorded'
    BY <1>14 DEF Crash, Stop, Forget, HoldsIndexLock, diskVars
<1>15. ASSUME NEW b \in Builders, EndContext(b) PROVE StagesRecorded'
    BY <1>15 DEF EndContext, diskVars
<1> QED BY <1>1, <1>2, <1>3, <1>4, <1>5, <1>6, <1>7, <1>8, <1>9, <1>10, <1>11, <1>12, <1>13, <1>14, <1>15
       DEF Next, Continue, EntriesFail

(* A content row and its facts are final, so are the index entries.        *)
LEMMA StepKeepsFullText ==
  BuildInductive /\ TypeOK' /\ [Next]_vars => FullTextExact'
<1> SUFFICES ASSUME BuildInductive, TypeOK', [Next]_vars PROVE FullTextExact'
    OBVIOUS
<1> USE BuildAssumption, DistinctAssumption DEF BuildInductive, TypeOK, FullTextExact, IndexedContents, BatchContents, NewContents, StagesRecorded
<1>1. CASE UNCHANGED vars
    BY <1>1 DEF vars, buildVars, diskVars
<1>2. ASSUME NEW b \in Builders, NEW s \in Snapshots, Begin(b, s) PROVE FullTextExact'
    BY <1>2 DEF Begin, Go, diskVars
<1>3. ASSUME NEW b \in Builders, OpenBranch(b) PROVE FullTextExact'
    BY <1>3 DEF OpenBranch, Go, diskVars
<1>4. ASSUME NEW b \in Builders, LockContent(b) PROVE FullTextExact'
    BY <1>4 DEF LockContent, Go, diskVars
<1>5. ASSUME NEW b \in Builders, ReuseSnapshot(b) PROVE FullTextExact'
    BY <1>5 DEF ReuseSnapshot, Forget, Go, diskVars
<1>6. ASSUME NEW b \in Builders, ListEntries(b) PROVE FullTextExact'
    BY <1>6 DEF ListEntries, Go, diskVars
<1>7. ASSUME NEW b \in Builders, Collecting(b) PROVE FullTextExact'
    BY <1>7, CollectingRecords DEF Record, diskVars
<1>8. ASSUME NEW b \in Builders, PublishObjects(b) PROVE FullTextExact'
    BY <1>8 DEF PublishObjects, Go, diskVars
<1>9. ASSUME NEW b \in Builders, PublishContent(b) PROVE FullTextExact'
    BY <1>9 DEF PublishContent, Go, diskVars
<1>10. ASSUME NEW b \in Builders, PublishBranch(b) PROVE FullTextExact'
  <2> DEFINE p == ProductOf[target[b]]
             added == {<<c, facts[c]>> : c \in BatchContents(b) \ IndexedContents(p)}
  <2>1. /\ pc[b] = "merged"
        /\ fts' = [fts EXCEPT ![p] = @ \cup added]
        /\ files' = [files EXCEPT ![target[b]] = {<<e[1], e[3]>> : e \in batch[b]}]
        /\ ready' = ready \cup {target[b]}
        /\ UNCHANGED <<target, contents, facts>>
      BY <1>10 DEF PublishBranch, Go
  <2>2. p \in Products /\ target[b] \in Snapshots
      OBVIOUS
  <2>3. BatchContents(b) \subseteq contents
      BY <2>1
  <2>4. ASSUME NEW q \in Products, NEW entry \in fts'[q]
        PROVE  entry[1] \in contents' /\ entry[2] = facts'[entry[1]]
    <3>1. CASE entry \in fts[q]
        BY <2>1, <3>1
    <3>2. CASE q = p /\ entry \in added
        BY <2>1, <2>3, <3>2
    <3> QED BY <2>1, <2>2, <3>1, <3>2
  <2>5. ASSUME NEW q \in Products, NEW c \in IndexedContents(q)
        PROVE  c \in IndexedContents(q)'
      BY <2>1, <2>2
  <2>a. p' = p
      BY <2>1
  <2>6. ASSUME NEW c \in BatchContents(b) PROVE c \in IndexedContents(p)'
    <3>1. CASE c \in IndexedContents(p)
        BY <2>2, <2>5, <2>a, <3>1
    <3>2. CASE c \notin IndexedContents(p)
      <4>1. <<c, facts[c]>> \in fts'[p]
          BY <2>1, <2>2, <3>2
      <4> QED BY <2>a, <4>1
    <3> QED BY <3>1, <3>2
  <2>7. ASSUME NEW s \in ready', NEW r \in files'[s]
        PROVE  r[2] \in IndexedContents(ProductOf[s])'
    <3>1. s \in Snapshots /\ ProductOf[s] \in Products
        BY <2>1
    <3>2. CASE s = target[b]
      <4>1. r[2] \in BatchContents(b)
          BY <2>1, <3>1, <3>2
      <4> QED BY <2>6, <2>a, <3>2, <4>1
    <3>3. CASE s # target[b]
      <4>1. s \in ready /\ r \in files[s]
          BY <2>1, <3>1, <3>3
      <4> QED BY <2>5, <3>1, <4>1
    <3> QED BY <3>2, <3>3
  <2> QED BY <2>4, <2>7
<1>11. ASSUME NEW b \in Builders, WriteManifest(b) PROVE FullTextExact'
    BY <1>11 DEF WriteManifest, Forget, Go, diskVars
<1>12. ASSUME NEW b \in Builders, SaveSnapshot(b) PROVE FullTextExact'
    BY <1>12 DEF SaveSnapshot, Go, diskVars
<1>13. ASSUME NEW b \in Builders, Fail(b) PROVE FullTextExact'
    BY <1>13 DEF Fail, Stop, Forget, HoldsIndexLock, diskVars
<1>14. ASSUME NEW b \in Builders, Crash(b) PROVE FullTextExact'
    BY <1>14 DEF Crash, Stop, Forget, HoldsIndexLock, diskVars
<1>15. ASSUME NEW b \in Builders, EndContext(b) PROVE FullTextExact'
    BY <1>15 DEF EndContext, diskVars
<1> QED BY <1>1, <1>2, <1>3, <1>4, <1>5, <1>6, <1>7, <1>8, <1>9, <1>10, <1>11, <1>12, <1>13, <1>14, <1>15
       DEF Next, Continue, EntriesFail

(* Only a faithful batch becomes the file list of a snapshot, and one that *)
(* is not whole only when the context has ended.                           *)
LEMMA StepKeepsComplete ==
  BuildInductive /\ TypeOK' /\ [Next]_vars => ReadyComplete'
<1> SUFFICES ASSUME BuildInductive, TypeOK', [Next]_vars PROVE ReadyComplete'
    OBVIOUS
<1> USE BuildAssumption, DistinctAssumption DEF BuildInductive, TypeOK, ReadyComplete, Faithful, Whole, BatchFaithful
<1>1. CASE UNCHANGED vars
    BY <1>1 DEF vars, buildVars, diskVars
<1>2. ASSUME NEW b \in Builders, NEW s \in Snapshots, Begin(b, s) PROVE ReadyComplete'
    BY <1>2 DEF Begin, Go, diskVars
<1>3. ASSUME NEW b \in Builders, OpenBranch(b) PROVE ReadyComplete'
    BY <1>3 DEF OpenBranch, Go, diskVars
<1>4. ASSUME NEW b \in Builders, LockContent(b) PROVE ReadyComplete'
    BY <1>4 DEF LockContent, Go, diskVars
<1>5. ASSUME NEW b \in Builders, ReuseSnapshot(b) PROVE ReadyComplete'
    BY <1>5 DEF ReuseSnapshot, Forget, Go, diskVars
<1>6. ASSUME NEW b \in Builders, ListEntries(b) PROVE ReadyComplete'
    BY <1>6 DEF ListEntries, Go, diskVars
<1>7. ASSUME NEW b \in Builders, Collecting(b) PROVE ReadyComplete'
  <2>1. PICK f \in TreeOf[target[b]], c \in Contents, n \in 0 .. 1,
             new \in SUBSET ({"source", "ast"} \X Blobs) :
          /\ Record(b, f, c, n, new)
          /\ c \in {f[2], Lost}
          /\ c # Lost => /\ <<"source", c>> \in objects \cup new
                         /\ n > 0 => <<"ast", c>> \in objects \cup new
      BY <1>7, CollectingRecords
  <2>2. UNCHANGED <<files, ready, cut>>
      BY <2>1 DEF Record, diskVars
  <2> QED BY <2>2
<1>8. ASSUME NEW b \in Builders, PublishObjects(b) PROVE ReadyComplete'
    BY <1>8 DEF PublishObjects, Go, diskVars
<1>9. ASSUME NEW b \in Builders, PublishContent(b) PROVE ReadyComplete'
    BY <1>9 DEF PublishContent, Go, diskVars
<1>10. ASSUME NEW b \in Builders, PublishBranch(b) PROVE ReadyComplete'
  <2>1. /\ pc[b] = "merged"
        /\ files' = [files EXCEPT ![target[b]] = {<<e[1], e[3]>> : e \in batch[b]}]
        /\ ready' = ready \cup {target[b]}
        /\ cut' = IF b \in ended THEN cut \cup {target[b]} ELSE cut \ {target[b]}
      BY <1>10 DEF PublishBranch, Go
  <2>2. target[b] \in Snapshots
      OBVIOUS
  <2>3. files'[target[b]] = {<<e[1], e[3]>> : e \in batch[b]}
      BY <2>1, <2>2
  <2>4. ASSUME target[b] \notin cut' PROVE Whole(target[b])'
    <3>1. b \notin ended
        BY <2>1, <2>4
    <3>2. ASSUME NEW f \in TreeOf[target[b]]
          PROVE  \E r \in files'[target[b]] : r[1] = f[1]
      <4>1. PICK e \in batch[b] : e[1] = f[1]
          BY <2>1, <3>1
      <4>2. <<e[1], e[3]>> \in files'[target[b]]
          BY <2>3
      <4> QED BY <4>1, <4>2
    <3>3. target'[b] = target[b]
        BY <1>10 DEF PublishBranch
    <3> QED BY <3>2, <3>3
  <2>5. \A r \in files'[target[b]] :
          \E f \in TreeOf[target[b]] : r[1] = f[1] /\ r[2] \in {f[2], Lost}
    <3>1. ASSUME NEW e \in batch[b]
          PROVE  \E f \in TreeOf[target[b]] : e[1] = f[1] /\ e[3] \in {f[2], Lost}
      <4>1. <<e[1], e[2]>> \in TreeOf[target[b]] /\ e[3] \in {e[2], Lost}
          OBVIOUS
      <4> QED BY <4>1
    <3>2. ASSUME NEW r \in files'[target[b]]
          PROVE  \E f \in TreeOf[target[b]] : r[1] = f[1] /\ r[2] \in {f[2], Lost}
      <4>1. PICK e \in batch[b] : r = <<e[1], e[3]>>
          BY <2>3
      <4> QED BY <3>1, <4>1
    <3> QED BY <3>2
  <2>6. ASSUME NEW s \in ready', s # target[b]
        PROVE  Faithful(s)' /\ (s \notin cut' => Whole(s)')
    <3>1. s \in ready /\ files'[s] = files[s] /\ (s \in cut' <=> s \in cut)
        BY <2>1, <2>6
    <3> QED BY <3>1
  <2>7. ASSUME NEW s \in ready', s = target[b]
        PROVE  Faithful(s)' /\ (s \notin cut' => Whole(s)')
    <3>1. target'[b] = target[b]
        BY <1>10 DEF PublishBranch
    <3> QED BY <2>4, <2>5, <2>7, <3>1
  <2> HIDE DEF Faithful, Whole
  <2> QED BY <2>6, <2>7
<1>11. ASSUME NEW b \in Builders, WriteManifest(b) PROVE ReadyComplete'
    BY <1>11 DEF WriteManifest, Forget, Go, diskVars
<1>12. ASSUME NEW b \in Builders, SaveSnapshot(b) PROVE ReadyComplete'
    BY <1>12 DEF SaveSnapshot, Go, diskVars
<1>13. ASSUME NEW b \in Builders, Fail(b) PROVE ReadyComplete'
    BY <1>13 DEF Fail, Stop, Forget, HoldsIndexLock, diskVars
<1>14. ASSUME NEW b \in Builders, Crash(b) PROVE ReadyComplete'
    BY <1>14 DEF Crash, Stop, Forget, HoldsIndexLock, diskVars
<1>15. ASSUME NEW b \in Builders, EndContext(b) PROVE ReadyComplete'
    BY <1>15 DEF EndContext, diskVars
<1> QED BY <1>1, <1>2, <1>3, <1>4, <1>5, <1>6, <1>7, <1>8, <1>9, <1>10, <1>11, <1>12, <1>13, <1>14, <1>15
       DEF Next, Continue, EntriesFail

(* Content rows are written after the objects of the batch.                *)
LEMMA StepKeepsContents ==
  BuildInductive /\ TypeOK' /\ [Next]_vars => ContentBacked'
<1> SUFFICES ASSUME BuildInductive, TypeOK', [Next]_vars PROVE ContentBacked'
    OBVIOUS
<1> USE BuildAssumption, DistinctAssumption DEF BuildInductive, TypeOK, ContentBacked, BatchBacked, BatchContents, NewContents, FactsOnce
<1>1. CASE UNCHANGED vars
    BY <1>1 DEF vars, buildVars, diskVars
<1>2. ASSUME NEW b \in Builders, NEW s \in Snapshots, Begin(b, s) PROVE ContentBacked'
    BY <1>2 DEF Begin, Go, diskVars
<1>3. ASSUME NEW b \in Builders, OpenBranch(b) PROVE ContentBacked'
    BY <1>3 DEF OpenBranch, Go, diskVars
<1>4. ASSUME NEW b \in Builders, LockContent(b) PROVE ContentBacked'
    BY <1>4 DEF LockContent, Go, diskVars
<1>5. ASSUME NEW b \in Builders, ReuseSnapshot(b) PROVE ContentBacked'
    BY <1>5 DEF ReuseSnapshot, Forget, Go, diskVars
<1>6. ASSUME NEW b \in Builders, ListEntries(b) PROVE ContentBacked'
    BY <1>6 DEF ListEntries, Go, diskVars
<1>7. ASSUME NEW b \in Builders, Collecting(b) PROVE ContentBacked'
    BY <1>7, CollectingRecords DEF Record, diskVars
<1>8. ASSUME NEW b \in Builders, PublishObjects(b) PROVE ContentBacked'
    BY <1>8 DEF PublishObjects, Go, diskVars
<1>9. ASSUME NEW b \in Builders, PublishContent(b) PROVE ContentBacked'
  <2>1. PICK lead \in [NewContents(b) -> batch[b]] :
          /\ \A c \in NewContents(b) : lead[c][3] = c
          /\ facts' = [c \in Contents |->
                         IF c \in NewContents(b) THEN facts[c] + lead[c][4] ELSE facts[c]]
      BY <1>9 DEF PublishContent
  <2>2. /\ pc[b] = "merging"
        /\ contents' = contents \cup BatchContents(b)
        /\ objects' = objects
      BY <1>9 DEF PublishContent, Go
  <2>3. ASSUME NEW c \in contents' \ {Lost}
        PROVE  <<"source", c>> \in objects /\ (facts'[c] > 0 => <<"ast", c>> \in objects)
    <3>1. c \in Contents
        OBVIOUS
    <3>2. CASE c \in contents
      <4>1. facts'[c] = facts[c]
          BY <2>1, <3>1, <3>2
      <4> QED BY <3>2, <4>1
    <3>3. CASE c \notin contents
      <4>1. c \in NewContents(b) /\ facts[c] = 0
          BY <2>2, <3>1, <3>3
      <4>2. lead[c] \in batch[b] /\ lead[c][3] = c
          BY <2>1, <4>1
      <4>3. facts'[c] = 0 + lead[c][4]
          BY <2>1, <3>1, <4>1
      <4>4. staged[b] \subseteq objects
          BY <2>2
      <4>5. lead[c][4] \in 0 .. 1
          BY <4>2
      <4>6. facts'[c] = lead[c][4]
          BY <4>3, <4>5
      <4> QED BY <4>2, <4>4, <4>6
    <3> QED BY <3>2, <3>3
  <2> QED BY <2>2, <2>3
<1>10. ASSUME NEW b \in Builders, PublishBranch(b) PROVE ContentBacked'
    BY <1>10 DEF PublishBranch, Go, diskVars
<1>11. ASSUME NEW b \in Builders, WriteManifest(b) PROVE ContentBacked'
    BY <1>11 DEF WriteManifest, Forget, Go, diskVars
<1>12. ASSUME NEW b \in Builders, SaveSnapshot(b) PROVE ContentBacked'
    BY <1>12 DEF SaveSnapshot, Go, diskVars
<1>13. ASSUME NEW b \in Builders, Fail(b) PROVE ContentBacked'
    BY <1>13 DEF Fail, Stop, Forget, HoldsIndexLock, diskVars
<1>14. ASSUME NEW b \in Builders, Crash(b) PROVE ContentBacked'
    BY <1>14 DEF Crash, Stop, Forget, HoldsIndexLock, diskVars
<1>15. ASSUME NEW b \in Builders, EndContext(b) PROVE ContentBacked'
    BY <1>15 DEF EndContext, diskVars
<1> QED BY <1>1, <1>2, <1>3, <1>4, <1>5, <1>6, <1>7, <1>8, <1>9, <1>10, <1>11, <1>12, <1>13, <1>14, <1>15
       DEF Next, Continue, EntriesFail

(* Facts are written with the row only, and the row only once.             *)
LEMMA StepKeepsFacts ==
  BuildInductive /\ TypeOK' /\ [Next]_vars => FactsOnce'
<1> SUFFICES ASSUME BuildInductive, TypeOK', [Next]_vars PROVE FactsOnce'
    OBVIOUS
<1> USE BuildAssumption, DistinctAssumption DEF BuildInductive, TypeOK, FactsOnce, BatchContents, NewContents
<1>1. CASE UNCHANGED vars
    BY <1>1 DEF vars, buildVars, diskVars
<1>2. ASSUME NEW b \in Builders, NEW s \in Snapshots, Begin(b, s) PROVE FactsOnce'
    BY <1>2 DEF Begin, Go, diskVars
<1>3. ASSUME NEW b \in Builders, OpenBranch(b) PROVE FactsOnce'
    BY <1>3 DEF OpenBranch, Go, diskVars
<1>4. ASSUME NEW b \in Builders, LockContent(b) PROVE FactsOnce'
    BY <1>4 DEF LockContent, Go, diskVars
<1>5. ASSUME NEW b \in Builders, ReuseSnapshot(b) PROVE FactsOnce'
    BY <1>5 DEF ReuseSnapshot, Forget, Go, diskVars
<1>6. ASSUME NEW b \in Builders, ListEntries(b) PROVE FactsOnce'
    BY <1>6 DEF ListEntries, Go, diskVars
<1>7. ASSUME NEW b \in Builders, Collecting(b) PROVE FactsOnce'
    BY <1>7, CollectingRecords DEF Record, diskVars
<1>8. ASSUME NEW b \in Builders, PublishObjects(b) PROVE FactsOnce'
    BY <1>8 DEF PublishObjects, Go, diskVars
<1>9. ASSUME NEW b \in Builders, PublishContent(b) PROVE FactsOnce'
  <2>1. PICK lead \in [NewContents(b) -> batch[b]] :
          facts' = [c \in Contents |->
                      IF c \in NewContents(b) THEN facts[c] + lead[c][4] ELSE facts[c]]
      BY <1>9 DEF PublishContent
  <2>2. contents' = contents \cup BatchContents(b)
      BY <1>9 DEF PublishContent
  <2>3. ASSUME NEW c \in Contents
        PROVE  facts'[c] <= 1 /\ (c \notin contents' => facts'[c] = 0)
    <3>1. CASE c \in NewContents(b)
      <4>1. lead[c][4] \in 0 .. 1
          BY <2>1, <3>1
      <4>2. facts[c] = 0
          BY <3>1
      <4>3. facts'[c] = facts[c] + lead[c][4]
          BY <2>1, <3>1
      <4>4. c \in contents'
          BY <2>2, <3>1
      <4> HIDE DEF TypeOK, FactsOnce, BatchContents, NewContents
      <4> QED BY <4>1, <4>2, <4>3, <4>4
    <3>2. CASE c \notin NewContents(b)
        BY <2>1, <2>2, <3>2
    <3> QED BY <3>1, <3>2
  <2> QED BY <2>3
<1>10. ASSUME NEW b \in Builders, PublishBranch(b) PROVE FactsOnce'
    BY <1>10 DEF PublishBranch, Go, diskVars
<1>11. ASSUME NEW b \in Builders, WriteManifest(b) PROVE FactsOnce'
    BY <1>11 DEF WriteManifest, Forget, Go, diskVars
<1>12. ASSUME NEW b \in Builders, SaveSnapshot(b) PROVE FactsOnce'
    BY <1>12 DEF SaveSnapshot, Go, diskVars
<1>13. ASSUME NEW b \in Builders, Fail(b) PROVE FactsOnce'
    BY <1>13 DEF Fail, Stop, Forget, HoldsIndexLock, diskVars
<1>14. ASSUME NEW b \in Builders, Crash(b) PROVE FactsOnce'
    BY <1>14 DEF Crash, Stop, Forget, HoldsIndexLock, diskVars
<1>15. ASSUME NEW b \in Builders, EndContext(b) PROVE FactsOnce'
    BY <1>15 DEF EndContext, diskVars
<1> QED BY <1>1, <1>2, <1>3, <1>4, <1>5, <1>6, <1>7, <1>8, <1>9, <1>10, <1>11, <1>12, <1>13, <1>14, <1>15
       DEF Next, Continue, EntriesFail

(* The manifest follows the branch, the catalogue follows the manifest.    *)
LEMMA StepKeepsListed ==
  BuildInductive /\ TypeOK' /\ [Next]_vars => ListedBacked'
<1> SUFFICES ASSUME BuildInductive, TypeOK', [Next]_vars PROVE ListedBacked'
    OBVIOUS
<1> USE BuildAssumption, DistinctAssumption DEF BuildInductive, TypeOK, ListedBacked, StagesRecorded
<1>1. CASE UNCHANGED vars
    BY <1>1 DEF vars, buildVars, diskVars
<1>2. ASSUME NEW b \in Builders, NEW s \in Snapshots, Begin(b, s) PROVE ListedBacked'
    BY <1>2 DEF Begin, Go, diskVars
<1>3. ASSUME NEW b \in Builders, OpenBranch(b) PROVE ListedBacked'
    BY <1>3 DEF OpenBranch, Go, diskVars
<1>4. ASSUME NEW b \in Builders, LockContent(b) PROVE ListedBacked'
    BY <1>4 DEF LockContent, Go, diskVars
<1>5. ASSUME NEW b \in Builders, ReuseSnapshot(b) PROVE ListedBacked'
    BY <1>5 DEF ReuseSnapshot, Forget, Go, diskVars
<1>6. ASSUME NEW b \in Builders, ListEntries(b) PROVE ListedBacked'
    BY <1>6 DEF ListEntries, Go, diskVars
<1>7. ASSUME NEW b \in Builders, Collecting(b) PROVE ListedBacked'
    BY <1>7, CollectingRecords DEF Record, diskVars
<1>8. ASSUME NEW b \in Builders, PublishObjects(b) PROVE ListedBacked'
    BY <1>8 DEF PublishObjects, Go, diskVars
<1>9. ASSUME NEW b \in Builders, PublishContent(b) PROVE ListedBacked'
    BY <1>9 DEF PublishContent, Go, diskVars
<1>10. ASSUME NEW b \in Builders, PublishBranch(b) PROVE ListedBacked'
    BY <1>10 DEF PublishBranch, Go, diskVars
<1>11. ASSUME NEW b \in Builders, WriteManifest(b) PROVE ListedBacked'
    BY <1>11 DEF WriteManifest, Forget, Go, diskVars
<1>12. ASSUME NEW b \in Builders, SaveSnapshot(b) PROVE ListedBacked'
    BY <1>12 DEF SaveSnapshot, Go, diskVars
<1>13. ASSUME NEW b \in Builders, Fail(b) PROVE ListedBacked'
    BY <1>13 DEF Fail, Stop, Forget, HoldsIndexLock, diskVars
<1>14. ASSUME NEW b \in Builders, Crash(b) PROVE ListedBacked'
    BY <1>14 DEF Crash, Stop, Forget, HoldsIndexLock, diskVars
<1>15. ASSUME NEW b \in Builders, EndContext(b) PROVE ListedBacked'
    BY <1>15 DEF EndContext, diskVars
<1> QED BY <1>1, <1>2, <1>3, <1>4, <1>5, <1>6, <1>7, <1>8, <1>9, <1>10, <1>11, <1>12, <1>13, <1>14, <1>15
       DEF Next, Continue, EntriesFail

(* An alias is written for a content of the batch, whose row exists.       *)
LEMMA StepKeepsAliases ==
  BuildInductive /\ TypeOK' /\ [Next]_vars => AliasSound'
<1> SUFFICES ASSUME BuildInductive, TypeOK', [Next]_vars PROVE AliasSound'
    OBVIOUS
<1> USE BuildAssumption, DistinctAssumption DEF BuildInductive, TypeOK, AliasSound, BatchContents, BatchFaithful
<1>1. CASE UNCHANGED vars
    BY <1>1 DEF vars, buildVars, diskVars
<1>2. ASSUME NEW b \in Builders, NEW s \in Snapshots, Begin(b, s) PROVE AliasSound'
    BY <1>2 DEF Begin, Go, diskVars
<1>3. ASSUME NEW b \in Builders, OpenBranch(b) PROVE AliasSound'
    BY <1>3 DEF OpenBranch, Go, diskVars
<1>4. ASSUME NEW b \in Builders, LockContent(b) PROVE AliasSound'
    BY <1>4 DEF LockContent, Go, diskVars
<1>5. ASSUME NEW b \in Builders, ReuseSnapshot(b) PROVE AliasSound'
    BY <1>5 DEF ReuseSnapshot, Forget, Go, diskVars
<1>6. ASSUME NEW b \in Builders, ListEntries(b) PROVE AliasSound'
    BY <1>6 DEF ListEntries, Go, diskVars
<1>7. ASSUME NEW b \in Builders, Collecting(b) PROVE AliasSound'
  <2>1. UNCHANGED <<contents, aliases>>
      BY <1>7 DEF Collecting, ReuseContent, Parse, ParseFails, LoseSource, Record, diskVars
  <2> QED BY <2>1
<1>8. ASSUME NEW b \in Builders, PublishObjects(b) PROVE AliasSound'
    BY <1>8 DEF PublishObjects, Go, diskVars
<1>9. ASSUME NEW b \in Builders, PublishContent(b) PROVE AliasSound'
    BY <1>9 DEF PublishContent, Go, diskVars
<1>10. ASSUME NEW b \in Builders, PublishBranch(b) PROVE AliasSound'
    BY <1>10 DEF PublishBranch, Go, diskVars
<1>11. ASSUME NEW b \in Builders, WriteManifest(b) PROVE AliasSound'
    BY <1>11 DEF WriteManifest, Forget, Go, diskVars
<1>12. ASSUME NEW b \in Builders, SaveSnapshot(b) PROVE AliasSound'
    BY <1>12 DEF SaveSnapshot, Go, diskVars
<1>13. ASSUME NEW b \in Builders, Fail(b) PROVE AliasSound'
    BY <1>13 DEF Fail, Stop, Forget, HoldsIndexLock, diskVars
<1>14. ASSUME NEW b \in Builders, Crash(b) PROVE AliasSound'
    BY <1>14 DEF Crash, Stop, Forget, HoldsIndexLock, diskVars
<1>15. ASSUME NEW b \in Builders, EndContext(b) PROVE AliasSound'
    BY <1>15 DEF EndContext, diskVars
<1> QED BY <1>1, <1>2, <1>3, <1>4, <1>5, <1>6, <1>7, <1>8, <1>9, <1>10, <1>11, <1>12, <1>13, <1>14, <1>15
       DEF Next, Continue, EntriesFail

(* Nobody takes or gives back the index lock of a running build.           *)
LEMMA StepKeepsOneBuild ==
  BuildInductive /\ TypeOK' /\ [Next]_vars => OneBuildPerSnapshot'
<1> SUFFICES ASSUME BuildInductive, TypeOK', [Next]_vars PROVE OneBuildPerSnapshot'
    OBVIOUS
<1> USE BuildAssumption, DistinctAssumption DEF BuildInductive, TypeOK, OneBuildPerSnapshot, HoldsIndexLock, Reclaimable
<1>1. CASE UNCHANGED vars
    BY <1>1 DEF vars, buildVars, diskVars
<1>2. ASSUME NEW b \in Builders, NEW s \in Snapshots, Begin(b, s) PROVE OneBuildPerSnapshot'
    BY <1>2 DEF Begin, Go, diskVars
<1>3. ASSUME NEW b \in Builders, OpenBranch(b) PROVE OneBuildPerSnapshot'
    BY <1>3 DEF OpenBranch, Go, diskVars
<1>4. ASSUME NEW b \in Builders, LockContent(b) PROVE OneBuildPerSnapshot'
    BY <1>4 DEF LockContent, Go, diskVars
<1>5. ASSUME NEW b \in Builders, ReuseSnapshot(b) PROVE OneBuildPerSnapshot'
    BY <1>5 DEF ReuseSnapshot, Go, diskVars
<1>6. ASSUME NEW b \in Builders, ListEntries(b) PROVE OneBuildPerSnapshot'
    BY <1>6 DEF ListEntries, Go, diskVars
<1>7. ASSUME NEW b \in Builders, Collecting(b) PROVE OneBuildPerSnapshot'
    BY <1>7, CollectingRecords DEF Record, diskVars
<1>8. ASSUME NEW b \in Builders, PublishObjects(b) PROVE OneBuildPerSnapshot'
    BY <1>8 DEF PublishObjects, Go, diskVars
<1>9. ASSUME NEW b \in Builders, PublishContent(b) PROVE OneBuildPerSnapshot'
    BY <1>9 DEF PublishContent, Go, diskVars
<1>10. ASSUME NEW b \in Builders, PublishBranch(b) PROVE OneBuildPerSnapshot'
    BY <1>10 DEF PublishBranch, Go, diskVars
<1>11. ASSUME NEW b \in Builders, WriteManifest(b) PROVE OneBuildPerSnapshot'
    BY <1>11 DEF WriteManifest, Go, diskVars
<1>12. ASSUME NEW b \in Builders, SaveSnapshot(b) PROVE OneBuildPerSnapshot'
    BY <1>12 DEF SaveSnapshot, Go, diskVars
<1>13. ASSUME NEW b \in Builders, Fail(b) PROVE OneBuildPerSnapshot'
    BY <1>13 DEF Fail, Stop, Forget, HoldsIndexLock, diskVars
<1>14. ASSUME NEW b \in Builders, Crash(b) PROVE OneBuildPerSnapshot'
    BY <1>14 DEF Crash, Stop, Forget, HoldsIndexLock, diskVars
<1>15. ASSUME NEW b \in Builders, EndContext(b) PROVE OneBuildPerSnapshot'
    BY <1>15 DEF EndContext, diskVars
<1> QED BY <1>1, <1>2, <1>3, <1>4, <1>5, <1>6, <1>7, <1>8, <1>9, <1>10, <1>11, <1>12, <1>13, <1>14, <1>15
       DEF Next, Continue, EntriesFail

(* The strengthened invariant holds initially ...                          *)
LEMMA InitInductive == Init => BuildInductive
<1> SUFFICES ASSUME Init PROVE BuildInductive
    OBVIOUS
<1>1. TypeOK
    BY InitTyped
<1>2. BatchFaithful /\ BatchBacked /\ StagesRecorded
    BY DEF Init, BatchFaithful, BatchBacked, StagesRecorded
<1>3. FullTextExact /\ ReadyComplete /\ ContentBacked
    BY DEF Init, FullTextExact, ReadyComplete, ContentBacked
<1>4. FactsOnce /\ ListedBacked /\ AliasSound /\ OneBuildPerSnapshot
    BY DEF Init, FactsOnce, ListedBacked, AliasSound, OneBuildPerSnapshot, HoldsIndexLock
<1> QED BY <1>1, <1>2, <1>3, <1>4 DEF BuildInductive

(* ... and every step keeps it.                                            *)
LEMMA StepInductive == BuildInductive /\ [Next]_vars => BuildInductive'
<1> SUFFICES ASSUME BuildInductive, [Next]_vars PROVE BuildInductive'
    OBVIOUS
<1>1. TypeOK'
    BY StepTyped DEF BuildInductive
<1> QED BY <1>1, StepKeepsBatch, StepKeepsBacking, StepKeepsStages, StepKeepsFullText,
           StepKeepsComplete, StepKeepsContents, StepKeepsFacts, StepKeepsListed,
           StepKeepsAliases, StepKeepsOneBuild DEF BuildInductive

(* The strengthened invariant holds throughout, for any number of builds,  *)
(* snapshots, files, failures and crashes, and with a content lock that    *)
(* does not exclude.                                                       *)
THEOREM BuildInvariant == Spec => []BuildInductive
<1>1. Init => BuildInductive
    BY InitInductive
<1>2. BuildInductive /\ [Next]_vars => BuildInductive'
    BY StepInductive
<1> QED BY <1>1, <1>2, PTL DEF Spec

(* A ready snapshot has no file that its commit has not, and every file of *)
(* it unless the context of its build had ended when it was published.     *)
THEOREM SnapshotsAreComplete == Spec => []ReadyComplete
<1>1. BuildInductive => ReadyComplete
    BY DEF BuildInductive
<1> QED BY <1>1, BuildInvariant, PTL

(* A content row is never there before its objects (Branch.Publish runs    *)
(* after objects.Publish).                                                 *)
THEOREM ContentsHaveObjects == Spec => []ContentBacked
<1>1. BuildInductive => ContentBacked
    BY DEF BuildInductive
<1> QED BY <1>1, BuildInvariant, PTL

(* The facts of a content are stored once (INSERT OR IGNORE decides it in  *)
(* the transaction, not the lock file).                                    *)
THEOREM FactsStoredOnce == Spec => []FactsOnce
<1>1. BuildInductive => FactsOnce
    BY DEF BuildInductive
<1> QED BY <1>1, BuildInvariant, PTL

(* The catalogue lists only what is ready and has a manifest.              *)
THEOREM ListedIsReady == Spec => []ListedBacked
<1>1. BuildInductive => ListedBacked
    BY DEF BuildInductive
<1> QED BY <1>1, BuildInvariant, PTL

(* The full-text index of a product covers its ready snapshots, each       *)
(* content with the documents it has and once.                             *)
THEOREM FullTextIsComplete == Spec => []FullTextCovers
<1>1. BuildInductive => FullTextCovers
  <2> SUFFICES ASSUME BuildInductive, NEW s \in ready, NEW r \in files[s]
               PROVE  {entry \in fts[ProductOf[s]] : entry[1] = r[2]} = {<<r[2], facts[r[2]]>>}
      BY DEF FullTextCovers
  <2>1. s \in Snapshots /\ ProductOf[s] \in Products
      BY BuildAssumption DEF BuildInductive, TypeOK
  <2>2. \A entry \in fts[ProductOf[s]] :
          entry = <<entry[1], entry[2]>> /\ entry[2] = facts[entry[1]]
      BY <2>1 DEF BuildInductive, TypeOK, FullTextExact
  <2>3. PICK entry \in fts[ProductOf[s]] : entry[1] = r[2]
      BY <2>1 DEF BuildInductive, FullTextExact, IndexedContents
  <2> QED BY <2>2, <2>3
<1> QED BY <1>1, BuildInvariant, PTL

(* Builds of one snapshot exclude each other.                              *)
THEOREM IndexLockExcludes == Spec => []OneBuildPerSnapshot
<1>1. BuildInductive => OneBuildPerSnapshot
    BY DEF BuildInductive
<1> QED BY <1>1, BuildInvariant, PTL

-----------------------------------------------------------------------------
(* As long as no write of an object fails, no batch and no ready snapshot  *)
(* refers to the lost content.                                             *)
NothingLost ==
  /\ \A b \in Builders : \A e \in batch[b] : e[3] # Lost
  /\ \A s \in ready : \A r \in files[s] : r[2] # Lost

(* The lost content comes from a failed PutSource only.                    *)
LEMMA StepLosesNothing ==
  ASSUME MayLose = FALSE, BuildInductive, TypeOK', NothingLost, [Next]_vars
  PROVE  NothingLost'
<1> USE DEF NothingLost
<1>1. CASE UNCHANGED vars
    BY <1>1 DEF vars, buildVars, diskVars
<1>2. ASSUME NEW b \in Builders, NEW s \in Snapshots, Begin(b, s) PROVE NothingLost'
    BY <1>2 DEF Begin, diskVars
<1>3. ASSUME NEW b \in Builders, OpenBranch(b) \/ LockContent(b) PROVE NothingLost'
    BY <1>3 DEF OpenBranch, LockContent, diskVars
<1>4. ASSUME NEW b \in Builders, Collecting(b) PROVE NothingLost'
  <2>1. PICK f \in TreeOf[target[b]] : ReuseContent(b, f) \/ Parse(b, f) \/ ParseFails(b, f)
      BY <1>4 DEF Collecting, LoseSource
  <2>2. f \in Paths \X Blobs
      BY BuildAssumption DEF BuildInductive, TypeOK
  <2>3. f[2] # Lost
      BY <2>2, DistinctAssumption
  <2>4. PICK c, n, new : c # Lost /\ Record(b, f, c, n, new)
      BY <2>1, <2>3 DEF ReuseContent, ReusableContent, Parse, ParseFails
  <2>5. UNCHANGED <<files, ready>>
      BY <2>4 DEF Record, diskVars
  <2>6. \A q \in Builders : \A e \in batch'[q] :
          e \in batch[q] \/ e = <<f[1], f[2], c, n>>
      BY <2>4 DEF Record, BuildInductive, TypeOK
  <2> QED BY <2>4, <2>5, <2>6
<1>5. ASSUME NEW b \in Builders,
             ListEntries(b) \/ PublishObjects(b) \/ PublishContent(b)
      PROVE  NothingLost'
    BY <1>5 DEF ListEntries, PublishObjects, PublishContent, diskVars
<1>6. ASSUME NEW b \in Builders, PublishBranch(b) PROVE NothingLost'
  <2>1. /\ files' = [files EXCEPT ![target[b]] = {<<e[1], e[3]>> : e \in batch[b]}]
        /\ ready' = ready \cup {target[b]}
        /\ batch' = batch
      BY <1>6 DEF PublishBranch
  <2>2. ready \subseteq Snapshots /\ files \in [Snapshots -> SUBSET (Paths \X Contents)]
        /\ target[b] \in Snapshots
      BY DEF BuildInductive, TypeOK
  <2>3. ASSUME NEW s \in ready', NEW r \in files'[s] PROVE r[2] # Lost
      BY <2>1, <2>2
  <2> QED BY <2>1, <2>3
<1>7. ASSUME NEW b \in Builders,
             ReuseSnapshot(b) \/ WriteManifest(b) \/ Fail(b) \/ Crash(b)
      PROVE  NothingLost'
    BY <1>7 DEF ReuseSnapshot, WriteManifest, Fail, Crash, Stop, Forget, diskVars,
                BuildInductive, TypeOK
<1>8. ASSUME NEW b \in Builders, SaveSnapshot(b) \/ EndContext(b) PROVE NothingLost'
    BY <1>8 DEF SaveSnapshot, EndContext, diskVars
<1> QED BY <1>1, <1>2, <1>3, <1>4, <1>5, <1>6, <1>7, <1>8 DEF Next, Continue, EntriesFail

(* What a build publishes is then a part of the tree of its commit, and    *)
(* the whole tree if its context lives.                                    *)
LEMMA BatchIsEdition ==
  ASSUME BuildInductive, NothingLost, NEW b \in Builders, pc[b] = "merged"
  PROVE  /\ {<<e[1], e[3]>> : e \in batch[b]} \subseteq TreeOf[target[b]]
         /\ b \notin ended => {<<e[1], e[3]>> : e \in batch[b]} = TreeOf[target[b]]
<1>1. target[b] \in Snapshots
    BY DEF BuildInductive, TypeOK
<1>2. /\ TreeOf[target[b]] \subseteq Paths \X Blobs
      /\ \A f, g \in TreeOf[target[b]] : f[1] = g[1] => f = g
    BY <1>1, BuildAssumption
<1>3. ASSUME NEW e \in batch[b]
      PROVE  e[3] = e[2] /\ <<e[1], e[3]>> \in TreeOf[target[b]]
    BY DEF BuildInductive, BatchFaithful, NothingLost
<1>4. ASSUME b \notin ended, NEW f \in TreeOf[target[b]]
      PROVE  f \in {<<e[1], e[3]>> : e \in batch[b]}
  <2>1. PICK e \in batch[b] : e[1] = f[1]
      BY <1>4 DEF BuildInductive, BatchFaithful
  <2>2. <<e[1], e[3]>> = f
      BY <1>2, <1>3, <2>1
  <2> QED BY <2>2
<1> QED BY <1>3, <1>4

(* When no write of an object fails, every file of a ready snapshot can be *)
(* read.                                                                   *)
THEOREM ReadyIsReadable == MayLose = FALSE => (Spec => []ReadyReadable)
<1> SUFFICES ASSUME MayLose = FALSE PROVE Spec => []ReadyReadable
    OBVIOUS
<1>1. Init => NothingLost
    BY DEF Init, NothingLost
<1>2. BuildInductive /\ BuildInductive' /\ NothingLost /\ [Next]_vars => NothingLost'
    BY StepLosesNothing DEF BuildInductive
<1>3. BuildInductive /\ NothingLost => ReadyReadable
  <2> SUFFICES ASSUME BuildInductive, NothingLost, NEW s \in ready, NEW r \in files[s]
               PROVE  <<"source", r[2]>> \in objects
      BY DEF ReadyReadable
  <2>1. s \in Snapshots /\ ProductOf[s] \in Products
      BY BuildAssumption DEF BuildInductive, TypeOK
  <2>2. r[2] \in contents
      BY <2>1 DEF BuildInductive, FullTextExact, IndexedContents
  <2>3. r[2] # Lost
      BY DEF NothingLost
  <2> QED BY <2>2, <2>3 DEF BuildInductive, ContentBacked
<1> QED BY <1>1, <1>2, <1>3, BuildInvariant, PTL DEF Spec

(* When no write of an object fails, building implements the snapshot      *)
(* store: PublishBranch publishes an edition of a snapshot that is not     *)
(* listed, SaveSnapshot lists a published one, nothing else is visible.    *)
THEOREM BuildRefinesStore == MayLose = FALSE => (Spec => StoreSpec)
<1> SUFFICES ASSUME MayLose = FALSE PROVE Spec => StoreSpec
    OBVIOUS
<1> DEFINE shown == [s \in Snapshots |-> IF s \in ready THEN {files[s]} ELSE {}]
           visible == <<shown, cut, catalog>>
<1>1. Init => NothingLost
    BY DEF Init, NothingLost
<1>2. BuildInductive /\ BuildInductive' /\ NothingLost /\ [Next]_vars => NothingLost'
    BY StepLosesNothing DEF BuildInductive
<1>3. Init => Store!Init
    BY DEF Init, Store!Init
<1>4. ASSUME BuildInductive, NothingLost, [Next]_vars
      PROVE  [Store!Next]_visible
  <2>1. ASSUME NEW b \in Builders, PublishBranch(b) PROVE Store!Next
    <3>1. PICK s \in Snapshots : s = target[b]
        BY <1>4 DEF BuildInductive, TypeOK
    <3>2. PICK edition : edition = {<<e[1], e[3]>> : e \in batch[b]}
        OBVIOUS
    <3>3. /\ files' = [files EXCEPT ![s] = edition]
          /\ ready' = ready \cup {s}
          /\ cut' = IF b \in ended THEN cut \cup {s} ELSE cut \ {s}
          /\ catalog' = catalog
          /\ pc[b] = "merged"
        BY <2>1, <3>1, <3>2 DEF PublishBranch, Go
    <3>4. /\ edition \in SUBSET TreeOf[s]
          /\ b \notin ended => edition = TreeOf[s]
        BY <1>4, <3>1, <3>2, <3>3, BatchIsEdition
    <3>5. s \notin catalog
        BY <1>4, <3>1, <3>3 DEF BuildInductive, StagesRecorded, ListedBacked
    <3>6. files \in [Snapshots -> SUBSET (Paths \X Contents)]
        BY <1>4 DEF BuildInductive, TypeOK
    <3>7. shown' = [shown EXCEPT ![s] = {edition}]
      <4>1. ASSUME NEW q \in Snapshots
            PROVE  shown'[q] = IF q = s THEN {edition} ELSE shown[q]
          BY <3>3, <3>6
      <4> QED BY <4>1
    <3>8. \/ edition = TreeOf[s] /\ cut' = cut \ {s}
          \/ cut' = cut \cup {s}
        BY <3>3, <3>4
    <3>9. Store!Publish(s, edition)
        BY <3>3, <3>5, <3>7, <3>8 DEF Store!Publish
    <3> HIDE DEF shown
    <3> QED BY <3>4, <3>9 DEF Store!Next
  <2>2. ASSUME NEW b \in Builders, SaveSnapshot(b) PROVE Store!Next
    <3>1. target[b] \in Snapshots /\ target[b] \in ready
        BY <1>4, <2>2 DEF SaveSnapshot, Go, BuildInductive, TypeOK, StagesRecorded
    <3>2. shown' = shown /\ shown[target[b]] # {}
        BY <2>2, <3>1 DEF SaveSnapshot
    <3>3. Store!List(target[b])
        BY <2>2, <3>2 DEF SaveSnapshot, Store!List
    <3> HIDE DEF shown
    <3> QED BY <3>1, <3>3 DEF Store!Next
  <2>3. CASE UNCHANGED <<files, ready, cut, catalog>>
      BY <2>3
  <2>4. ASSUME NEW b \in Builders,
               \/ \E s \in Snapshots : Begin(b, s)
               \/ OpenBranch(b) \/ LockContent(b) \/ ReuseSnapshot(b) \/ ListEntries(b)
               \/ PublishObjects(b) \/ PublishContent(b) \/ WriteManifest(b)
               \/ EndContext(b) \/ Fail(b) \/ Crash(b)
        PROVE  UNCHANGED <<files, ready, cut, catalog>>
      BY <2>4 DEF Begin, OpenBranch, LockContent, ReuseSnapshot, ListEntries,
                  PublishObjects, PublishContent, WriteManifest, EndContext, Fail,
                  Crash, diskVars
  <2>5. ASSUME NEW b \in Builders, Collecting(b)
        PROVE  UNCHANGED <<files, ready, cut, catalog>>
      BY <2>5 DEF Collecting, ReuseContent, Parse, ParseFails, LoseSource, Record, diskVars
  <2>6. CASE UNCHANGED vars
      BY <2>3, <2>6 DEF vars, diskVars
  <2> HIDE DEF shown
  <2> QED BY <1>4, <2>1, <2>2, <2>3, <2>4, <2>5, <2>6 DEF Next, Continue, EntriesFail
<1> QED BY <1>1, <1>2, <1>3, <1>4, BuildInvariant, PTL DEF Spec, StoreSpec, Store!Spec
==============================================================================
