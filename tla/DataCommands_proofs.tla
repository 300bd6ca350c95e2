-------------------------- MODULE DataCommands_proofs --------------------------
(***************************************************************************)
(* Proofs about `wowdoc init` and `wowdoc source sync`, for any number of  *)
(* processes, sources, products, commits and failures: neither pool loses  *)
(* work, a reported success means that the work is done, and init stays    *)
(* within its worker budget.                                               *)
(***************************************************************************)
EXTENDS DataCommands, FiniteSetTheorems, WellFoundedInduction, TLAPS

(***************************************************************************)
(* Maxima and minima.                                                      *)
(***************************************************************************)

(* Of a non-empty set of commits there is a latest one.                    *)
LEMMA MaxOfCommits ==
  ASSUME NEW S, S \subseteq 1 .. MaxCommit, S # {}
  PROVE  Max(S) \in S
<1> DEFINE T == {k .. MaxCommit : k \in S}
<1> USE CommandAssumption
<1>1. T \subseteq FiniteSubsetsOf(1 .. MaxCommit)
  <2> SUFFICES ASSUME NEW k \in S PROVE k .. MaxCommit \in FiniteSubsetsOf(1 .. MaxCommit)
    OBVIOUS
  <2>1. IsFiniteSet(k .. MaxCommit)
    BY FS_Interval
  <2>2. k .. MaxCommit \subseteq 1 .. MaxCommit
    OBVIOUS
  <2>3. QED
    BY <2>1, <2>2 DEF FiniteSubsetsOf
<1>2. T # {}
  <2>1. PICK k : k \in S
    OBVIOUS
  <2>2. k .. MaxCommit \in T
    BY <2>1
  <2>3. QED
    BY <2>2
<1>3. PICK t \in T : \A u \in T : ~ (<<u, t>> \in StrictSubsetOrdering(1 .. MaxCommit))
  <2> HIDE DEF T
  <2>1. QED
    BY <1>1, <1>2, FS_StrictSubsetOrderingWellFounded, WFMin
<1>4. PICK k \in S : t = k .. MaxCommit
  OBVIOUS
<1>5. \A j \in S : k >= j
  <2> SUFFICES ASSUME NEW j \in S, j > k PROVE FALSE
    OBVIOUS
  <2>1. j .. MaxCommit \subseteq k .. MaxCommit
    OBVIOUS
  <2>2. k \in k .. MaxCommit /\ k \notin j .. MaxCommit
    OBVIOUS
  <2>3. <<j .. MaxCommit, k .. MaxCommit>> \in StrictSubsetOrdering(1 .. MaxCommit)
    BY <2>1, <2>2 DEF StrictSubsetOrdering
  <2>4. QED
    BY <1>3, <1>4, <2>3
<1>6. QED
  BY <1>5 DEF Max

LEMMA MaxOfPair ==
  ASSUME NEW i \in Int, NEW j \in Int
  PROVE  Max({i, j}) = IF i >= j THEN i ELSE j
BY DEF Max

LEMMA MinOfThree ==
  ASSUME NEW i \in Int, NEW j \in Int, NEW k \in Int
  PROVE  Min({i, j, k}) = IF i <= j THEN IF i <= k THEN i ELSE k
                                    ELSE IF j <= k THEN j ELSE k
BY DEF Min

LEMMA BranchWorkersType ==
  ASSUME NEW c
  PROVE  BranchWorkers(c) \in Nat
<1>1. Planned(c) \subseteq Products
  BY DEF Planned
<1>2. Cardinality(Planned(c)) \in Nat
  BY <1>1, CommandAssumption, FS_Subset, FS_CardinalityType
<1>3. Budget \div 2 \in Nat
  BY CommandAssumption
<1>4. QED
  BY <1>2, <1>3, MaxOfPair, MinOfThree DEF BranchWorkers

(* What builds at the same time times what each gets is the budget at most.*)
LEMMA Shares ==
  ASSUME NEW c, IsFiniteSet(Planned(c)), Planned(c) # {},
         NEW n \in Nat, n <= BranchWorkers(c)
  PROVE  n * WorkersPerBuild(c) <= Budget
<1> USE CommandAssumption
<1>1. Cardinality(Planned(c)) \in Nat /\ Cardinality(Planned(c)) # 0
  BY FS_CardinalityType, FS_EmptySet
<1>2. Budget \div 2 \in Nat
  OBVIOUS
<1> DEFINE half == Max({Budget \div 2, 1})
<1> DEFINE planned == Cardinality(Planned(c))
<1>3. /\ BranchWorkers(c) \in 1 .. 4
      /\ BranchWorkers(c) <= Budget
  <2>1. half \in 1 .. Budget
    BY <1>2, MaxOfPair
  <2>2. planned \in Nat \ {0}
    BY <1>1
  <2>3. BranchWorkers(c) = Min({half, 4, planned})
    BY DEF BranchWorkers
  <2> HIDE DEF half, planned
  <2>4. QED
    BY <2>1, <2>2, <2>3, MinOfThree
<1>4. WorkersPerBuild(c) = Budget \div BranchWorkers(c)
  <2>1. Budget \div BranchWorkers(c) \in Nat \ {0}
    BY <1>3
  <2>2. QED
    BY <2>1, MaxOfPair DEF WorkersPerBuild
<1>5. WorkersPerBuild(c) \in Nat /\ BranchWorkers(c) * WorkersPerBuild(c) <= Budget
  BY <1>3, <1>4
<1>6. n \in 0 .. 4
  BY <1>3
<1>7. QED
  BY <1>3, <1>5, <1>6

(***************************************************************************)
(* The inductive invariant.                                                *)
(***************************************************************************)

(* Every source of a product that was asked for is open or synchronised.   *)
Syncing(c) ==
  /\ cmd[c].selected # {}
  /\ cmd[c].queue \cup cmd[c].busy \subseteq Sources
  /\ \A p \in cmd[c].selected :
       SourceOf[p] \in cmd[c].queue \cup cmd[c].busy \cup cmd[c].failed \cup cmd[c].synced

(* Every product is open, published, or its source is reported; one is in  *)
(* hand at a time.                                                         *)
Publishing(c) ==
  /\ cmd[c].selected # {}
  /\ kind[c] = "init" => cmd[c].failed = {}
  /\ cmd[c].queue \cup cmd[c].busy \subseteq Products
  /\ \A p \in cmd[c].queue : SourceOf[p] \in cmd[c].synced
  /\ \A p \in cmd[c].busy : cmd[c].plan[p].head # 0 /\ cmd[c].busy = {p}
  /\ \A p \in cmd[c].selected :
       \/ SourceOf[p] \in cmd[c].failed
       \/ p \in cmd[c].queue \cup cmd[c].busy
       \/ p \in Planned(c) /\ refs[p].head # 0

(* Every product is published, and open, built or reported.                *)
Building(c) ==
  /\ kind[c] = "init"
  /\ cmd[c].selected # {}
  /\ cmd[c].queue \cup cmd[c].busy \subseteq Planned(c)
  /\ Cardinality(cmd[c].busy) <= BranchWorkers(c)
  /\ \A p \in cmd[c].selected :
       /\ p \in Planned(c) /\ refs[p].head # 0
       /\ \/ p \in cmd[c].queue \cup cmd[c].busy \cup cmd[c].failed
          \/ Cancelled \in cmd[c].failed
          \/ JobRefs(c, p) \subseteq cmd[c].built[p]

(* What a process has synchronised or built is in a mirror and listed.     *)
Done(c) ==
  /\ \A s \in cmd[c].synced : mirror[s] # 0
  /\ \A p \in Products : \A n \in cmd[c].built[p] : <<p, n>> \in listed

CommandInv(c) ==
  /\ stage[c] \in {"idle", "succeeded", "failed"} => cmd[c] = Fresh
  /\ stage[c] = "syncing" => Syncing(c)
  /\ stage[c] = "publishing" => Publishing(c)
  /\ stage[c] \in {"building", "writing"} => Building(c)
  /\ stage[c] = "writing" => Idle(c) /\ cmd[c].failed = {}
  /\ Done(c)

(* Only a build that ran past a deadline publishes a part of its files.    *)
Lapsing ==
  /\ cut # {} => lapsed
  /\ \A c \in Commands : cmd[c].expired => lapsed

Inv == TypeOK /\ Lapsing /\ \A c \in Commands : CommandInv(c)

LEMMA FreshType == Fresh \in Memory
BY CommandAssumption DEF Fresh, Memory

LEMMA InitInv == Init => Inv
<1> SUFFICES ASSUME Init PROVE Inv
  OBVIOUS
<1> USE CommandAssumption, FreshType DEF Init
<1>1. TypeOK
  <2>1. 0 \in 0 .. MaxCommit /\ 0 \in 0 .. MaxFailures
    OBVIOUS
  <2>2. refs \in [Products -> [head : 0 .. MaxCommit, tags : SUBSET (1 .. MaxCommit)]]
    BY <2>1
  <2>3. cmd \in [Commands -> Memory] /\ stage \in [Commands -> Stages]
    BY DEF Stages
  <2>4. mirror \in [Sources -> 0 .. MaxCommit]
    BY <2>1
  <2>5. QED
    BY <2>1, <2>2, <2>3, <2>4 DEF TypeOK
<1>2. ASSUME NEW c \in Commands PROVE CommandInv(c)
  BY DEF CommandInv, Done, Fresh
<1>3. Lapsing
  BY DEF Lapsing, Fresh
<1>4. QED
  BY <1>1, <1>2, <1>3 DEF Inv

(***************************************************************************)
(* The steps of a process.                                                 *)
(***************************************************************************)
SyncStep(c) ==
  \/ Begin(c) \/ InitGivesUp(c) \/ EndSync(c)
  \/ \E s \in Sources : StartSync(c, s) \/ SyncDone(c, s) \/ SyncFails(c, s)

PublishStep(c) ==
  \/ PublishFails(c) \/ EndPublish(c) \/ BeginJobs(c)
  \/ \E p \in Products : ReadHead(c, p) \/ ReadTags(c, p) \/ PublishRef(c, p)

BuildStep(c) ==
  \/ StopFeeding(c) \/ ReportFailures(c)
  \/ OpenReady(c) \/ WriteReady(c) \/ OpenReadyFails(c) \/ WriteReadyFails(c)
  \/ \E p \in Products :
       StartJob(c, p) \/ Build(c, p) \/ SaveSnapshot(c, p) \/ BuildFails(c, p) \/ EndJob(c, p)

Step(c) == SyncStep(c) \/ PublishStep(c) \/ BuildStep(c) \/ Expire(c) \/ Crash(c)

LEMMA Steps == Next => \E c \in Commands : Step(c)
<1> SUFFICES ASSUME Next PROVE \E c \in Commands : Step(c)
  OBVIOUS
<1>1. PICK c \in Commands :
        \/ Begin(c) \/ Continue(c)
        \/ \E s \in Sources : SyncFails(c, s)
        \/ \E p \in Products : BuildFails(c, p)
        \/ PublishFails(c) \/ OpenReadyFails(c) \/ WriteReadyFails(c)
        \/ Expire(c) \/ Crash(c)
  BY DEF Next
<1>2. Continue(c) => SyncStep(c) \/ PublishStep(c) \/ BuildStep(c)
  BY DEF Continue, SyncStep, PublishStep, BuildStep, BuildCancelled
<1>3. QED
  BY <1>1, <1>2 DEF Step, SyncStep, PublishStep, BuildStep

LEMMA SyncType ==
  ASSUME TypeOK, NEW c \in Commands, SyncStep(c)
  PROVE  TypeOK'
<1>0. cmd \in [Commands -> Memory] /\ cmd[c] \in Memory
  BY DEF TypeOK
<1>1. CASE Begin(c)
  <2>1. PICK x \in SUBSET Products, q \in SUBSET Sources :
          cmd' = [cmd EXCEPT ![c].selected = x, ![c].queue = q]
    <3>1. PICK products \in SelectionsOf[c], sources \in {Sources} \cup {{s} : s \in Sources} :
            LET matching == {p \in products : SourceOf[p] \in sources}
            IN  cmd' = [cmd EXCEPT ![c].selected = matching,
                                   ![c].queue = IF kind[c] = "init"
                                                THEN {SourceOf[p] : p \in matching}
                                                ELSE sources]
      BY <1>1 DEF Begin
    <3> DEFINE matching == {p \in products : SourceOf[p] \in sources}
    <3>2. /\ matching \in SUBSET Products
          /\ {SourceOf[p] : p \in matching} \in SUBSET Sources
          /\ sources \in SUBSET Sources
      BY CommandAssumption
    <3> HIDE DEF matching
    <3>3. cmd' = [cmd EXCEPT ![c].selected = matching,
                             ![c].queue = IF kind[c] = "init"
                                          THEN {SourceOf[p] : p \in matching}
                                          ELSE sources]
      BY <3>1 DEF matching
    <3>4. QED
      BY <3>2, <3>3
  <2> DEFINE m == [cmd[c] EXCEPT !.selected = x, !.queue = q]
  <2>2. m \in Memory
    BY <1>0 DEF Memory
  <2>3. cmd' = [cmd EXCEPT ![c] = m]
    BY <2>1
  <2> HIDE DEF m
  <2>4. cmd' \in [Commands -> Memory]
    BY <1>0, <2>2, <2>3
  <2>5. QED
    BY CommandAssumption, <1>1, <2>4 DEF Begin, diskVars, dataVars, TypeOK, Stages
<1>2. CASE InitGivesUp(c)
  BY CommandAssumption, <1>2, FreshType DEF InitGivesUp, End, dataVars, TypeOK, Stages
<1>3. CASE EndSync(c)
  <2> DEFINE m == [cmd[c] EXCEPT !.queue = {p \in cmd[c].selected : SourceOf[p] \in cmd[c].synced}]
  <2>1. m \in Memory
    BY <1>0 DEF Memory
  <2>2. cmd' = [cmd EXCEPT ![c] = m]
    BY <1>3 DEF EndSync, Advance
  <2> HIDE DEF m
  <2>3. cmd' \in [Commands -> Memory]
    BY <1>0, <2>1, <2>2
  <2>4. QED
    BY CommandAssumption, <1>3, <2>3 DEF EndSync, Advance, diskVars, dataVars, TypeOK, Stages
<1>4. ASSUME NEW s \in Sources, StartSync(c, s) PROVE TypeOK'
  <2>1. PICK b \in SUBSET (Sources \cup Products),
             f \in SUBSET (Sources \cup Products \cup {Cancelled}) :
          cmd' = [cmd EXCEPT ![c].queue = @ \ {s}, ![c].busy = b, ![c].failed = f]
    <3>1. /\ cmd[c].busy \cup {s} \in SUBSET (Sources \cup Products)
          /\ cmd[c].failed \cup {s} \in SUBSET (Sources \cup Products \cup {Cancelled})
          /\ cmd[c].busy \in SUBSET (Sources \cup Products)
          /\ cmd[c].failed \in SUBSET (Sources \cup Products \cup {Cancelled})
      BY CommandAssumption DEF Memory, TypeOK
    <3>2. QED
      BY <1>4, <3>1 DEF StartSync
  <2> DEFINE m == [cmd[c] EXCEPT !.queue = cmd[c].queue \ {s}, !.busy = b, !.failed = f]
  <2>2. m \in Memory
    BY <1>0 DEF Memory
  <2>3. cmd' = [cmd EXCEPT ![c] = m]
    BY <2>1
  <2> HIDE DEF m
  <2>4. cmd' \in [Commands -> Memory]
    BY <1>0, <2>2, <2>3
  <2>5. QED
    BY <1>4, <2>4 DEF StartSync, Working, diskVars, dataVars, TypeOK
<1>5. ASSUME NEW s \in Sources, SyncDone(c, s) PROVE TypeOK'
  <2> DEFINE m == [cmd[c] EXCEPT !.busy = cmd[c].busy \ {s}, !.synced = cmd[c].synced \cup {s}]
  <2>1. m \in Memory
    BY <1>0 DEF Memory
  <2>2. cmd' = [cmd EXCEPT ![c] = m]
    BY <1>5 DEF SyncDone
  <2> HIDE DEF m
  <2>3. cmd' \in [Commands -> Memory]
    BY <1>0, <2>1, <2>2
  <2>4. mirror' \in [Sources -> 0 .. MaxCommit]
    <3>1. Max({mirror[s], 1}) \in 1 .. MaxCommit
      BY CommandAssumption, MaxOfPair DEF TypeOK
    <3>2. QED
      BY <1>5, <3>1 DEF SyncDone, TypeOK
  <2>5. QED
    BY <1>5, <2>3, <2>4 DEF SyncDone, Working, TypeOK
<1>6. ASSUME NEW s \in Sources, SyncFails(c, s) PROVE TypeOK'
  <2> DEFINE m == [cmd[c] EXCEPT !.busy = cmd[c].busy \ {s}, !.failed = cmd[c].failed \cup {s}]
  <2>1. m \in Memory
    BY <1>0 DEF Memory
  <2>2. cmd' = [cmd EXCEPT ![c] = m]
    BY <1>6 DEF SyncFails
  <2> HIDE DEF m
  <2>3. cmd' \in [Commands -> Memory]
    BY <1>0, <2>1, <2>2
  <2>4. failures' \in 0 .. MaxFailures /\ stranded' \subseteq Sources
    BY CommandAssumption, <1>6 DEF SyncFails, SyncTrouble, Trouble, TypeOK
  <2>5. QED
    BY <1>6, <2>3, <2>4 DEF SyncFails, Working, diskVars, dataVars, TypeOK
<1>7. QED
  BY <1>1, <1>2, <1>3, <1>4, <1>5, <1>6 DEF SyncStep

LEMMA TagsOfCommits ==
  ASSUME TypeOK, NEW c \in Commands, NEW p \in Products
  PROVE  PlannedTags(c, p) \subseteq 1 .. MaxCommit
<1>1. cmd[c].plan[p].tag \in 0 .. MaxCommit
  BY DEF TypeOK, Memory
<1>2. QED
  BY <1>1, CommandAssumption DEF PlannedTags, LatestTags

LEMMA PlanType ==
  ASSUME NEW m \in Memory, NEW p \in Products, NEW h \in 0 .. MaxCommit,
         NEW q \in SUBSET (Sources \cup Products), NEW b \in SUBSET (Sources \cup Products)
  PROVE  /\ [m EXCEPT !.plan[p].head = h, !.queue = q, !.busy = b] \in Memory
         /\ [m EXCEPT !.plan[p].tag = h] \in Memory
<1>1. /\ [m.plan EXCEPT ![p].head = h] \in [Products -> [head : 0 .. MaxCommit, tag : 0 .. MaxCommit]]
      /\ [m.plan EXCEPT ![p].tag = h] \in [Products -> [head : 0 .. MaxCommit, tag : 0 .. MaxCommit]]
  BY DEF Memory
<1>2. [m EXCEPT !.plan[p].head = h, !.queue = q, !.busy = b] \in Memory
  BY <1>1 DEF Memory
<1>3. [m EXCEPT !.plan[p].tag = h] \in Memory
  BY <1>1 DEF Memory
<1>4. QED
  BY <1>2, <1>3

LEMMA PublishType ==
  ASSUME TypeOK, NEW c \in Commands, PublishStep(c)
  PROVE  TypeOK'
<1>0. cmd \in [Commands -> Memory] /\ cmd[c] \in Memory
  BY DEF TypeOK
<1>1. CASE PublishFails(c) \/ EndPublish(c)
  <2>1. failures' \in 0 .. MaxFailures
    BY CommandAssumption, <1>1 DEF PublishFails, EndPublish, Trouble, TypeOK
  <2>2. /\ stage' = [stage EXCEPT ![c] = "failed"] \/ stage' = [stage EXCEPT ![c] = "succeeded"]
        /\ cmd' = [cmd EXCEPT ![c] = Fresh]
        /\ UNCHANGED <<kind, mirror, refs, indexed, cut, listed, stranded, readyFile, lapsed>>
    BY <1>1 DEF PublishFails, EndPublish, End, dataVars
  <2>3. QED
    BY <2>1, <2>2, FreshType DEF TypeOK, Stages
<1>2. CASE BeginJobs(c)
  <2> DEFINE m == [cmd[c] EXCEPT !.queue = Planned(c)]
  <2>1. m \in Memory
    BY <1>0 DEF Memory, Planned
  <2>2. cmd' = [cmd EXCEPT ![c] = m]
    BY <1>2 DEF BeginJobs, Advance
  <2> HIDE DEF m
  <2>3. cmd' \in [Commands -> Memory]
    BY <1>0, <2>1, <2>2
  <2>4. QED
    BY CommandAssumption, <1>2, <2>3 DEF BeginJobs, Advance, diskVars, dataVars, TypeOK, Stages
<1>3. ASSUME NEW p \in Products, ReadHead(c, p) PROVE TypeOK'
  <2> DEFINE h == mirror[SourceOf[p]]
  <2> DEFINE m == [cmd[c] EXCEPT !.plan[p].head = h, !.queue = cmd[c].queue \ {p}, !.busy = {p}]
  <2>1. m \in Memory
    <3>1. h \in 0 .. MaxCommit
      BY CommandAssumption DEF TypeOK
    <3>2. {p} \subseteq Sources \cup Products /\ cmd[c].queue \ {p} \subseteq Sources \cup Products
      BY <1>0 DEF Memory
    <3> HIDE DEF h
    <3>3. QED
      BY <1>0, <3>1, <3>2, PlanType
  <2>2. cmd' = [cmd EXCEPT ![c] = m]
    BY <1>3 DEF ReadHead
  <2> HIDE DEF m
  <2>3. cmd' \in [Commands -> Memory]
    BY <1>0, <2>1, <2>2
  <2>4. QED
    BY <1>3, <2>3 DEF ReadHead, Working, diskVars, dataVars, TypeOK
<1>4. ASSUME NEW p \in Products, ReadTags(c, p) PROVE TypeOK'
  <2> DEFINE h == mirror[SourceOf[p]]
  <2> DEFINE m == [cmd[c] EXCEPT !.plan[p].tag = h]
  <2>1. m \in Memory
    <3>1. h \in 0 .. MaxCommit
      BY CommandAssumption DEF TypeOK
    <3>2. {p} \subseteq Sources \cup Products /\ cmd[c].queue \ {p} \subseteq Sources \cup Products
      BY <1>0 DEF Memory
    <3> HIDE DEF h
    <3>3. QED
      BY <1>0, <3>1, <3>2, PlanType
  <2>2. cmd' = [cmd EXCEPT ![c] = m]
    BY <1>4 DEF ReadTags
  <2> HIDE DEF m
  <2>3. cmd' \in [Commands -> Memory]
    BY <1>0, <2>1, <2>2
  <2>4. QED
    BY <1>4, <2>3 DEF ReadTags, Working, diskVars, dataVars, TypeOK
<1>5. ASSUME NEW p \in Products, PublishRef(c, p) PROVE TypeOK'
  <2> DEFINE m == [cmd[c] EXCEPT !.busy = {}]
  <2>1. m \in Memory
    BY <1>0 DEF Memory
  <2>2. cmd' = [cmd EXCEPT ![c] = m]
    BY <1>5 DEF PublishRef
  <2> HIDE DEF m
  <2>3. cmd' \in [Commands -> Memory]
    BY <1>0, <2>1, <2>2
  <2>4. refs' \in [Products -> [head : 0 .. MaxCommit, tags : SUBSET (1 .. MaxCommit)]]
    <3>1. cmd[c].plan[p].head \in 0 .. MaxCommit
      BY CommandAssumption DEF Memory, TypeOK
    <3>2. QED
      BY <1>5, <3>1, TagsOfCommits DEF PublishRef, TypeOK
  <2>5. QED
    BY <1>5, <2>3, <2>4 DEF PublishRef, Working, TypeOK
<1>6. QED
  BY <1>1, <1>2, <1>3, <1>4, <1>5 DEF PublishStep

LEMMA NextRefType ==
  ASSUME TypeOK, NEW c \in Commands, NEW p \in Planned(c), Pending(c, p) # {}
  PROVE  NextRef(c, p) \in 1 .. MaxCommit
<1>1. p \in Products /\ cmd[c].plan[p].head \in 1 .. MaxCommit
  BY DEF Planned, TypeOK, Memory
<1>2. Pending(c, p) \subseteq 1 .. MaxCommit
  BY <1>1, TagsOfCommits DEF Pending, JobRefs
<1>3. QED
  BY <1>1, <1>2, MaxOfCommits DEF NextRef

LEMMA BuildType ==
  ASSUME TypeOK, NEW c \in Commands, CommandInv(c), BuildStep(c)
  PROVE  TypeOK'
<1>0. cmd \in [Commands -> Memory] /\ cmd[c] \in Memory
  BY DEF TypeOK
<1>1. CASE StopFeeding(c)
  <2> DEFINE m == [cmd[c] EXCEPT !.queue = {}, !.failed = cmd[c].failed \cup {Cancelled}]
  <2>1. m \in Memory
    BY <1>0 DEF Memory
  <2>2. cmd' = [cmd EXCEPT ![c] = m]
    BY <1>1 DEF StopFeeding
  <2> HIDE DEF m
  <2>3. cmd' \in [Commands -> Memory]
    BY <1>0, <2>1, <2>2
  <2>4. QED
    BY <1>1, <2>3 DEF StopFeeding, Working, diskVars, dataVars, TypeOK
<1>2. CASE OpenReady(c)
  BY <1>2 DEF OpenReady, dataVars, TypeOK, Stages
<1>7. CASE ReportFailures(c) \/ WriteReady(c) \/ OpenReadyFails(c) \/ WriteReadyFails(c)
  <2>1. failures' \in 0 .. MaxFailures
    BY <1>7, CommandAssumption
    DEF ReportFailures, WriteReady, OpenReadyFails, WriteReadyFails, Trouble, TypeOK
  <2>2. /\ readyFile' \in {"absent", "torn", "written"}
        /\ stranded' = stranded
    BY <1>7 DEF ReportFailures, WriteReady, OpenReadyFails, WriteReadyFails, TypeOK
  <2>3. /\ stage' = [stage EXCEPT ![c] = "failed"] \/ stage' = [stage EXCEPT ![c] = "succeeded"]
        /\ cmd' = [cmd EXCEPT ![c] = Fresh]
        /\ UNCHANGED <<kind, mirror, refs, indexed, cut, listed, lapsed>>
    BY <1>7 DEF ReportFailures, WriteReady, OpenReadyFails, WriteReadyFails, End, dataVars
  <2>4. QED
    BY <2>1, <2>2, <2>3, FreshType DEF TypeOK, Stages
<1>3. ASSUME NEW p \in Products, StartJob(c, p) PROVE TypeOK'
  <2> DEFINE m == [cmd[c] EXCEPT !.queue = cmd[c].queue \ {p}, !.busy = cmd[c].busy \cup {p}]
  <2>1. m \in Memory
    BY <1>0 DEF Memory
  <2>2. cmd' = [cmd EXCEPT ![c] = m]
    BY <1>3 DEF StartJob
  <2> HIDE DEF m
  <2>3. cmd' \in [Commands -> Memory]
    BY <1>0, <2>1, <2>2
  <2>4. QED
    BY <1>3, <2>3 DEF StartJob, Working, diskVars, dataVars, TypeOK
<1>4. ASSUME NEW p \in Products, SaveSnapshot(c, p) PROVE TypeOK'
  <2> DEFINE n == NextRef(c, p)
  <2> DEFINE m == [cmd[c] EXCEPT !.built[p] = cmd[c].built[p] \cup {n}, !.late = cmd[c].late \ {p}]
  <2>1. n \in 1 .. MaxCommit
    BY <1>4, NextRefType DEF SaveSnapshot, InJob, Working, CommandInv, Building
  <2> HIDE DEF n
  <2>2. m \in Memory
    BY <1>0, <2>1 DEF Memory
  <2>3. cmd' = [cmd EXCEPT ![c] = m]
    BY <1>4 DEF SaveSnapshot, n
  <2> HIDE DEF m
  <2>4. cmd' \in [Commands -> Memory]
    BY <1>0, <2>2, <2>3
  <2>5. listed' \subseteq indexed
    BY <1>4 DEF SaveSnapshot, TypeOK
  <2>6. QED
    BY <1>4, <2>4, <2>5 DEF SaveSnapshot, InJob, Working, TypeOK
<1>8. ASSUME NEW p \in Products, Build(c, p) PROVE TypeOK'
  <2> DEFINE m == [cmd[c] EXCEPT !.late = cmd[c].late \ {p}]
  <2>1. NextSnapshot(c, p) \in Products \X (1 .. MaxCommit)
    BY <1>8, NextRefType DEF Build, InJob, Working, CommandInv, Building, NextSnapshot
  <2>2. m \in Memory
    BY <1>0 DEF Memory
  <2>3. cmd' = [cmd EXCEPT ![c] = m]
    BY <1>8 DEF Build
  <2> HIDE DEF m
  <2>4. cmd' \in [Commands -> Memory]
    BY <1>0, <2>2, <2>3
  <2>5. /\ indexed' = indexed \cup {NextSnapshot(c, p)}
        /\ cut' \subseteq cut \cup {NextSnapshot(c, p)}
        /\ UNCHANGED <<kind, stage, mirror, refs, listed, stranded, readyFile, lapsed, failures>>
    BY <1>8 DEF Build, InJob, Working
  <2>6. QED
    BY <2>1, <2>4, <2>5 DEF TypeOK
<1>5. ASSUME NEW p \in Products, BuildFails(c, p) PROVE TypeOK'
  <2> DEFINE m == [cmd[c] EXCEPT !.busy = cmd[c].busy \ {p}, !.failed = cmd[c].failed \cup {p}]
  <2>1. m \in Memory
    BY <1>0 DEF Memory
  <2>2. cmd' = [cmd EXCEPT ![c] = m]
    BY <1>5 DEF BuildFails
  <2> HIDE DEF m
  <2>3. cmd' \in [Commands -> Memory]
    BY <1>0, <2>1, <2>2
  <2>4. failures' \in 0 .. MaxFailures
    BY CommandAssumption, <1>5 DEF BuildFails, BuildTrouble, Trouble, TypeOK
  <2>5. QED
    BY <1>5, <2>3, <2>4 DEF BuildFails, InJob, Working, diskVars, dataVars, TypeOK
<1>6. ASSUME NEW p \in Products, EndJob(c, p) PROVE TypeOK'
  <2> DEFINE m == [cmd[c] EXCEPT !.busy = cmd[c].busy \ {p}]
  <2>1. m \in Memory
    BY <1>0 DEF Memory
  <2>2. cmd' = [cmd EXCEPT ![c] = m]
    BY <1>6 DEF EndJob
  <2> HIDE DEF m
  <2>3. cmd' \in [Commands -> Memory]
    BY <1>0, <2>1, <2>2
  <2>4. QED
    BY <1>6, <2>3 DEF EndJob, InJob, Working, diskVars, dataVars, TypeOK
<1>9. QED
  BY <1>1, <1>2, <1>3, <1>4, <1>5, <1>6, <1>7, <1>8 DEF BuildStep

LEMMA TypeStep == Inv /\ [Next]_vars => TypeOK'
<1> SUFFICES ASSUME Inv, [Next]_vars PROVE TypeOK'
  OBVIOUS
<1>1. ASSUME NEW c \in Commands, Step(c) PROVE TypeOK'
  <2>1. CASE SyncStep(c) \/ PublishStep(c) \/ BuildStep(c)
    BY <2>1, SyncType, PublishType, BuildType DEF Inv
  <2>2. CASE Expire(c)
    <3> DEFINE late == IF stage[c] = "building" THEN cmd[c].busy ELSE {}
    <3> DEFINE m == [cmd[c] EXCEPT !.expired = TRUE, !.late = late]
    <3>0. cmd \in [Commands -> Memory] /\ cmd[c] \in Memory
      BY DEF Inv, TypeOK
    <3>1. m \in Memory
      <4>1. late \subseteq Products
        BY DEF Inv, CommandInv, Building, Planned
      <4> HIDE DEF late
      <4>2. QED
        BY <3>0, <4>1 DEF Memory
    <3>2. cmd' = [cmd EXCEPT ![c] = m]
      BY <2>2 DEF Expire
    <3> HIDE DEF m
    <3>3. cmd' \in [Commands -> Memory]
      BY <3>1, <3>2 DEF Inv, TypeOK
    <3>4. QED
      BY <2>2, <3>3, CommandAssumption DEF Expire, Strike, Inv, TypeOK, diskVars, dataVars
  <2>3. CASE Crash(c)
    <3>1. stranded' \subseteq Sources
      <4>1. stage[c] = "syncing" => cmd[c].busy \subseteq Sources
        BY DEF Inv, CommandInv, Syncing
      <4>2. QED
        BY <2>3, <4>1 DEF Crash, Inv, TypeOK
    <3>2. /\ UNCHANGED <<kind, mirror, refs, indexed, cut, listed, readyFile, lapsed>>
          /\ stage' = [stage EXCEPT ![c] = "idle"]
          /\ cmd' = [cmd EXCEPT ![c] = Fresh]
          /\ failures' \in 0 .. MaxFailures
      BY <2>3, CommandAssumption DEF Crash, Strike, End, dataVars, Inv, TypeOK
    <3>3. QED
      BY <3>1, <3>2, FreshType DEF Inv, TypeOK, Stages
  <2>4. QED
    BY <1>1, <2>1, <2>2, <2>3 DEF Step
<1>2. CASE UNCHANGED vars
  BY <1>2 DEF vars, diskVars, dataVars, Inv, TypeOK
<1>3. QED
  BY <1>1, <1>2, Steps

(***************************************************************************)
(* The invariant of the process that takes a step.                         *)
(***************************************************************************)
LEMMA FreshInv ==
  ASSUME TypeOK, NEW c \in Commands, cmd' = [cmd EXCEPT ![c] = Fresh],
         stage'[c] \in {"idle", "succeeded", "failed"}
  PROVE  CommandInv(c)'
BY DEF TypeOK, CommandInv, Done, Fresh

LEMMA SyncInv ==
  ASSUME TypeOK, NEW c \in Commands, CommandInv(c), SyncStep(c)
  PROVE  CommandInv(c)'
<1>0. cmd \in [Commands -> Memory] /\ stage \in [Commands -> Stages] /\ cmd[c] \in Memory
  BY DEF TypeOK
<1>1. CASE Begin(c)
  <2>1. PICK products \in SelectionsOf[c], sources \in {Sources} \cup {{s} : s \in Sources} :
          LET matching == {p \in products : SourceOf[p] \in sources}
          IN  /\ matching # {}
              /\ cmd' = [cmd EXCEPT ![c].selected = matching,
                                    ![c].queue = IF kind[c] = "init"
                                                 THEN {SourceOf[p] : p \in matching}
                                                 ELSE sources]
    BY <1>1 DEF Begin
  <2> DEFINE matching == {p \in products : SourceOf[p] \in sources}
  <2>2. /\ stage'[c] = "syncing"
        /\ cmd'[c].selected = matching /\ matching # {}
        /\ cmd'[c].queue = IF kind[c] = "init" THEN {SourceOf[p] : p \in matching} ELSE sources
        /\ cmd'[c].busy = cmd[c].busy /\ cmd'[c].synced = cmd[c].synced
        /\ cmd'[c].built = cmd[c].built
        /\ UNCHANGED <<mirror, listed>>
    BY <1>0, <1>1, <2>1 DEF Begin, diskVars, dataVars, Memory
  <2>3. Done(c)'
    BY <2>2 DEF CommandInv, Done
  <2>4. \A p \in matching : SourceOf[p] \in cmd'[c].queue
    BY <2>2
  <2>5. cmd'[c].queue \subseteq Sources /\ cmd'[c].busy = {}
    <3>1. cmd[c].busy = {}
      BY <1>1 DEF CommandInv, Begin, Fresh
    <3>2. sources \subseteq Sources /\ {SourceOf[p] : p \in matching} \subseteq Sources
      BY CommandAssumption
    <3> HIDE DEF matching
    <3>3. QED
      BY <2>2, <3>1, <3>2
  <2> HIDE DEF matching
  <2>6. Syncing(c)'
    BY <2>2, <2>4, <2>5 DEF Syncing
  <2>7. QED
    BY <2>2, <2>3, <2>6 DEF CommandInv
<1>2. CASE InitGivesUp(c)
  <2>1. stage'[c] = "failed" /\ cmd' = [cmd EXCEPT ![c] = Fresh]
    BY <1>0, <1>2 DEF InitGivesUp, End
  <2>2. QED
    BY <2>1, FreshInv
<1>3. CASE EndSync(c)
  <2>1. /\ stage[c] = "syncing" /\ stage'[c] = "publishing"
        /\ cmd[c].queue = {} /\ cmd[c].busy = {}
        /\ cmd'[c].queue = {p \in cmd[c].selected : SourceOf[p] \in cmd[c].synced}
        /\ cmd'[c] = [cmd[c] EXCEPT !.queue = cmd'[c].queue]
        /\ kind[c] = "init" => cmd[c].failed = {}
        /\ UNCHANGED <<kind, mirror, refs, listed>>
    BY <1>0, <1>3 DEF EndSync, Advance, Idle, diskVars, dataVars, TypeOK
  <2>2. /\ cmd'[c].selected = cmd[c].selected /\ cmd'[c].busy = {}
        /\ cmd'[c].synced = cmd[c].synced /\ cmd'[c].failed = cmd[c].failed
        /\ cmd'[c].built = cmd[c].built
    BY <1>0, <2>1 DEF Memory
  <2>3. Syncing(c) /\ Done(c) /\ cmd[c].selected \subseteq Products
    BY <1>0, <2>1 DEF CommandInv, Memory
  <2>4. Publishing(c)'
    BY <2>1, <2>2, <2>3, CommandAssumption DEF Publishing, Syncing, TypeOK
  <2>5. Done(c)'
    BY <2>1, <2>2, <2>3 DEF Done
  <2>6. QED
    BY <2>1, <2>4, <2>5 DEF CommandInv
<1>4. ASSUME NEW s \in Sources,
             StartSync(c, s) \/ SyncDone(c, s) \/ SyncFails(c, s)
      PROVE  CommandInv(c)'
  <2>1. /\ stage[c] = "syncing" /\ stage'[c] = "syncing"
        /\ Syncing(c) /\ Done(c)
        /\ UNCHANGED listed
    BY <1>0, <1>4 DEF StartSync, SyncDone, SyncFails, Working, CommandInv, diskVars, dataVars
  <2>2. /\ cmd'[c].selected = cmd[c].selected
        /\ cmd'[c].built = cmd[c].built
        /\ cmd'[c].queue \subseteq cmd[c].queue
        /\ cmd'[c].busy \subseteq cmd[c].busy \cup {s}
        /\ cmd'[c].synced \subseteq cmd[c].synced \cup {s}
        /\ \A x \in cmd[c].queue \cup cmd[c].busy \cup cmd[c].failed \cup cmd[c].synced :
             x \in cmd'[c].queue \cup cmd'[c].busy \cup cmd'[c].failed \cup cmd'[c].synced
    <3>1. CASE StartSync(c, s)
      BY <1>0, <3>1 DEF StartSync, Memory
    <3>2. CASE SyncDone(c, s)
      BY <1>0, <3>2 DEF SyncDone, Memory
    <3>3. CASE SyncFails(c, s)
      BY <1>0, <3>3 DEF SyncFails, Memory
    <3>4. QED
      BY <1>4, <3>1, <3>2, <3>3
  <2>3. Syncing(c)'
    BY <2>1, <2>2 DEF Syncing
  <2>4. \A x \in cmd'[c].synced : mirror'[x] # 0
    <3>1. CASE SyncDone(c, s)
      <4>0. Max({mirror[s], 1}) \in Nat \ {0}
        <5>1. mirror[s] \in 0 .. MaxCommit
          BY DEF TypeOK
        <5>2. QED
          BY <5>1, MaxOfPair
      <4>1. PICK n \in Max({mirror[s], 1}) .. MaxCommit : mirror' = [mirror EXCEPT ![s] = n]
        BY <3>1 DEF SyncDone
      <4>2. mirror'[s] # 0 /\ \A x \in Sources : mirror[x] # 0 => mirror'[x] # 0
        BY <4>0, <4>1, CommandAssumption DEF TypeOK
      <4>3. QED
        BY <1>0, <2>1, <2>2, <4>2 DEF Done, Memory
    <3>2. CASE ~SyncDone(c, s)
      <4>1. cmd'[c].synced = cmd[c].synced /\ mirror' = mirror
        <5>1. CASE StartSync(c, s)
          BY <1>0, <5>1 DEF StartSync, Memory, diskVars, dataVars
        <5>2. CASE SyncFails(c, s)
          BY <1>0, <5>2 DEF SyncFails, Memory, diskVars, dataVars
        <5>3. QED
          BY <1>4, <3>2, <5>1, <5>2
      <4>2. QED
        BY <2>1, <4>1 DEF Done
    <3>3. QED
      BY <3>1, <3>2
  <2>5. Done(c)'
    BY <2>1, <2>2, <2>4 DEF Done
  <2>6. QED
    BY <2>1, <2>3, <2>5 DEF CommandInv
<1>5. QED
  BY <1>1, <1>2, <1>3, <1>4 DEF SyncStep

LEMMA PublishInv ==
  ASSUME TypeOK, NEW c \in Commands, CommandInv(c), PublishStep(c)
  PROVE  CommandInv(c)'
<1>0. cmd \in [Commands -> Memory] /\ stage \in [Commands -> Stages] /\ cmd[c] \in Memory
  BY DEF TypeOK
<1>1. CASE PublishFails(c) \/ EndPublish(c)
  <2>1. stage'[c] \in {"succeeded", "failed"} /\ cmd' = [cmd EXCEPT ![c] = Fresh]
    BY <1>0, <1>1 DEF PublishFails, EndPublish, End
  <2>2. QED
    BY <2>1, FreshInv
<1>2. CASE BeginJobs(c)
  <2>1. /\ stage[c] = "publishing" /\ stage'[c] = "building" /\ kind[c] = "init"
        /\ cmd[c].queue = {} /\ cmd[c].busy = {}
        /\ cmd'[c] = [cmd[c] EXCEPT !.queue = Planned(c)]
        /\ UNCHANGED <<kind, mirror, refs, listed>>
    BY <1>0, <1>2 DEF BeginJobs, Advance, Idle, diskVars, dataVars
  <2>2. /\ cmd'[c].selected = cmd[c].selected /\ cmd'[c].busy = {}
        /\ cmd'[c].synced = cmd[c].synced /\ cmd'[c].plan = cmd[c].plan
        /\ cmd'[c].built = cmd[c].built /\ cmd'[c].queue = Planned(c)
    BY <1>0, <2>1 DEF Memory
  <2>3. Publishing(c) /\ Done(c)
    BY <2>1 DEF CommandInv
  <2>4. Planned(c)' = Planned(c)
    BY <2>2 DEF Planned
  <2>5. Cardinality(cmd'[c].busy) <= BranchWorkers(c)'
    <3>1. BranchWorkers(c)' = BranchWorkers(c)
      BY <2>4 DEF BranchWorkers
    <3>2. BranchWorkers(c) \in Nat
      BY BranchWorkersType
    <3>3. QED
      BY <2>2, <3>1, <3>2, FS_EmptySet
  <2>6. cmd[c].selected # {} /\ \A p \in cmd[c].selected : p \in Planned(c) /\ refs[p].head # 0
    BY <2>1, <2>3 DEF Publishing
  <2>7. Building(c)'
    BY <2>1, <2>2, <2>4, <2>5, <2>6 DEF Building
  <2>8. Done(c)'
    BY <2>1, <2>2, <2>3 DEF Done
  <2>9. QED
    BY <2>1, <2>7, <2>8 DEF CommandInv
<1>3. ASSUME NEW p \in Products, ReadHead(c, p) \/ ReadTags(c, p) \/ PublishRef(c, p)
      PROVE  CommandInv(c)'
  <2>1. /\ stage[c] = "publishing" /\ stage'[c] = "publishing" /\ kind' = kind
        /\ Publishing(c) /\ Done(c)
        /\ UNCHANGED <<mirror, listed>>
    BY <1>0, <1>3 DEF ReadHead, ReadTags, PublishRef, Working, CommandInv, diskVars, dataVars
  <2>2. /\ cmd'[c].selected = cmd[c].selected /\ cmd'[c].failed = cmd[c].failed
        /\ cmd'[c].built = cmd[c].built /\ cmd'[c].synced = cmd[c].synced
    BY <1>0, <1>3 DEF ReadHead, ReadTags, PublishRef, Memory
  <2>3. Publishing(c)'
    <3>1. CASE ReadHead(c, p)
      <4>1. /\ p \in cmd[c].queue /\ cmd[c].busy = {}
            /\ cmd'[c].queue = cmd[c].queue \ {p} /\ cmd'[c].busy = {p}
            /\ cmd'[c].plan[p].head = mirror[SourceOf[p]]
            /\ \A q \in Products \ {p} : cmd'[c].plan[q] = cmd[c].plan[q]
            /\ refs' = refs
        BY <1>0, <3>1 DEF ReadHead, Memory, diskVars, dataVars
      <4>2. mirror[SourceOf[p]] # 0
        BY <2>1, <4>1 DEF Publishing, Done
      <4>3. \A q \in Planned(c) : q \in Planned(c)'
        BY <4>1, <4>2 DEF Planned
      <4>4. QED
        BY <2>1, <2>2, <4>1, <4>2, <4>3 DEF Publishing
    <3>2. CASE ReadTags(c, p)
      <4>1. /\ cmd'[c].queue = cmd[c].queue /\ cmd'[c].busy = cmd[c].busy
            /\ \A q \in Products : cmd'[c].plan[q].head = cmd[c].plan[q].head
            /\ refs' = refs
        BY <1>0, <3>2 DEF ReadTags, Memory, diskVars, dataVars
      <4>2. Planned(c)' = Planned(c)
        BY <4>1 DEF Planned
      <4>3. QED
        BY <2>1, <2>2, <4>1, <4>2 DEF Publishing
    <3>3. CASE PublishRef(c, p)
      <4>1. /\ p \in cmd[c].busy
            /\ cmd'[c].queue = cmd[c].queue /\ cmd'[c].busy = {}
            /\ cmd'[c].plan = cmd[c].plan
            /\ refs'[p].head = cmd[c].plan[p].head
            /\ \A q \in Products \ {p} : refs'[q] = refs[q]
        BY <1>0, <3>3 DEF PublishRef, Memory, TypeOK
      <4>2. Planned(c)' = Planned(c)
        BY <4>1 DEF Planned
      <4>3. cmd[c].plan[p].head # 0
        BY <2>1, <4>1 DEF Publishing
      <4>4. p \in Planned(c)
        BY <4>3 DEF Planned
      <4>5. cmd[c].busy = {p}
        BY <2>1, <4>1 DEF Publishing
      <4>6. cmd[c].selected \subseteq Products
        BY <1>0 DEF Memory
      <4>7. QED
        BY <2>1, <2>2, <4>1, <4>2, <4>3, <4>4, <4>5, <4>6 DEF Publishing
    <3>4. QED
      BY <1>3, <3>1, <3>2, <3>3
  <2>4. Done(c)'
    BY <2>1, <2>2 DEF Done
  <2>5. QED
    BY <2>1, <2>3, <2>4 DEF CommandInv
<1>4. QED
  BY <1>1, <1>2, <1>3 DEF PublishStep

LEMMA BuildInv ==
  ASSUME TypeOK, NEW c \in Commands, CommandInv(c), BuildStep(c)
  PROVE  CommandInv(c)'
<1>0. cmd \in [Commands -> Memory] /\ stage \in [Commands -> Stages] /\ cmd[c] \in Memory
  BY DEF TypeOK
<1>1. CASE ReportFailures(c) \/ WriteReady(c) \/ OpenReadyFails(c) \/ WriteReadyFails(c)
  <2>1. stage'[c] \in {"succeeded", "failed"} /\ cmd' = [cmd EXCEPT ![c] = Fresh]
    BY <1>0, <1>1 DEF ReportFailures, WriteReady, OpenReadyFails, WriteReadyFails, End
  <2>2. QED
    BY <2>1, FreshInv
<1>2. ASSUME NEW p \in Products,
             \/ StopFeeding(c) \/ StartJob(c, p)
             \/ Build(c, p) \/ SaveSnapshot(c, p) \/ BuildFails(c, p) \/ EndJob(c, p)
      PROVE  CommandInv(c)'
  <2>1. /\ stage[c] = "building" /\ stage'[c] = "building" /\ kind' = kind
        /\ Building(c) /\ Done(c)
        /\ UNCHANGED <<mirror, refs>>
    BY <1>0, <1>2
    DEF StopFeeding, StartJob, Build, SaveSnapshot, BuildFails, EndJob, InJob, Working, CommandInv,
        diskVars, dataVars
  <2>2. /\ cmd'[c].selected = cmd[c].selected /\ cmd'[c].plan = cmd[c].plan
        /\ cmd'[c].synced = cmd[c].synced
    BY <1>0, <1>2 DEF StopFeeding, StartJob, Build, SaveSnapshot, BuildFails, EndJob, Memory
  <2>3. /\ Planned(c)' = Planned(c) /\ BranchWorkers(c)' = BranchWorkers(c)
        /\ \A q \in Products : JobRefs(c, q)' = JobRefs(c, q)
    BY <2>1, <2>2
    DEF Planned, BranchWorkers, JobRefs, PlannedTags, LatestTags, TagLimit
  <2>4. IsFiniteSet(cmd[c].busy) /\ Cardinality(cmd[c].busy) \in Nat
    <3>1. cmd[c].busy \subseteq Products
      BY <2>1 DEF Building, Planned
    <3>2. QED
      BY <3>1, CommandAssumption, FS_Subset, FS_CardinalityType
  <2>5. cmd'[c].busy = cmd[c].busy \ {p} => Cardinality(cmd'[c].busy) <= BranchWorkers(c)
    <3>1. /\ Cardinality(cmd[c].busy \ {p}) <= Cardinality(cmd[c].busy)
          /\ Cardinality(cmd[c].busy \ {p}) \in Nat
      BY <2>4, FS_Subset, FS_CardinalityType
    <3>2. Cardinality(cmd[c].busy) <= BranchWorkers(c) /\ BranchWorkers(c) \in Nat
      BY <2>1, BranchWorkersType DEF Building
    <3>3. QED
      BY <2>4, <3>1, <3>2
  <2>6. CASE StopFeeding(c)
    <3>1. /\ cmd'[c].queue = {} /\ cmd'[c].busy = cmd[c].busy /\ cmd'[c].built = cmd[c].built
          /\ cmd'[c].failed = cmd[c].failed \cup {Cancelled}
          /\ listed' = listed
      BY <1>0, <2>6 DEF StopFeeding, Memory, diskVars, dataVars
    <3>2. Building(c)' /\ Done(c)'
      BY <2>1, <2>2, <2>3, <3>1 DEF Building, Done
    <3>3. QED
      BY <2>1, <3>2 DEF CommandInv
  <2>7. CASE StartJob(c, p)
    <3>1. /\ p \in cmd[c].queue /\ Cardinality(cmd[c].busy) < BranchWorkers(c)
          /\ cmd'[c].queue = cmd[c].queue \ {p} /\ cmd'[c].busy = cmd[c].busy \cup {p}
          /\ cmd'[c].built = cmd[c].built /\ cmd'[c].failed = cmd[c].failed
          /\ listed' = listed
      BY <1>0, <2>7 DEF StartJob, CanTake, Memory, diskVars, dataVars
    <3>2. Cardinality(cmd'[c].busy) <= BranchWorkers(c)
      <4>1. \/ Cardinality(cmd[c].busy \cup {p}) = Cardinality(cmd[c].busy)
            \/ Cardinality(cmd[c].busy \cup {p}) = Cardinality(cmd[c].busy) + 1
        BY <2>4, FS_AddElement, Zenon
      <4>2. BranchWorkers(c) \in Nat
        BY BranchWorkersType
      <4>3. QED
        BY <2>4, <3>1, <4>1, <4>2
    <3>3. cmd'[c].queue \cup cmd'[c].busy = cmd[c].queue \cup cmd[c].busy
      BY <3>1
    <3>4. Building(c)' /\ Done(c)'
      <4>1. Done(c)'
        BY <2>1, <2>2, <3>1 DEF Done
      <4>2. Building(c)'
        BY <2>1, <2>2, <2>3, <3>1, <3>2, <3>3, <1>0 DEF Building, Memory
      <4>3. QED
        BY <4>1, <4>2
    <3>5. QED
      BY <2>1, <3>4 DEF CommandInv
  <2>8. CASE SaveSnapshot(c, p)
    <3> DEFINE n == NextRef(c, p)
    <3>1. /\ cmd'[c].queue = cmd[c].queue /\ cmd'[c].busy = cmd[c].busy
          /\ cmd'[c].failed = cmd[c].failed
          /\ cmd'[c].built[p] = cmd[c].built[p] \cup {n}
          /\ \A q \in Products \ {p} : cmd'[c].built[q] = cmd[c].built[q]
          /\ listed' = listed \cup {<<p, n>>}
      BY <1>0, <2>8 DEF SaveSnapshot, NextSnapshot, Memory
    <3> HIDE DEF n
    <3>2. \A q \in Products : cmd[c].built[q] \subseteq cmd'[c].built[q]
      BY <3>1
    <3>3. Done(c)'
      BY <2>1, <2>2, <3>1 DEF Done
    <3>4. Building(c)'
      BY <1>0, <2>1, <2>2, <2>3, <3>1, <3>2 DEF Building, Memory
    <3>5. QED
      BY <2>1, <3>3, <3>4 DEF CommandInv
  <2>9. CASE BuildFails(c, p)
    <3>1. /\ cmd'[c].queue = cmd[c].queue /\ cmd'[c].busy = cmd[c].busy \ {p}
          /\ cmd'[c].failed = cmd[c].failed \cup {p} /\ cmd'[c].built = cmd[c].built
          /\ listed' = listed
      BY <1>0, <2>9 DEF BuildFails, Memory, diskVars, dataVars
    <3>2. Done(c)'
      BY <2>1, <2>2, <3>1 DEF Done
    <3>3. Building(c)'
      BY <1>0, <2>1, <2>2, <2>3, <2>5, <3>1 DEF Building, Memory
    <3>4. QED
      BY <2>1, <3>2, <3>3 DEF CommandInv
  <2>10. CASE EndJob(c, p)
    <3>1. /\ cmd'[c].queue = cmd[c].queue /\ cmd'[c].busy = cmd[c].busy \ {p}
          /\ cmd'[c].failed = cmd[c].failed /\ cmd'[c].built = cmd[c].built
          /\ listed' = listed
          /\ JobRefs(c, p) \subseteq cmd[c].built[p]
      BY <1>0, <2>10 DEF EndJob, Pending, Memory, diskVars, dataVars
    <3>2. Done(c)'
      BY <2>1, <2>2, <3>1 DEF Done
    <3>3. Building(c)'
      BY <1>0, <2>1, <2>2, <2>3, <2>5, <3>1 DEF Building, Memory
    <3>4. QED
      BY <2>1, <3>2, <3>3 DEF CommandInv
  <2>11. CASE Build(c, p)
    <3>1. /\ cmd'[c].queue = cmd[c].queue /\ cmd'[c].busy = cmd[c].busy
          /\ cmd'[c].failed = cmd[c].failed /\ cmd'[c].built = cmd[c].built
          /\ listed' = listed
      BY <1>0, <2>11 DEF Build, Memory
    <3>2. Done(c)'
      BY <2>1, <2>2, <3>1 DEF Done
    <3>3. Building(c)'
      BY <1>0, <2>1, <2>2, <2>3, <3>1 DEF Building, Memory
    <3>4. QED
      BY <2>1, <3>2, <3>3 DEF CommandInv
  <2>12. QED
    BY <1>2, <2>6, <2>7, <2>8, <2>9, <2>10, <2>11
<1>3. CASE StopFeeding(c)
  <2>1. PICK p \in Products : TRUE
    <3>1. Building(c)
      BY <1>3 DEF StopFeeding, Working, CommandInv
    <3>2. QED
      BY <1>0, <3>1 DEF Building, Memory
  <2>2. QED
    BY <1>2, <1>3
<1>4. CASE OpenReady(c)
  <2>1. /\ stage[c] = "building" /\ stage'[c] = "writing"
        /\ cmd[c].failed = {} /\ Idle(c)
        /\ UNCHANGED <<kind, cmd, mirror, refs, listed>>
    BY <1>0, <1>4 DEF OpenReady, dataVars
  <2>2. Building(c) /\ Done(c)
    BY <2>1 DEF CommandInv
  <2>3. Building(c)' /\ Done(c)' /\ Idle(c)'
    BY <2>1, <2>2
    DEF Building, Done, Idle, Planned, BranchWorkers, JobRefs, PlannedTags, LatestTags, TagLimit
  <2>4. QED
    BY <2>1, <2>3 DEF CommandInv
<1>5. QED
  BY <1>1, <1>2, <1>3, <1>4 DEF BuildStep

(***************************************************************************)
(* The others keep theirs: what is in mirrors and catalogue stays.         *)
(***************************************************************************)
LEMMA Frame ==
  ASSUME Inv, NEW c \in Commands, Step(c)
  PROVE  /\ \A d \in Commands \ {c} : cmd'[d] = cmd[d] /\ stage'[d] = stage[d]
         /\ kind' = kind
         /\ \A s \in Sources : mirror[s] # 0 => mirror'[s] # 0
         /\ \A p \in Products : refs[p].head # 0 => refs'[p].head # 0
         /\ listed \subseteq listed'
<1> DEFINE Others == \A d \in Commands \ {c} : cmd'[d] = cmd[d] /\ stage'[d] = stage[d]
<1>0. cmd \in [Commands -> Memory] /\ stage \in [Commands -> Stages] /\ CommandInv(c)
  BY DEF Inv, TypeOK
<1>1. CASE SyncStep(c)
  <2>1. Others /\ UNCHANGED <<kind, refs, listed>>
    BY <1>0, <1>1
    DEF SyncStep, Begin, InitGivesUp, EndSync, StartSync, SyncDone, SyncFails, Working, End, Advance, diskVars, dataVars
  <2>2. \A s \in Sources : mirror[s] # 0 => mirror'[s] # 0
    <3>1. ASSUME NEW s \in Sources, SyncDone(c, s)
          PROVE  \A x \in Sources : mirror[x] # 0 => mirror'[x] # 0
      BY <3>1, CommandAssumption, MaxOfPair DEF SyncDone, Inv, TypeOK
    <3>2. CASE mirror' = mirror
      BY <3>2
    <3>3. QED
      BY <1>1, <3>1, <3>2
      DEF SyncStep, Begin, InitGivesUp, EndSync, StartSync, SyncFails, End, Advance, diskVars, dataVars
  <2>3. QED
    BY <2>1, <2>2
<1>2. CASE PublishStep(c)
  <2>1. Others /\ UNCHANGED <<kind, mirror, listed>>
    BY <1>0, <1>2
    DEF PublishStep, PublishFails, EndPublish, BeginJobs, ReadHead, ReadTags, PublishRef, Working, End, Advance, diskVars, dataVars
  <2>2. \A p \in Products : refs[p].head # 0 => refs'[p].head # 0
    <3>1. ASSUME NEW p \in Products, PublishRef(c, p)
          PROVE  \A q \in Products : refs[q].head # 0 => refs'[q].head # 0
      <4>1. cmd[c].plan[p].head # 0
        BY <1>0, <3>1 DEF PublishRef, Working, CommandInv, Publishing
      <4>2. QED
        BY <3>1, <4>1 DEF PublishRef, Inv, TypeOK
    <3>2. CASE refs' = refs
      BY <3>2
    <3>3. QED
      BY <1>2, <3>1, <3>2
      DEF PublishStep, PublishFails, EndPublish, BeginJobs, ReadHead, ReadTags, End, Advance, diskVars, dataVars
  <2>3. QED
    BY <2>1, <2>2
<1>3. CASE BuildStep(c)
  BY <1>0, <1>3
  DEF BuildStep, StopFeeding, ReportFailures, OpenReady, WriteReady, OpenReadyFails,
      WriteReadyFails, StartJob, Build, SaveSnapshot,
      BuildFails, EndJob, InJob, Working, End, diskVars, dataVars
<1>4. CASE Expire(c) \/ Crash(c)
  BY <1>0, <1>4 DEF Expire, Crash, End, diskVars, dataVars
<1>5. QED
  BY <1>1, <1>2, <1>3, <1>4 DEF Step

(* A build drops files only in a command whose deadline has passed.        *)
LEMMA LapsingStep ==
  ASSUME Inv, NEW c \in Commands, Step(c)
  PROVE  Lapsing'
<1>0. cmd \in [Commands -> Memory] /\ cmd[c] \in Memory /\ Lapsing
  BY DEF Inv, TypeOK
<1>1. CASE Expire(c)
  <2>1. lapsed'
    BY <1>1 DEF Expire
  <2>2. QED
    BY <2>1 DEF Lapsing
<1>2. ASSUME NEW p \in Products, Build(c, p) PROVE Lapsing'
  <2>1. \A d \in Commands : cmd'[d].expired = cmd[d].expired
    BY <1>0, <1>2 DEF Build, Memory
  <2>2. cut' = cut \/ cmd[c].expired
    BY <1>2 DEF Build
  <2>3. lapsed' = lapsed
    BY <1>2 DEF Build
  <2>4. QED
    BY <1>0, <2>1, <2>2, <2>3 DEF Lapsing
<1>3. CASE ~Expire(c) /\ \A p \in Products : ~Build(c, p)
  <2>1. UNCHANGED <<cut, lapsed>>
    BY <1>3
    DEF Step, SyncStep, PublishStep, BuildStep, Begin, InitGivesUp, EndSync, StartSync, SyncDone,
        SyncFails, PublishFails, EndPublish, BeginJobs, ReadHead, ReadTags, PublishRef,
        StopFeeding, ReportFailures, OpenReady, WriteReady, OpenReadyFails, WriteReadyFails,
        StartJob, SaveSnapshot, BuildFails, EndJob, Crash, End, Advance, diskVars, dataVars
  <2>2. cmd'[c].expired = cmd[c].expired \/ cmd'[c].expired = FALSE
    <3>1. CASE cmd' = [cmd EXCEPT ![c] = Fresh]
      BY <1>0, <3>1 DEF Fresh
    <3>2. CASE Begin(c)
      BY <1>0, <3>2 DEF Begin, Memory
    <3>3. CASE SyncStep(c) /\ ~Begin(c)
      <4>1. ASSUME NEW s \in Sources, StartSync(c, s) \/ SyncDone(c, s) \/ SyncFails(c, s)
            PROVE  cmd'[c].expired = cmd[c].expired
        <5>1. CASE StartSync(c, s)
          <6>1. PICK b, f : cmd' = [cmd EXCEPT ![c].queue = @ \ {s}, ![c].busy = b, ![c].failed = f]
            BY <5>1 DEF StartSync
          <6>2. QED
            BY <1>0, <6>1 DEF Memory
        <5>2. CASE SyncDone(c, s) \/ SyncFails(c, s)
          BY <1>0, <5>2 DEF SyncDone, SyncFails, Memory
        <5>3. QED
          BY <4>1, <5>1, <5>2
      <4>2. CASE InitGivesUp(c)
        BY <3>1, <4>2 DEF InitGivesUp, End
      <4>3. CASE EndSync(c)
        BY <1>0, <4>3 DEF EndSync, Advance, Memory
      <4>4. QED
        BY <3>3, <4>1, <4>2, <4>3 DEF SyncStep
    <3>4. CASE PublishStep(c)
      <4>1. ASSUME NEW p \in Products, ReadHead(c, p) \/ ReadTags(c, p) \/ PublishRef(c, p)
            PROVE  cmd'[c].expired = cmd[c].expired
        BY <1>0, <4>1 DEF ReadHead, ReadTags, PublishRef, Memory
      <4>2. CASE PublishFails(c) \/ EndPublish(c)
        BY <3>1, <4>2 DEF PublishFails, EndPublish, End
      <4>3. CASE BeginJobs(c)
        BY <1>0, <4>3 DEF BeginJobs, Advance, Memory
      <4>4. QED
        BY <3>4, <4>1, <4>2, <4>3 DEF PublishStep
    <3>5. CASE BuildStep(c)
      <4>1. ASSUME NEW p \in Products,
                   StartJob(c, p) \/ SaveSnapshot(c, p) \/ BuildFails(c, p) \/ EndJob(c, p)
            PROVE  cmd'[c].expired = cmd[c].expired
        BY <1>0, <4>1 DEF StartJob, SaveSnapshot, BuildFails, EndJob, Memory
      <4>2. CASE ReportFailures(c) \/ WriteReady(c) \/ OpenReadyFails(c) \/ WriteReadyFails(c)
        BY <3>1, <4>2 DEF ReportFailures, WriteReady, OpenReadyFails, WriteReadyFails, End
      <4>3. CASE OpenReady(c) \/ StopFeeding(c)
        BY <1>0, <4>3 DEF OpenReady, StopFeeding, Memory
      <4>4. QED
        BY <1>3, <3>5, <4>1, <4>2, <4>3 DEF BuildStep
    <3>6. CASE Crash(c)
      BY <3>1, <3>6 DEF Crash, End
    <3>7. QED
      BY <1>3, <3>2, <3>3, <3>4, <3>5, <3>6 DEF Step
  <2>3. \A d \in Commands \ {c} : cmd'[d] = cmd[d]
    BY Frame
  <2>4. QED
    BY <1>0, <2>1, <2>2, <2>3 DEF Lapsing
<1>4. QED
  BY <1>1, <1>2, <1>3

LEMMA InvStep == Inv /\ [Next]_vars => Inv'
<1> SUFFICES ASSUME Inv, [Next]_vars PROVE Inv'
  OBVIOUS
<1>1. TypeOK /\ TypeOK'
  BY TypeStep DEF Inv
<1>2. ASSUME NEW c \in Commands, Step(c), NEW d \in Commands PROVE CommandInv(d)'
  <2>0. CommandInv(c) /\ CommandInv(d)
    BY DEF Inv
  <2>1. CASE d # c
    <3>1. cmd'[d] = cmd[d] /\ stage'[d] = stage[d] /\ kind' = kind
      BY <1>2, <2>1, Frame
    <3>2. /\ \A s \in Sources : mirror[s] # 0 => mirror'[s] # 0
          /\ \A p \in Products : refs[p].head # 0 => refs'[p].head # 0
          /\ listed \subseteq listed'
      BY <1>2, Frame
    <3>3. cmd[d].synced \subseteq Sources /\ cmd[d].selected \subseteq Products
      BY <1>1 DEF TypeOK, Memory
    <3>4. /\ Planned(d)' = Planned(d) /\ BranchWorkers(d)' = BranchWorkers(d)
          /\ \A p \in Products : JobRefs(d, p)' = JobRefs(d, p)
      BY <3>1 DEF Planned, BranchWorkers, JobRefs, PlannedTags, LatestTags, TagLimit
    <3>5. Syncing(d) => Syncing(d)'
      BY <3>1 DEF Syncing
    <3>6. Publishing(d) => Publishing(d)'
      BY <3>1, <3>2, <3>3, <3>4 DEF Publishing
    <3>7. Building(d) => Building(d)'
      BY <3>1, <3>2, <3>3, <3>4 DEF Building
    <3>8. Done(d) => Done(d)'
      BY <3>1, <3>2, <3>3 DEF Done
    <3>9. QED
      BY <2>0, <3>1, <3>5, <3>6, <3>7, <3>8 DEF CommandInv, Idle
  <2>2. CASE d = c /\ (SyncStep(c) \/ PublishStep(c) \/ BuildStep(c))
    BY <1>1, <2>0, <2>2, SyncInv, PublishInv, BuildInv
  <2>3. CASE d = c /\ Expire(c)
    <3>1. /\ stage' = stage /\ kind' = kind /\ UNCHANGED <<mirror, refs, listed>>
          /\ stage[c] \in {"syncing", "publishing", "building", "writing"}
      BY <1>1, <2>3 DEF Expire, Strike, Running, diskVars, dataVars, TypeOK, Memory
    <3>2. /\ cmd'[c].selected = cmd[c].selected /\ cmd'[c].queue = cmd[c].queue
          /\ cmd'[c].busy = cmd[c].busy /\ cmd'[c].synced = cmd[c].synced
          /\ cmd'[c].failed = cmd[c].failed /\ cmd'[c].plan = cmd[c].plan
          /\ cmd'[c].built = cmd[c].built
      BY <1>1, <2>3 DEF Expire, TypeOK, Memory
    <3>3. /\ Planned(c)' = Planned(c) /\ BranchWorkers(c)' = BranchWorkers(c)
          /\ \A p \in Products : JobRefs(c, p)' = JobRefs(c, p)
      BY <3>1, <3>2 DEF Planned, BranchWorkers, JobRefs, PlannedTags, LatestTags, TagLimit
    <3>4. cmd[c].selected \subseteq Products
      BY <1>1 DEF TypeOK, Memory
    <3>5. Syncing(c) => Syncing(c)'
      BY <3>1, <3>2 DEF Syncing
    <3>6. Publishing(c) => Publishing(c)'
      BY <3>1, <3>2, <3>3 DEF Publishing
    <3>7. Building(c) => Building(c)'
      BY <3>1, <3>2, <3>3, <3>4 DEF Building
    <3>8. Done(c) => Done(c)'
      BY <3>1, <3>2 DEF Done
    <3>9. QED
      BY <2>0, <2>3, <3>1, <3>2, <3>5, <3>6, <3>7, <3>8 DEF CommandInv, Idle
  <2>4. CASE d = c /\ Crash(c)
    <3>1. stage'[c] = "idle" /\ cmd' = [cmd EXCEPT ![c] = Fresh]
      BY <1>1, <2>4 DEF Crash, End, TypeOK
    <3>2. QED
      BY <1>1, <2>4, <3>1, FreshInv
  <2>5. QED
    BY <1>2, <2>1, <2>2, <2>3, <2>4 DEF Step
<1>3. CASE UNCHANGED vars
  <2>0. Lapsing'
    BY <1>3 DEF vars, diskVars, dataVars, Inv, Lapsing
  <2>1. \A c \in Commands : CommandInv(c)' = CommandInv(c)
    BY <1>3
    DEF vars, diskVars, dataVars, CommandInv, Syncing, Publishing, Building, Done, Idle, Planned,
        BranchWorkers, JobRefs, PlannedTags, LatestTags, TagLimit
  <2>2. QED
    BY <1>1, <2>0, <2>1 DEF Inv
<1>4. ASSUME NEW c \in Commands, Step(c) PROVE Lapsing'
  BY <1>4, LapsingStep
<1>5. QED
  BY <1>1, <1>2, <1>3, <1>4, Steps DEF Inv

(* The inductive invariant of the data commands.                           *)
THEOREM CommandsInvariant == Spec => []Inv
<1>1. Init => Inv
  BY InitInv
<1>2. Inv /\ [Next]_vars => Inv'
  BY InvStep
<1>3. QED
  BY <1>1, <1>2, PTL DEF Spec

(* Neither pool loses a source or a product, whatever fails or expires.    *)
THEOREM PoolsForgetNothing == Spec => []NothingForgotten
<1>1. ASSUME Inv PROVE NothingForgotten
  <2> SUFFICES ASSUME NEW c \in Commands, NEW p \in cmd[c].selected
               PROVE  LET open == cmd[c].queue \cup cmd[c].busy \cup cmd[c].failed
                      IN  /\ stage[c] = "syncing" => SourceOf[p] \in open \cup cmd[c].synced
                          /\ stage[c] = "building" =>
                               p \in open \/ Cancelled \in open \/ AllListed(c, p)
    BY DEF NothingForgotten
  <2>1. CommandInv(c) /\ p \in Products
    BY <1>1 DEF Inv, TypeOK, Memory
  <2>2. JobRefs(c, p) \subseteq cmd[c].built[p] => AllListed(c, p)
    BY <2>1 DEF CommandInv, Done, AllListed
  <2>3. QED
    BY <2>1, <2>2 DEF CommandInv, Syncing, Building
<1>2. QED
  BY <1>1, CommandsInvariant, PTL

(* The builds of init together stay within its worker budget.              *)
THEOREM InitWithinBudget == Spec => []WithinBudget
<1>1. ASSUME Inv PROVE WithinBudget
  <2> SUFFICES ASSUME NEW c \in Commands, stage[c] = "building"
               PROVE  Cardinality(cmd[c].busy) * WorkersPerBuild(c) <= Budget
    BY DEF WithinBudget
  <2>1. Building(c)
    BY <1>1 DEF Inv, CommandInv
  <2>2. Planned(c) # {} /\ cmd[c].busy \subseteq Products /\ Planned(c) \subseteq Products
    BY <1>1, <2>1 DEF Building, Planned, Inv, TypeOK, Memory
  <2>3. IsFiniteSet(Planned(c)) /\ Cardinality(cmd[c].busy) \in Nat
    BY <2>2, CommandAssumption, FS_Subset, FS_CardinalityType
  <2>4. QED
    BY <2>1, <2>2, <2>3, Shares DEF Building
<1>2. QED
  BY <1>1, CommandsInvariant, PTL

(* What a successful command reports is done, whole as long as no deadline *)
(* has passed, and only a successful init completes ready.json.            *)
THEOREM SuccessIsDone == Spec => SuccessMeansDone
<1> DEFINE Claim ==
      /\ \A c \in Commands : Succeeds(c) =>
           \A p \in cmd[c].selected :
             /\ refs[p].head # 0
             /\ kind[c] = "init" =>
                  p \in Planned(c) /\ AllListed(c, p) /\ (lapsed \/ Whole(c, p))
      /\ readyFile' = "written" /\ readyFile # "written"
           => \E c \in Commands : kind[c] = "init" /\ Succeeds(c)
<1>1. ASSUME Inv, Next PROVE Claim
  <2>1. PICK c \in Commands : Step(c)
    BY <1>1, Steps
  <2>2. CommandInv(c) /\ stage \in [Commands -> Stages] /\ cmd[c].selected \subseteq Products
    BY <1>1 DEF Inv, TypeOK, Memory
  <2>3. \A d \in Commands : Succeeds(d) => d = c
    BY <1>1, <2>1, Frame DEF Succeeds
  <2>4. Succeeds(c) => EndPublish(c) \/ WriteReady(c)
    BY <2>1, <2>2
    DEF Succeeds, Step, SyncStep, PublishStep, BuildStep, Begin, InitGivesUp, EndSync, StartSync,
        SyncDone, SyncFails, PublishFails, BeginJobs, ReadHead, ReadTags, PublishRef, StopFeeding,
        ReportFailures, OpenReady, OpenReadyFails, WriteReadyFails, StartJob, Build, SaveSnapshot,
        BuildFails, EndJob, Expire, Crash, InJob, Working, End, Advance
  <2>5. CASE EndPublish(c)
    <3>1. readyFile' = readyFile /\ kind[c] = "sync"
      BY <2>5 DEF EndPublish
    <3>2. ASSUME Succeeds(c), NEW p \in cmd[c].selected PROVE refs[p].head # 0
      <4>1. Publishing(c) /\ Idle(c) /\ cmd[c].failed = {}
        BY <2>2, <2>5, <3>2 DEF EndPublish, End, Succeeds, CommandInv
      <4>2. QED
        BY <4>1 DEF Publishing, Idle
    <3>3. QED
      BY <2>3, <3>1, <3>2
  <2>6. CASE WriteReady(c)
    <3>1. Building(c) /\ Done(c) /\ Idle(c) /\ cmd[c].failed = {} /\ kind[c] = "init"
      BY <2>2, <2>6 DEF WriteReady, End, CommandInv, Building
    <3>2. Succeeds(c)
      BY <2>2, <2>6 DEF WriteReady, End, Succeeds
    <3>3. \A p \in cmd[c].selected :
            refs[p].head # 0 /\ p \in Planned(c) /\ AllListed(c, p)
      BY <2>2, <3>1 DEF Building, Done, Idle, AllListed
    <3>4. \A p \in cmd[c].selected : lapsed \/ Whole(c, p)
      BY <1>1 DEF Inv, Lapsing, Whole
    <3>5. QED
      BY <2>3, <3>1, <3>2, <3>3, <3>4
  <2>7. CASE ~EndPublish(c) /\ ~WriteReady(c)
    <3>1. readyFile' = readyFile \/ readyFile' = "torn"
      BY <2>1, <2>7
      DEF Step, SyncStep, PublishStep, BuildStep, Begin, InitGivesUp, EndSync, StartSync,
          SyncDone, SyncFails, PublishFails, BeginJobs, ReadHead, ReadTags, PublishRef,
          StopFeeding, ReportFailures, OpenReady, OpenReadyFails, WriteReadyFails, StartJob,
          Build, SaveSnapshot, BuildFails, EndJob, Expire, Crash, Advance, diskVars
    <3>2. QED
      BY <2>3, <2>4, <2>7, <3>1
  <2>8. QED
    BY <2>5, <2>6, <2>7
<1>2. Inv /\ [Next]_vars => [Claim]_vars
  BY <1>1
<1>3. QED
  BY <1>2, CommandsInvariant, PTL DEF Spec, SuccessMeansDone
================================================================================
