-------------------------- MODULE SnapshotQuery_proofs --------------------------
(***************************************************************************)
(* Proofs about queries beside builds, syncs and upgrades, for any number  *)
(* of processes, commits and schema generations.                           *)
(***************************************************************************)
EXTENDS SnapshotQuery, SequenceTheorems, TLAPS

(***************************************************************************)
(* Types.                                                                  *)
(***************************************************************************)
Pcs == {"idle", "select", "open", "check", "read", "load", "fetch", "head", "tags",
        "publish_ref", "resolve", "create", "schema", "publish", "save"}
Ops == {"none", "query", "diff", "build", "sync", "init"}
Outcomes == {"none", "answered", "snapshot_not_ready", "version_not_found", "error",
             "synced", "built"}
FactSets == SUBSET UNION {Facts[k] : k \in Commits \X Generations}

Command ==
  [pc : Pcs, op : Ops, outcome : Outcomes, gen : Generations \cup {0}, ref : Refs, to : Refs,
   got : Seq(Commits), db : Generations \cup {0}, tags : SUBSET Commits,
   promised : SUBSET Commits, answer : Seq(FactSets)]

Orders == [op : {"sync", "build", "query"}, ref : Refs]

WorldType ==
  /\ upstream \in Commits /\ mirror \in Commits
  /\ refs \in [head : Commits, tags : SUBSET Commits]
  /\ rows \in [Commits -> Generations \cup {0}]
  /\ branch \in [Generations -> {"absent", "bare", "open"}]
  /\ ready \in [Generations -> SUBSET Commits]
  /\ installed \in Generations
  /\ built \in [Generations -> SUBSET Commits]

TypeOK ==
  /\ WorldType
  /\ cmd \in [Procs -> Command]
  /\ todo \in [Agents -> Seq(Orders)]

(***************************************************************************)
(* The inductive invariant.                                                *)
(***************************************************************************)

(* What was built is ready and in the catalogue; a ready snapshot is in a  *)
(* database that exists; tags were read after the head.                    *)
Coherent ==
  /\ mirror <= upstream
  /\ \A g \in Generations : built[g] \subseteq ready[g]
  /\ \A g \in Generations : \A c \in built[g] : rows[c] # NoRow
  /\ \A g \in Generations : ready[g] # {} => branch[g] # "absent"
  /\ TagsNotOlderThanHead

(* Where a command that reads is, and what it has found out so far.        *)
ReadsSoundly(m) ==
  /\ m.pc = "select" => m.op \in Reading /\ (m.got = <<>> \/ (m.op = "diff" /\ Len(m.got) = 1))
  /\ m.pc \in {"open", "check", "read", "load"} =>
       (m.op = "query" /\ Len(m.got) = 1) \/ (m.op = "diff" /\ Len(m.got) = 2)
  /\ m.pc \in {"check", "read"} => m.op = "query"
  /\ m.pc = "load" => m.op = "diff"
  /\ m.pc \in {"check", "read", "load"} => m.db = m.gen
  /\ m.pc = "read" => m.got[1] \in ready[m.gen]
  /\ m.promised # {} => m.gen \in Generations /\ m.promised \subseteq built[m.gen]

(* Where a command that writes is.                                         *)
WritesSoundly(m) ==
  /\ m.pc \in {"fetch", "head", "tags", "publish_ref"} => m.op \in {"sync", "init"}
  /\ m.pc \in {"tags", "publish_ref"} => Len(m.got) = 1
  /\ m.pc = "tags" => m.got[1] <= mirror
  /\ m.pc = "publish_ref" =>
       \E h \in m.got[1] .. mirror : \E n \in {SyncTags, InitTags} : m.tags = Newest(h, n)
  /\ m.pc \in {"resolve", "create", "schema", "publish", "save"} => m.op = "build"
  /\ m.pc \in {"create", "schema", "publish", "save"} => Len(m.got) = 1
  /\ m.pc \in {"schema", "publish", "save"} => branch[m.gen] # "absent"
  /\ m.pc = "save" => m.got[1] \in ready[m.gen]

(* What a command that has ended reports.                                  *)
Reports(m) ==
  m.pc = "idle" =>
    /\ m.op = "query" /\ m.outcome = "answered" => m.answer = <<Facts[<<m.got[1], m.gen>>]>>
    /\ /\ m.op = "diff" /\ m.outcome = "answered"
       /\ \A i \in 1 .. 2 : m.got[i] \in m.promised
       => LET side == [i \in 1 .. 2 |-> Facts[<<m.got[i], m.gen>>]]
          IN  m.answer = <<side[2] \ side[1], side[1] \ side[2]>>
    /\ m.op \in Reading /\ m.outcome = "snapshot_not_ready" => m.got[Len(m.got)] \notin m.promised

Sound(m) ==
  /\ m.pc # "idle" => m.gen \in Generations
  /\ ReadsSoundly(m) /\ WritesSoundly(m) /\ Reports(m)

(* An agent writes only when it was told to.                               *)
Told ==
  \A p \in Agents : cmd[p].pc # "idle" /\ cmd[p].op \notin Reading => todo[p] # <<>>

Inv == TypeOK /\ Coherent /\ Told /\ \A p \in Procs : Sound(cmd[p])

(* Databases, rows and the mirror only grow.                               *)
Grows ==
  /\ mirror <= mirror'
  /\ \A g \in Generations :
       /\ ready[g] \subseteq ready'[g] /\ built[g] \subseteq built'[g]
       /\ branch[g] # "absent" => branch'[g] # "absent"
  /\ \A c \in Commits : rows[c] # NoRow => rows'[c] # NoRow

(* So what a command has found out stays true.                             *)
LEMMA SoundStays ==
  ASSUME WorldType, WorldType', Grows, NEW m \in Command, Sound(m)
  PROVE  Sound(m)'
<1>1. m.gen \in Generations \cup {0}
  BY DEF Command
<1>2. ReadsSoundly(m)'
  BY <1>1 DEF Sound, ReadsSoundly, Grows
<1>3. WritesSoundly(m)'
  <2>1. m.pc = "tags" => m.got[1] <= mirror'
    <3>1. m.pc = "tags" => m.got[1] \in Commits
      BY DEF Sound, WritesSoundly, Command
    <3>2. QED
      BY <3>1, QueryAssumption DEF Sound, WritesSoundly, Grows, WorldType, Commits
  <2>2. m.pc = "publish_ref" =>
          \E h \in m.got[1] .. mirror' : \E n \in {SyncTags, InitTags} : m.tags = Newest(h, n)
    <3>1. m.pc = "publish_ref" => m.got[1] \in Commits
      BY DEF Sound, WritesSoundly, Command
    <3>2. m.pc = "publish_ref" => m.got[1] .. mirror \subseteq m.got[1] .. mirror'
      BY <3>1, QueryAssumption DEF Grows, WorldType, Commits
    <3>3. QED
      BY <3>2 DEF Sound, WritesSoundly
  <2>3. QED
    BY <1>1, <2>1, <2>2 DEF Sound, WritesSoundly, Grows
<1>4. Reports(m)'
  BY DEF Sound, Reports
<1>5. QED
  BY <1>2, <1>3, <1>4 DEF Sound

LEMMA IdleCommand == Idle \in Command /\ Sound(Idle)
<1>1. Latest \in Refs /\ <<>> \in Seq(Commits) /\ <<>> \in Seq(FactSets)
  BY DEF Refs
<1>2. Idle \in Command
  BY <1>1 DEF Idle, Command, Pcs, Ops, Outcomes
<1>3. Sound(Idle)
  BY DEF Idle, Sound, ReadsSoundly, WritesSoundly, Reports, Reading
<1>4. QED
  BY <1>2, <1>3

LEMMA InitInv == Init => Inv
<1> SUFFICES ASSUME Init PROVE Inv
  OBVIOUS
<1> USE DEF Init
<1>1. 0 \in Commits /\ \A n : Newest(0, n) \subseteq Commits
  BY QueryAssumption DEF Commits, Newest
<1>2. WorldType
  <2>1. /\ upstream \in Commits /\ mirror \in Commits
        /\ refs \in [head : Commits, tags : SUBSET Commits]
    BY <1>1
  <2>2. rows \in [Commits -> Generations \cup {0}]
    BY DEF NoRow
  <2>3. QED
    BY <2>1, <2>2 DEF WorldType
<1>3. TypeOK
  BY <1>2, IdleCommand DEF TypeOK
<1>4. Coherent
  <2>1. mirror <= upstream
    OBVIOUS
  <2>2. TagsNotOlderThanHead
    BY DEF TagsNotOlderThanHead
  <2>3. QED
    BY <2>1, <2>2 DEF Coherent
<1>5. Told /\ \A p \in Procs : Sound(cmd[p])
  BY IdleCommand DEF Told, Procs, Idle
<1>6. QED
  BY <1>3, <1>4, <1>5 DEF Inv

(***************************************************************************)
(* What is common to the steps.                                            *)
(***************************************************************************)

(* A step that gives p the command m.                                      *)
LEMMA StepOf ==
  ASSUME Inv, WorldType', Coherent', Grows,
         NEW p \in Procs, NEW m \in Command, cmd' = [cmd EXCEPT ![p] = m], Sound(m)',
         todo' \in [Agents -> Seq(Orders)],
         \A q \in Agents \ {p} : todo'[q] = todo[q],
         p \in Agents /\ m.pc # "idle" /\ m.op \notin Reading => todo'[p] # <<>>
  PROVE  Inv'
<1>1. TypeOK'
  BY DEF Inv, TypeOK
<1>2. Told'
  BY DEF Inv, TypeOK, Told, Procs
<1>3. ASSUME NEW q \in Procs PROVE Sound(cmd[q])'
  <2>1. CASE q = p
    <3>1. cmd'[q] = m
      BY <2>1 DEF Inv, TypeOK
    <3>2. ReadsSoundly(cmd[q])'
      BY <3>1 DEF Sound, ReadsSoundly
    <3>3. WritesSoundly(cmd[q])'
      BY <3>1 DEF Sound, WritesSoundly
    <3>4. Reports(cmd[q])'
      BY <3>1 DEF Sound, Reports
    <3>5. QED
      BY <3>1, <3>2, <3>3, <3>4 DEF Sound
  <2>2. CASE q # p
    <3>1. PICK k \in Command : k = cmd[q]
      BY DEF Inv, TypeOK
    <3>2. cmd'[q] = k /\ Sound(k)
      BY <2>2, <3>1 DEF Inv, TypeOK
    <3>3. Sound(k)'
      BY <3>2, SoundStays DEF Inv, TypeOK
    <3>4. ReadsSoundly(cmd[q])'
      BY <3>2, <3>3 DEF Sound, ReadsSoundly
    <3>5. WritesSoundly(cmd[q])'
      BY <3>2, <3>3 DEF Sound, WritesSoundly
    <3>6. Reports(cmd[q])'
      <4>1. Reports(k)'
        BY <3>3 DEF Sound
      <4>2. cmd'[q] = k
        BY <3>2
      <4>3. QED
        BY <4>1, <4>2
    <3>7. QED
      BY <3>2, <3>3, <3>4, <3>5, <3>6 DEF Sound
  <2>3. QED
    BY <2>1, <2>2
<1>4. QED
  BY <1>1, <1>2, <1>3 DEF Inv

LEMMA QuietWorld ==
  ASSUME Inv, UNCHANGED <<world, catalogue, databases>>
  PROVE  WorldType' /\ Coherent' /\ Grows
<1>1. mirror' = mirror /\ mirror <= mirror
  BY QueryAssumption DEF world, Inv, TypeOK, WorldType, Commits
<1>2. QED
  BY <1>1 DEF world, catalogue, databases, Inv, TypeOK, WorldType, Coherent, TagsNotOlderThanHead, Grows

LEMMA OrdersType ==
  ASSUME NEW r \in Refs
  PROVE  Repair(r) \in Seq(Orders) /\ <<[op |-> "query", ref |-> r]>> \in Seq(Orders)
BY DEF Repair, Orders

(* A command that ends: what it reports is all there is to show.           *)
LEMMA Ends ==
  ASSUME Inv, WorldType', Coherent', Grows,
         NEW p \in Procs, NEW c \in Command, NEW outcome \in Outcomes,
         EndWith(p, c, outcome),
         cmd[p].pc # "idle", c.op = cmd[p].op, c.gen = cmd[p].gen, c.promised = cmd[p].promised,
         outcome \in {"none", "synced", "built"} => c.op \notin Reading,
         c.op \in Reading =>
           Reports([c EXCEPT !.pc = "idle", !.outcome = outcome, !.ref = Latest, !.to = Latest, !.db = 0])
  PROVE  Inv'
<1>1. Latest \in Refs /\ cmd[p] \in Command /\ Sound(cmd[p])
  BY DEF Inv, TypeOK, Refs
<1>2. PICK m \in Command :
        m = IF c.op \in Reading
            THEN [c EXCEPT !.pc = "idle", !.outcome = outcome, !.ref = Latest, !.to = Latest, !.db = 0]
            ELSE Idle
  <2>1. [c EXCEPT !.pc = "idle", !.outcome = outcome, !.ref = Latest, !.to = Latest, !.db = 0] \in Command
    BY <1>1 DEF Command, Pcs
  <2>2. QED
    BY <2>1, IdleCommand
<1>3. cmd' = [cmd EXCEPT ![p] = m]
  BY <1>2 DEF EndWith
<1>4. m.pc = "idle"
  BY <1>2 DEF Idle, Command
<1>5. Sound(m)
  <2>1. CASE c.op \in Reading
    <3>1. m.promised = cmd[p].promised /\ m.gen = cmd[p].gen /\ Reports(m)
      BY <1>2, <2>1 DEF Command
    <3>2. ReadsSoundly(m)
      BY <1>1, <1>4, <3>1 DEF Sound, ReadsSoundly
    <3>3. QED
      BY <1>4, <3>1, <3>2 DEF Sound, WritesSoundly
  <2>2. CASE c.op \notin Reading
    BY <1>2, <2>2, IdleCommand
  <2>3. QED
    BY <2>1, <2>2
<1>6. Sound(m)'
  BY <1>5, SoundStays DEF Inv, TypeOK
<1>7. todo' \in [Agents -> Seq(Orders)] /\ \A q \in Agents \ {p} : todo'[q] = todo[q]
  <2>1. CASE p \notin Agents
    BY <2>1 DEF EndWith, Inv, TypeOK
  <2>2. CASE p \in Agents
    <3>1. NextSteps(p, outcome) \in Seq(Orders)
      <4>1. cmd[p].ref \in Refs /\ todo[p] \in Seq(Orders) /\ <<>> \in Seq(Orders)
        BY <1>1, <2>2 DEF Command, Inv, TypeOK
      <4>2. CASE outcome \in {"none", "synced", "built"}
        <5>1. todo[p] # <<>>
          BY <2>2, <4>2 DEF Inv, Told
        <5>2. Tail(todo[p]) \in Seq(Orders)
          BY <4>1, <5>1
        <5>3. QED
          BY <4>2, <5>2 DEF NextSteps
      <4>3. CASE outcome \in {"answered", "snapshot_not_ready", "version_not_found", "error"}
        BY <1>1, <4>1, <4>3, OrdersType DEF NextSteps
      <4>4. QED
        BY <4>2, <4>3 DEF Outcomes
    <3>2. todo' = [todo EXCEPT ![p] = NextSteps(p, outcome)]
      BY <2>2 DEF EndWith
    <3>3. QED
      BY <3>1, <3>2 DEF Inv, TypeOK
  <2>3. QED
    BY <2>1, <2>2
<1>8. QED
  BY <1>3, <1>4, <1>6, <1>7, StepOf

(* A command that goes on with the record m.                               *)
LEMMA Goes ==
  ASSUME Inv, WorldType', Coherent', Grows,
         NEW p \in Procs, NEW m \in Command, cmd' = [cmd EXCEPT ![p] = m], UNCHANGED todo,
         cmd[p].pc # "idle", m.op = cmd[p].op, Sound(m)'
  PROVE  Inv'
<1>1. todo' \in [Agents -> Seq(Orders)] /\ \A q \in Agents \ {p} : todo'[q] = todo[q]
  BY DEF Inv, TypeOK
<1>2. p \in Agents /\ m.pc # "idle" /\ m.op \notin Reading => todo'[p] # <<>>
  BY DEF Inv, Told
<1>3. QED
  BY <1>1, <1>2, StepOf

LEMMA Mine ==
  ASSUME Inv, NEW p \in Procs
  PROVE  /\ cmd[p] \in Command /\ Sound(cmd[p])
         /\ cmd[p].pc # "idle" => Gen(p) \in Generations
BY DEF Inv, TypeOK, Sound, Gen

(* An ended command that reports neither an answer nor a missing snapshot. *)
LEMMA NothingToShow ==
  ASSUME NEW c \in Command, NEW outcome \in Outcomes \ {"answered", "snapshot_not_ready"}
  PROVE  Reports([c EXCEPT !.pc = "idle", !.outcome = outcome, !.ref = Latest, !.to = Latest, !.db = 0])
BY DEF Reports, Command

LEMMA EndsQuietly ==
  ASSUME Inv, UNCHANGED <<world, catalogue, databases>>, NEW p \in Procs, cmd[p].pc # "idle",
         NEW outcome \in {"version_not_found", "error"}, End(p, outcome)
  PROVE  Inv'
<1>1. WorldType' /\ Coherent' /\ Grows
  BY QuietWorld
<1>2. cmd[p] \in Command
  BY Mine
<1>3. outcome \in Outcomes \ {"answered", "snapshot_not_ready"}
  BY DEF Outcomes
<1>4. Reports([cmd[p] EXCEPT !.pc = "idle", !.outcome = outcome, !.ref = Latest, !.to = Latest, !.db = 0])
  BY <1>2, <1>3, NothingToShow
<1>5. QED
  BY <1>1, <1>2, <1>3, <1>4, Ends DEF End

LEMMA GoesQuietly ==
  ASSUME Inv, UNCHANGED <<world, catalogue, databases, todo>>, NEW p \in Procs,
         NEW m \in Command, cmd' = [cmd EXCEPT ![p] = m],
         cmd[p].pc # "idle", m.op = cmd[p].op, Sound(m)
  PROVE  Inv'
<1>1. WorldType' /\ Coherent' /\ Grows
  BY QuietWorld
<1>2. Sound(m)'
  BY <1>1, SoundStays DEF Inv, TypeOK
<1>3. QED
  BY <1>1, <1>2, Goes

LEMMA NamedCommits ==
  ASSUME WorldType, NEW r \in Refs
  PROVE  Named(r) \subseteq Commits
BY DEF WorldType, Named, Refs, Latest

(***************************************************************************)
(* Commands that read.                                                     *)
(***************************************************************************)
LEMMA SelectInv ==
  ASSUME Inv, NEW p \in Procs, Select(p)
  PROVE  Inv'
<1> USE DEF At
<1>0. /\ cmd[p].pc = "select" /\ cmd[p] \in Command /\ Sound(cmd[p]) /\ Gen(p) \in Generations
      /\ UNCHANGED <<world, catalogue, databases>>
  BY Mine DEF Select
<1>1. CASE Named(Wanted(p)) = {}
  BY <1>0, <1>1, EndsQuietly DEF Select
<1>2. CASE Named(Wanted(p)) # {}
  <2>1. PICK c \in Named(Wanted(p)) :
          LET next == [cmd[p] EXCEPT !.got = Append(@, c), !.db = rows[c]]
          IN  IF rows[c] = NoRow THEN EndWith(p, next, "snapshot_not_ready")
              ELSE /\ Step(p, next, IF Complete(p, next.got) THEN "open" ELSE "select")
                   /\ UNCHANGED todo
    BY <1>2 DEF Select
  <2>2. c \in Commits
    <3>1. Wanted(p) \in Refs
      BY <1>0 DEF Wanted, Command
    <3>2. QED
      BY <3>1, NamedCommits DEF Inv, TypeOK
  <2>3. PICK got \in Seq(Commits) : got = Append(cmd[p].got, c)
    <3>1. cmd[p].got \in Seq(Commits)
      BY <1>0 DEF Command
    <3>2. Append(cmd[p].got, c) \in Seq(Commits)
      BY <2>2, <3>1
    <3>3. QED
      BY <3>2
  <2>4. /\ cmd[p].got \in Seq(Commits) /\ cmd[p].op \in Reading
        /\ cmd[p].got = <<>> \/ (cmd[p].op = "diff" /\ Len(cmd[p].got) = 1)
        /\ cmd[p].promised # {} => cmd[p].promised \subseteq built[cmd[p].gen]
    BY <1>0 DEF Command, Sound, ReadsSoundly, Reading
  <2>5. /\ Len(got) = Len(cmd[p].got) + 1 /\ got[Len(got)] = c /\ Len(cmd[p].got) \in Nat
    BY <2>2, <2>3, <2>4
  <2>5a. Len(got) = 1 \/ (cmd[p].op = "diff" /\ Len(got) = 2)
    <3>1. CASE cmd[p].got = <<>>
      <4>1. Len(cmd[p].got) = 0
        BY <3>1
      <4>2. QED
        BY <2>5, <4>1
    <3>2. CASE cmd[p].op = "diff" /\ Len(cmd[p].got) = 1
      BY <2>5, <3>2
    <3>3. QED
      BY <2>4, <3>1, <3>2
  <2>6. PICK n \in Command : n = [cmd[p] EXCEPT !.got = got, !.db = rows[c]]
    BY <1>0, <2>2 DEF Command, Inv, TypeOK, WorldType
  <2>7. n.op = cmd[p].op /\ n.gen = cmd[p].gen /\ n.promised = cmd[p].promised /\ n.got = got
    BY <1>0, <2>6 DEF Command
  <2>8. CASE rows[c] = NoRow
    <3>1. EndWith(p, n, "snapshot_not_ready")
      BY <2>1, <2>3, <2>6, <2>8
    <3>2. c \notin cmd[p].promised
      BY <1>0, <2>4, <2>8 DEF Inv, Coherent, Gen
    <3>3. Reports([n EXCEPT !.pc = "idle", !.outcome = "snapshot_not_ready",
                            !.ref = Latest, !.to = Latest, !.db = 0])
      BY <2>5, <2>7, <3>2 DEF Reports, Command
    <3>4. QED
      BY <1>0, <2>4, <2>7, <3>1, <3>3, QuietWorld, Ends DEF Outcomes
  <2>9. CASE rows[c] # NoRow
    <3>1. PICK pc \in {"open", "select"} : pc = IF Complete(p, got) THEN "open" ELSE "select"
      OBVIOUS
    <3>2. PICK m \in Command : m = [n EXCEPT !.pc = pc]
      BY <3>1 DEF Command, Pcs
    <3>3. cmd' = [cmd EXCEPT ![p] = m] /\ UNCHANGED todo
      BY <2>1, <2>3, <2>6, <2>7, <2>9, <3>1, <3>2 DEF Step
    <3>4. m.op = cmd[p].op /\ m.gen = cmd[p].gen /\ m.promised = cmd[p].promised /\ m.got = got /\ m.pc = pc
      BY <2>7, <3>2 DEF Command
    <3>5. ReadsSoundly(m)
      <4>1. pc = "select" => m.op = "diff" /\ Len(m.got) = 1
        BY <2>4, <2>5, <2>5a, <3>1, <3>4 DEF Complete, Reading
      <4>2. pc = "open" => (m.op = "query" /\ Len(m.got) = 1) \/ (m.op = "diff" /\ Len(m.got) = 2)
        BY <2>4, <2>5, <2>5a, <3>1, <3>4 DEF Complete, Reading
      <4>3. QED
        BY <1>0, <2>4, <3>1, <3>4, <4>1, <4>2 DEF ReadsSoundly, Reading, Gen
    <3>6. Sound(m)
      BY <1>0, <3>1, <3>4, <3>5 DEF Sound, WritesSoundly, Reports, Gen
    <3>7. QED
      BY <1>0, <3>3, <3>4, <3>6, GoesQuietly
  <2>10. QED
    BY <2>8, <2>9
<1>3. QED
  BY <1>1, <1>2

LEMMA OpenBranchReadInv ==
  ASSUME Inv, NEW p \in Procs, OpenBranchRead(p)
  PROVE  Inv'
<1> USE DEF At
<1>0. /\ cmd[p].pc = "open" /\ cmd[p] \in Command /\ Sound(cmd[p]) /\ Gen(p) \in Generations
      /\ UNCHANGED <<world, catalogue, databases>> /\ Opened(p) = cmd[p].gen
  BY Mine DEF OpenBranchRead, Opened, Gen
<1>1. /\ (cmd[p].op = "query" /\ Len(cmd[p].got) = 1) \/ (cmd[p].op = "diff" /\ Len(cmd[p].got) = 2)
      /\ cmd[p].promised # {} => cmd[p].promised \subseteq built[cmd[p].gen]
  BY <1>0 DEF Sound, ReadsSoundly
<1>2. CASE branch[Opened(p)] = "absent"
  <2>1. cmd[p].promised = {}
    BY <1>0, <1>1, <1>2 DEF Inv, Coherent, Gen
  <2>2. Reports([cmd[p] EXCEPT !.pc = "idle", !.outcome = "snapshot_not_ready",
                               !.ref = Latest, !.to = Latest, !.db = 0])
    BY <1>0, <2>1 DEF Reports, Command
  <2>3. End(p, "snapshot_not_ready")
    BY <1>2 DEF OpenBranchRead
  <2>4. QED
    BY <1>0, <1>1, <2>2, <2>3, QuietWorld, Ends DEF Outcomes, Reading, End
<1>3. CASE branch[Opened(p)] # "absent"
  <2>1. PICK pc \in {"check", "load"} : pc = IF cmd[p].op = "query" THEN "check" ELSE "load"
    OBVIOUS
  <2>2. PICK m \in Command : m = [cmd[p] EXCEPT !.db = Opened(p), !.pc = pc]
    BY <1>0, <2>1 DEF Command, Pcs
  <2>3. cmd' = [cmd EXCEPT ![p] = m] /\ UNCHANGED todo
    BY <1>0, <1>3, <2>1, <2>2 DEF OpenBranchRead, Step
  <2>4. /\ m.op = cmd[p].op /\ m.gen = cmd[p].gen /\ m.promised = cmd[p].promised
        /\ m.got = cmd[p].got /\ m.pc = pc /\ m.db = m.gen
    BY <1>0, <2>2 DEF Command
  <2>5. ReadsSoundly(m)
    BY <1>0, <1>1, <2>1, <2>4 DEF ReadsSoundly, Gen
  <2>6. Sound(m)
    BY <1>0, <2>1, <2>4, <2>5 DEF Sound, WritesSoundly, Reports, Gen
  <2>7. QED
    BY <1>0, <2>3, <2>4, <2>6, GoesQuietly
<1>4. QED
  BY <1>2, <1>3

LEMMA EnsureReadyInv ==
  ASSUME Inv, NEW p \in Procs, EnsureReady(p)
  PROVE  Inv'
<1> USE DEF At
<1>0. /\ cmd[p].pc = "check" /\ cmd[p] \in Command /\ Sound(cmd[p]) /\ Gen(p) \in Generations
      /\ UNCHANGED <<world, catalogue, databases>>
  BY Mine DEF EnsureReady
<1>1. /\ cmd[p].op = "query" /\ Len(cmd[p].got) = 1 /\ cmd[p].db = cmd[p].gen
      /\ cmd[p].promised # {} => cmd[p].promised \subseteq built[cmd[p].gen]
  BY <1>0 DEF Sound, ReadsSoundly
<1>2. CASE branch[cmd[p].db] = "bare"
  BY <1>0, <1>2, EndsQuietly DEF EnsureReady
<1>3. CASE branch[cmd[p].db] # "bare" /\ cmd[p].got[1] \notin ready[cmd[p].gen]
  <2>1. cmd[p].got[1] \notin cmd[p].promised
    BY <1>0, <1>1, <1>3 DEF Inv, Coherent, Gen
  <2>2. Reports([cmd[p] EXCEPT !.pc = "idle", !.outcome = "snapshot_not_ready",
                               !.ref = Latest, !.to = Latest, !.db = 0])
    BY <1>0, <1>1, <2>1 DEF Reports, Command
  <2>3. End(p, "snapshot_not_ready")
    BY <1>1, <1>3 DEF EnsureReady, Commit
  <2>4. QED
    BY <1>0, <1>1, <2>2, <2>3, QuietWorld, Ends DEF Outcomes, Reading, End
<1>4. CASE branch[cmd[p].db] # "bare" /\ cmd[p].got[1] \in ready[cmd[p].gen]
  <2>1. PICK m \in Command : m = [cmd[p] EXCEPT !.pc = "read"]
    BY <1>0 DEF Command, Pcs
  <2>2. cmd' = [cmd EXCEPT ![p] = m] /\ UNCHANGED todo
    BY <1>1, <1>4, <2>1 DEF EnsureReady, Commit, Gen, Go, Step
  <2>3. /\ m.op = cmd[p].op /\ m.gen = cmd[p].gen /\ m.promised = cmd[p].promised
        /\ m.got = cmd[p].got /\ m.pc = "read" /\ m.db = m.gen
    BY <1>0, <1>1, <2>1 DEF Command
  <2>4. Sound(m)
    BY <1>0, <1>1, <1>4, <2>3 DEF Sound, ReadsSoundly, WritesSoundly, Reports, Gen
  <2>5. QED
    BY <1>0, <2>2, <2>3, <2>4, GoesQuietly
<1>5. QED
  BY <1>2, <1>3, <1>4

LEMMA StoredFacts ==
  ASSUME NEW g \in Generations, NEW c \in Commits
  PROVE  Stored(g, c) \in FactSets
<1>1. Facts[<<c, g>>] \subseteq UNION {Facts[k] : k \in Commits \X Generations}
  OBVIOUS
<1>2. QED
  BY <1>1 DEF Stored, FactSets

LEMMA ReadInv ==
  ASSUME Inv, NEW p \in Procs, Read(p)
  PROVE  Inv'
<1> USE DEF At
<1>0. /\ cmd[p].pc = "read" /\ cmd[p] \in Command /\ Sound(cmd[p]) /\ Gen(p) \in Generations
      /\ UNCHANGED <<world, catalogue, databases>>
  BY Mine DEF Read
<1>1. /\ cmd[p].op = "query" /\ Len(cmd[p].got) = 1 /\ cmd[p].db = cmd[p].gen
      /\ cmd[p].got[1] \in ready[cmd[p].gen] /\ cmd[p].got[1] \in Commits
  BY <1>0 DEF Sound, ReadsSoundly, Command
<1>2. PICK facts \in FactSets : facts = Stored(cmd[p].db, Commit(p))
  BY <1>0, <1>1, StoredFacts DEF Commit, Gen
<1>3. facts = Facts[<<cmd[p].got[1], cmd[p].gen>>]
  BY <1>1, <1>2 DEF Stored, Commit
<1>4. PICK c \in Command : c = [cmd[p] EXCEPT !.answer = <<facts>>]
  <2>1. <<facts>> \in Seq(FactSets)
    OBVIOUS
  <2>2. QED
    BY <1>0, <2>1 DEF Command
<1>5. EndWith(p, c, "answered")
  BY <1>2, <1>4 DEF Read
<1>6. /\ c.op = cmd[p].op /\ c.gen = cmd[p].gen /\ c.promised = cmd[p].promised
      /\ c.got = cmd[p].got /\ c.answer = <<facts>>
  BY <1>0, <1>4 DEF Command
<1>7. Reports([c EXCEPT !.pc = "idle", !.outcome = "answered", !.ref = Latest, !.to = Latest, !.db = 0])
  BY <1>1, <1>3, <1>6 DEF Reports, Command
<1>8. QED
  BY <1>0, <1>1, <1>5, <1>6, <1>7, QuietWorld, Ends DEF Outcomes, Reading

LEMMA LoadInv ==
  ASSUME Inv, NEW p \in Procs, Load(p)
  PROVE  Inv'
<1> USE DEF At
<1>0. /\ cmd[p].pc = "load" /\ cmd[p] \in Command /\ Sound(cmd[p]) /\ Gen(p) \in Generations
      /\ UNCHANGED <<world, catalogue, databases>>
  BY Mine DEF Load
<1>1. /\ cmd[p].op = "diff" /\ Len(cmd[p].got) = 2 /\ cmd[p].db = cmd[p].gen
      /\ cmd[p].promised # {} => cmd[p].promised \subseteq built[cmd[p].gen]
      /\ \A i \in 1 .. 2 : cmd[p].got[i] \in Commits
  BY <1>0 DEF Sound, ReadsSoundly, Command
<1>2. CASE branch[cmd[p].db] = "bare"
  BY <1>0, <1>2, EndsQuietly DEF Load
<1>3. CASE branch[cmd[p].db] # "bare"
  <2>1. PICK side \in [1 .. 2 -> FactSets] : side = [i \in 1 .. 2 |-> Stored(cmd[p].db, cmd[p].got[i])]
    BY <1>0, <1>1, StoredFacts DEF Gen
  <2>2. ASSUME \A i \in 1 .. 2 : cmd[p].got[i] \in cmd[p].promised
        PROVE  side = [i \in 1 .. 2 |-> Facts[<<cmd[p].got[i], cmd[p].gen>>]]
    <3>1. \A i \in 1 .. 2 : cmd[p].got[i] \in ready[cmd[p].gen]
      BY <1>0, <1>1, <2>2 DEF Inv, Coherent, Gen
    <3>2. QED
      BY <1>1, <2>1, <3>1 DEF Stored
  <2>3. PICK answer \in Seq(FactSets) : answer = <<side[2] \ side[1], side[1] \ side[2]>>
    <3>1. side[2] \ side[1] \in FactSets /\ side[1] \ side[2] \in FactSets
      BY <2>1 DEF FactSets
    <3>2. <<side[2] \ side[1], side[1] \ side[2]>> \in Seq(FactSets)
      BY <3>1
    <3>3. QED
      BY <3>2
  <2>4. PICK c \in Command : c = [cmd[p] EXCEPT !.answer = answer]
    BY <1>0 DEF Command
  <2>5. EndWith(p, c, "answered")
    BY <1>3, <2>1, <2>3, <2>4 DEF Load
  <2>6. /\ c.op = cmd[p].op /\ c.gen = cmd[p].gen /\ c.promised = cmd[p].promised
        /\ c.got = cmd[p].got /\ c.answer = answer
    BY <1>0, <2>4 DEF Command
  <2>7. Reports([c EXCEPT !.pc = "idle", !.outcome = "answered", !.ref = Latest, !.to = Latest, !.db = 0])
    <3>1. PICK m : m = [c EXCEPT !.pc = "idle", !.outcome = "answered", !.ref = Latest, !.to = Latest, !.db = 0]
      OBVIOUS
    <3>2. /\ m.op = "diff" /\ m.got = cmd[p].got /\ m.promised = cmd[p].promised
          /\ m.gen = cmd[p].gen /\ m.answer = answer /\ m.outcome = "answered"
      BY <1>1, <2>6, <3>1 DEF Command
    <3>3. (\A i \in 1 .. 2 : m.got[i] \in m.promised)
          => LET both == [i \in 1 .. 2 |-> Facts[<<m.got[i], m.gen>>]]
             IN  m.answer = <<both[2] \ both[1], both[1] \ both[2]>>
      BY <2>2, <2>3, <3>2
    <3>4. Reports(m)
      BY <3>2, <3>3 DEF Reports
    <3>5. QED
      BY <3>1, <3>4
  <2>8. QED
    BY <1>0, <1>1, <2>5, <2>6, <2>7, QuietWorld, Ends DEF Outcomes, Reading
<1>4. QED
  BY <1>2, <1>3

(***************************************************************************)
(* Commands that synchronise.                                              *)
(***************************************************************************)
LEMMA FetchInv ==
  ASSUME Inv, NEW p \in Procs, Fetch(p)
  PROVE  Inv'
<1> USE DEF At
<1>0. cmd[p].pc = "fetch" /\ cmd[p] \in Command /\ Sound(cmd[p]) /\ Gen(p) \in Generations
  BY Mine DEF Fetch
<1>1. WorldType'
  BY DEF Inv, TypeOK, WorldType, Fetch, catalogue, databases
<1>2. mirror <= mirror' /\ mirror' <= upstream' /\ \A h \in Commits : h .. mirror \subseteq h .. mirror'
  BY QueryAssumption DEF Inv, TypeOK, WorldType, Coherent, Fetch, Commits
<1>3. Grows
  BY <1>2 DEF Grows, Fetch, catalogue, databases
<1>4. TagsNotOlderThanHead'
  <2>1. refs' = refs /\ refs.head .. mirror \subseteq refs.head .. mirror'
    BY <1>2 DEF Fetch, catalogue, Inv, TypeOK, WorldType
  <2>2. QED
    BY <2>1 DEF TagsNotOlderThanHead, Inv, Coherent
<1>5. Coherent'
  BY <1>2, <1>4 DEF Coherent, Inv, Fetch, catalogue, databases
<1>6. PICK m \in Command : m = [cmd[p] EXCEPT !.pc = "head"]
  BY <1>0 DEF Command, Pcs
<1>7. cmd' = [cmd EXCEPT ![p] = m] /\ UNCHANGED todo
  BY <1>6 DEF Fetch, Go, Step
<1>8. m.op = cmd[p].op /\ m.gen = cmd[p].gen /\ m.promised = cmd[p].promised /\ m.pc = "head"
  BY <1>0, <1>6 DEF Command
<1>9. Sound(m)
  BY <1>0, <1>8 DEF Sound, ReadsSoundly, WritesSoundly, Reports, Gen
<1>10. Sound(m)'
  BY <1>1, <1>3, <1>9, SoundStays DEF Inv, TypeOK
<1>11. QED
  BY <1>0, <1>1, <1>3, <1>5, <1>7, <1>8, <1>10, Goes

LEMMA ReadHeadInv ==
  ASSUME Inv, NEW p \in Procs, ReadHead(p)
  PROVE  Inv'
<1> USE DEF At
<1>0. /\ cmd[p].pc = "head" /\ cmd[p] \in Command /\ Sound(cmd[p]) /\ Gen(p) \in Generations
      /\ UNCHANGED <<world, catalogue, databases, todo>>
  BY Mine DEF ReadHead
<1>1. mirror \in Commits /\ mirror <= mirror
  BY QueryAssumption DEF Inv, TypeOK, WorldType, Commits
<1>2. PICK got \in Seq(Commits) : got = <<mirror>>
  <2>1. <<mirror>> \in Seq(Commits)
    BY <1>1
  <2>2. QED
    BY <2>1
<1>3. PICK m \in Command : m = [cmd[p] EXCEPT !.got = got, !.pc = "tags"]
  BY <1>0 DEF Command, Pcs
<1>4. cmd' = [cmd EXCEPT ![p] = m]
  BY <1>0, <1>2, <1>3 DEF ReadHead, Step
<1>5. /\ m.op = cmd[p].op /\ m.gen = cmd[p].gen /\ m.promised = cmd[p].promised /\ m.pc = "tags"
      /\ Len(m.got) = 1 /\ m.got[1] = mirror
  BY <1>0, <1>2, <1>3 DEF Command
<1>6. Sound(m)
  BY <1>0, <1>1, <1>5 DEF Sound, ReadsSoundly, WritesSoundly, Reports, Gen
<1>7. QED
  BY <1>0, <1>4, <1>5, <1>6, GoesQuietly

LEMMA ReachableTagsInv ==
  ASSUME Inv, NEW p \in Procs, ReachableTags(p)
  PROVE  Inv'
<1> USE DEF At
<1>0. /\ cmd[p].pc = "tags" /\ cmd[p] \in Command /\ Sound(cmd[p]) /\ Gen(p) \in Generations
      /\ UNCHANGED <<world, catalogue, databases, todo>>
  BY Mine DEF ReachableTags
<1>1. Limit(p) \in {SyncTags, InitTags}
  BY DEF Limit
<1>2. PICK tags \in SUBSET Commits : tags = Newest(mirror, Limit(p))
  <2>1. Newest(mirror, Limit(p)) \subseteq Commits
    BY QueryAssumption DEF Inv, TypeOK, WorldType, Newest, Commits
  <2>2. QED
    BY <2>1
<1>3. PICK m \in Command : m = [cmd[p] EXCEPT !.tags = tags, !.pc = "publish_ref"]
  BY <1>0 DEF Command, Pcs
<1>4. cmd' = [cmd EXCEPT ![p] = m]
  BY <1>0, <1>2, <1>3 DEF ReachableTags, Step
<1>5. /\ m.op = cmd[p].op /\ m.gen = cmd[p].gen /\ m.promised = cmd[p].promised
      /\ m.pc = "publish_ref" /\ m.got = cmd[p].got /\ m.tags = Newest(mirror, Limit(p))
  BY <1>0, <1>2, <1>3 DEF Command
<1>6. mirror \in m.got[1] .. mirror
  BY <1>0, <1>5, QueryAssumption DEF Sound, WritesSoundly, Command, Inv, TypeOK, WorldType, Commits
<1>7. Sound(m)
  BY <1>0, <1>1, <1>5, <1>6 DEF Sound, ReadsSoundly, WritesSoundly, Reports, Gen
<1>8. QED
  BY <1>0, <1>4, <1>5, <1>7, GoesQuietly

LEMMA PublishRefInv ==
  ASSUME Inv, NEW p \in Procs, PublishRef(p)
  PROVE  Inv'
<1> USE DEF At
<1>0. cmd[p].pc = "publish_ref" /\ cmd[p] \in Command /\ Sound(cmd[p]) /\ UNCHANGED <<world, rows, databases>>
  BY Mine DEF PublishRef
<1>1. /\ cmd[p].op \in {"sync", "init"} /\ cmd[p].got[1] \in Commits /\ cmd[p].tags \in SUBSET Commits
      /\ \E h \in cmd[p].got[1] .. mirror : \E n \in {SyncTags, InitTags} : cmd[p].tags = Newest(h, n)
  BY <1>0 DEF Sound, WritesSoundly, Command
<1>2. WorldType'
  BY <1>0, <1>1 DEF Inv, TypeOK, WorldType, PublishRef, world, databases
<1>3. mirror' = mirror /\ mirror <= mirror
  BY <1>0, QueryAssumption DEF world, Inv, TypeOK, WorldType, Commits
<1>4. Grows
  BY <1>0, <1>3 DEF Grows, databases
<1>5. Coherent'
  <2>1. TagsNotOlderThanHead'
    BY <1>1, <1>3 DEF TagsNotOlderThanHead, PublishRef
  <2>2. QED
    BY <1>0, <2>1 DEF Coherent, Inv, world, databases
<1>6. cmd[p].op \notin Reading /\ "synced" \in Outcomes
  BY <1>1 DEF Reading, Outcomes
<1>7. EndWith(p, cmd[p], "synced")
  BY DEF PublishRef, End
<1>8. QED
  BY <1>0, <1>2, <1>4, <1>5, <1>6, <1>7, Ends

(***************************************************************************)
(* Commands that build.                                                    *)
(***************************************************************************)
LEMMA ResolveBuildInv ==
  ASSUME Inv, NEW p \in Procs, ResolveBuild(p)
  PROVE  Inv'
<1> USE DEF At
<1>0. /\ cmd[p].pc = "resolve" /\ cmd[p] \in Command /\ Sound(cmd[p]) /\ Gen(p) \in Generations
      /\ UNCHANGED <<world, catalogue, databases>>
  BY Mine DEF ResolveBuild
<1>1. CASE Named(cmd[p].ref) = {}
  BY <1>0, <1>1, EndsQuietly DEF ResolveBuild
<1>2. CASE Named(cmd[p].ref) # {}
  <2>1. PICK c \in Named(cmd[p].ref) : Step(p, [cmd[p] EXCEPT !.got = <<c>>], "create") /\ UNCHANGED todo
    BY <1>2 DEF ResolveBuild
  <2>2. c \in Commits
    <3>1. cmd[p].ref \in Refs
      BY <1>0 DEF Command
    <3>2. QED
      BY <3>1, NamedCommits DEF Inv, TypeOK
  <2>3. PICK got \in Seq(Commits) : got = <<c>>
    <3>1. <<c>> \in Seq(Commits)
      BY <2>2
    <3>2. QED
      BY <3>1
  <2>4. PICK m \in Command : m = [cmd[p] EXCEPT !.got = got, !.pc = "create"]
    BY <1>0 DEF Command, Pcs
  <2>5. cmd' = [cmd EXCEPT ![p] = m]
    BY <1>0, <2>1, <2>3, <2>4 DEF Step
  <2>6. /\ m.op = cmd[p].op /\ m.gen = cmd[p].gen /\ m.promised = cmd[p].promised
        /\ m.pc = "create" /\ Len(m.got) = 1
    BY <1>0, <2>3, <2>4 DEF Command
  <2>7. Sound(m)
    BY <1>0, <2>6 DEF Sound, ReadsSoundly, WritesSoundly, Reports, Gen
  <2>8. QED
    BY <1>0, <2>1, <2>5, <2>6, <2>7, GoesQuietly
<1>3. QED
  BY <1>1, <1>2

(* A step of a build of p that goes on to pc.                              *)
LEMMA BuildGoes ==
  ASSUME Inv, WorldType', Grows, UNCHANGED <<world, catalogue, built, todo>>,
         \A g \in Generations : ready'[g] # {} => branch'[g] # "absent",
         NEW p \in Procs, NEW pc \in {"schema", "publish", "save"}, Go(p, pc),
         cmd[p].pc \in {"create", "schema", "publish"},
         branch'[Gen(p)] # "absent", pc = "save" => cmd[p].got[1] \in ready'[Gen(p)]
  PROVE  Inv'
<1>0. cmd[p] \in Command /\ Sound(cmd[p]) /\ Gen(p) \in Generations
  BY Mine
<1>1. mirror' = mirror /\ upstream' = upstream /\ refs' = refs /\ rows' = rows /\ built' = built
  BY DEF world, catalogue
<1>2. Coherent'
  <2>1. TagsNotOlderThanHead'
    BY <1>1 DEF TagsNotOlderThanHead, Inv, Coherent
  <2>2. QED
    BY <1>1, <2>1 DEF Coherent, Inv, Grows
<1>3. PICK m \in Command : m = [cmd[p] EXCEPT !.pc = pc]
  BY <1>0 DEF Command, Pcs
<1>4. cmd' = [cmd EXCEPT ![p] = m]
  BY <1>3 DEF Go, Step
<1>5. /\ m.op = cmd[p].op /\ m.gen = cmd[p].gen /\ m.promised = cmd[p].promised
      /\ m.pc = pc /\ m.got = cmd[p].got
  BY <1>0, <1>3 DEF Command
<1>6. cmd[p].op = "build" /\ Len(cmd[p].got) = 1
  BY <1>0 DEF Sound, WritesSoundly
<1>7. ReadsSoundly(m)'
  <2>1. m.promised # {} => m.gen \in Generations /\ m.promised \subseteq built'[m.gen]
    BY <1>0, <1>1, <1>5 DEF Sound, ReadsSoundly
  <2>2. QED
    BY <1>5, <2>1 DEF ReadsSoundly
<1>8. WritesSoundly(m)'
  BY <1>5, <1>6 DEF WritesSoundly, Gen
<1>9. Sound(m)'
  BY <1>0, <1>5, <1>7, <1>8 DEF Sound, Reports, Gen
<1>10. QED
  BY <1>2, <1>4, <1>5, <1>9, Goes

LEMMA CreateBranchInv ==
  ASSUME Inv, NEW p \in Procs, CreateBranch(p)
  PROVE  Inv'
<1> USE DEF At
<1>0. cmd[p].pc = "create" /\ Gen(p) \in Generations
  BY Mine DEF CreateBranch
<1>1. /\ UNCHANGED <<world, catalogue, built, todo, ready>> /\ mirror' = mirror /\ mirror <= mirror
      /\ branch \in [Generations -> {"absent", "bare", "open"}]
  BY QueryAssumption DEF CreateBranch, world, Inv, TypeOK, WorldType, Commits
<1>2. /\ branch' \in [Generations -> {"absent", "bare", "open"}] /\ branch'[Gen(p)] # "absent"
      /\ \A g \in Generations : branch[g] # "absent" => branch'[g] # "absent"
  BY <1>0, <1>1 DEF CreateBranch
<1>3. WorldType' /\ Grows
  BY <1>1, <1>2 DEF Inv, TypeOK, WorldType, Grows, world, catalogue
<1>4. \A g \in Generations : ready'[g] # {} => branch'[g] # "absent"
  BY <1>1, <1>2 DEF Inv, Coherent
<1>5. Go(p, "schema")
  BY DEF CreateBranch
<1>6. QED
  BY <1>0, <1>1, <1>2, <1>3, <1>4, <1>5, BuildGoes

LEMMA MakeTablesInv ==
  ASSUME Inv, NEW p \in Procs, MakeTables(p)
  PROVE  Inv'
<1> USE DEF At
<1>0. cmd[p].pc = "schema" /\ Gen(p) \in Generations
  BY Mine DEF MakeTables
<1>1. /\ UNCHANGED <<world, catalogue, built, todo, ready>> /\ mirror' = mirror /\ mirror <= mirror
      /\ branch \in [Generations -> {"absent", "bare", "open"}]
  BY QueryAssumption DEF MakeTables, world, Inv, TypeOK, WorldType, Commits
<1>2. /\ branch' \in [Generations -> {"absent", "bare", "open"}] /\ branch'[Gen(p)] # "absent"
      /\ \A g \in Generations : branch[g] # "absent" => branch'[g] # "absent"
  BY <1>0, <1>1 DEF MakeTables
<1>3. WorldType' /\ Grows
  BY <1>1, <1>2 DEF Inv, TypeOK, WorldType, Grows, world, catalogue
<1>4. \A g \in Generations : ready'[g] # {} => branch'[g] # "absent"
  BY <1>1, <1>2 DEF Inv, Coherent
<1>5. Go(p, "publish")
  BY DEF MakeTables
<1>6. QED
  BY <1>0, <1>1, <1>2, <1>3, <1>4, <1>5, BuildGoes

LEMMA PublishSnapshotInv ==
  ASSUME Inv, NEW p \in Procs, PublishSnapshot(p)
  PROVE  Inv'
<1> USE DEF At
<1>0. cmd[p].pc = "publish" /\ cmd[p] \in Command /\ Sound(cmd[p]) /\ Gen(p) \in Generations
  BY Mine DEF PublishSnapshot
<1>1. /\ UNCHANGED <<world, catalogue, built, todo, branch>> /\ mirror' = mirror /\ mirror <= mirror
      /\ ready \in [Generations -> SUBSET Commits]
  BY QueryAssumption DEF PublishSnapshot, world, Inv, TypeOK, WorldType, Commits
<1>2. Commit(p) \in Commits /\ branch[Gen(p)] # "absent"
  BY <1>0 DEF Sound, WritesSoundly, Command, Commit, Gen
<1>3. /\ ready' \in [Generations -> SUBSET Commits] /\ Commit(p) \in ready'[Gen(p)]
      /\ \A g \in Generations : ready[g] \subseteq ready'[g] /\ (g # Gen(p) => ready'[g] = ready[g])
  BY <1>0, <1>1, <1>2 DEF PublishSnapshot
<1>4. WorldType' /\ Grows
  BY <1>1, <1>3 DEF Inv, TypeOK, WorldType, Grows, world, catalogue
<1>5. \A g \in Generations : ready'[g] # {} => branch'[g] # "absent"
  BY <1>1, <1>2, <1>3 DEF Inv, Coherent
<1>6. Go(p, "save")
  BY DEF PublishSnapshot
<1>7. QED
  BY <1>0, <1>1, <1>2, <1>3, <1>4, <1>5, <1>6, BuildGoes DEF Commit

LEMMA SaveSnapshotInv ==
  ASSUME Inv, NEW p \in Procs, SaveSnapshot(p)
  PROVE  Inv'
<1> USE DEF At
<1>0. cmd[p].pc = "save" /\ cmd[p] \in Command /\ Sound(cmd[p]) /\ Gen(p) \in Generations
  BY Mine DEF SaveSnapshot
<1>1. Commit(p) \in ready[Gen(p)] /\ Commit(p) \in Commits /\ cmd[p].op \notin Reading
  BY <1>0 DEF Sound, WritesSoundly, Command, Commit, Gen, Reading
<1>2. /\ UNCHANGED <<world, refs, branch, ready>> /\ mirror' = mirror /\ mirror <= mirror
      /\ refs' = refs /\ upstream' = upstream /\ branch' = branch /\ ready' = ready
  BY QueryAssumption DEF SaveSnapshot, world, Inv, TypeOK, WorldType, Commits
<1>3. Gen(p) # NoRow
  BY <1>0, QueryAssumption DEF NoRow
<1>4. /\ rows' \in [Commits -> Generations \cup {0}]
      /\ \A c \in Commits : rows[c] # NoRow => rows'[c] # NoRow
      /\ rows'[Commit(p)] # NoRow
  BY <1>0, <1>1, <1>3 DEF SaveSnapshot, Inv, TypeOK, WorldType
<1>5. /\ built' \in [Generations -> SUBSET Commits]
      /\ \A g \in Generations : built[g] \subseteq built'[g] /\ built'[g] \subseteq built[g] \cup {Commit(p)}
      /\ \A g \in Generations : g # Gen(p) => built'[g] = built[g]
  BY <1>0, <1>1 DEF SaveSnapshot, Inv, TypeOK, WorldType
<1>6. WorldType' /\ Grows
  BY <1>2, <1>4, <1>5 DEF Inv, TypeOK, WorldType, Grows, world
<1>7. Coherent'
  <2>1. \A g \in Generations : built'[g] \subseteq ready'[g]
    BY <1>1, <1>2, <1>5 DEF Inv, Coherent
  <2>2. \A g \in Generations : \A c \in built'[g] : rows'[c] # NoRow
    BY <1>4, <1>5 DEF Inv, Coherent, TypeOK, WorldType
  <2>3. TagsNotOlderThanHead'
    BY <1>2 DEF TagsNotOlderThanHead, Inv, Coherent
  <2>4. QED
    BY <1>2, <2>1, <2>2, <2>3 DEF Coherent, Inv
<1>8. EndWith(p, cmd[p], "built") /\ "built" \in Outcomes
  BY DEF SaveSnapshot, End, Outcomes
<1>9. QED
  BY <1>0, <1>1, <1>6, <1>7, <1>8, Ends

(***************************************************************************)
(* Processes, the remote repository and upgrades.                          *)
(***************************************************************************)
LEMMA LaunchInv ==
  ASSUME Inv, UNCHANGED <<world, catalogue, databases, todo>>, NEW p \in Procs,
         NEW op \in Ops \ {"none"}, NEW r \in Refs, NEW to \in Refs, Launch(p, op, r, to),
         p \in Agents /\ op \notin Reading => todo[p] # <<>>
  PROVE  Inv'
<1>1. installed \in Generations /\ built[installed] \subseteq Commits
  BY DEF Inv, TypeOK, WorldType
<1>2. First[op] \in Pcs \ {"idle"}
  BY DEF First, Ops, Pcs
<1>3. PICK promised \in SUBSET Commits : promised = IF op \in Reading THEN built[installed] ELSE {}
  BY <1>1
<1>4. PICK m \in Command :
        m = [Idle EXCEPT !.pc = First[op], !.op = op, !.gen = installed, !.ref = r, !.to = to,
                         !.promised = promised]
  BY <1>1, <1>2, IdleCommand DEF Command
<1>5. cmd' = [cmd EXCEPT ![p] = m]
  BY <1>3, <1>4 DEF Launch
<1>6. /\ m.pc = First[op] /\ m.op = op /\ m.gen = installed /\ m.got = <<>>
      /\ m.promised = promised
  BY <1>4 DEF Idle
<1>7. m.pc \in {"select", "resolve", "fetch"} /\ (m.pc = "select" => op \in Reading)
      /\ (m.pc = "resolve" => op = "build") /\ (m.pc = "fetch" => op \in {"sync", "init"})
  BY <1>6 DEF First, Ops, Reading
<1>8. Sound(m)
  <2>1. m.promised # {} => m.gen \in Generations /\ m.promised \subseteq built[m.gen]
    BY <1>1, <1>3, <1>6
  <2>2. ReadsSoundly(m)
    <3>1. m.pc = "select" => m.op \in Reading /\ m.got = <<>>
      BY <1>6, <1>7
    <3>2. m.pc \notin {"open", "check", "read", "load"}
      BY <1>7
    <3>3. QED
      BY <2>1, <3>1, <3>2 DEF ReadsSoundly
  <2>3. WritesSoundly(m)
    BY <1>6, <1>7 DEF WritesSoundly
  <2>4. Reports(m)
    BY <1>7 DEF Reports
  <2>5. QED
    BY <1>1, <1>6, <2>2, <2>3, <2>4 DEF Sound
<1>9. WorldType' /\ Coherent' /\ Grows
  BY QuietWorld
<1>10. Sound(m)'
  BY <1>8, <1>9, SoundStays DEF Inv, TypeOK
<1>11. todo' = todo /\ todo' \in [Agents -> Seq(Orders)]
  BY DEF Inv, TypeOK
<1>12. QED
  BY <1>5, <1>6, <1>9, <1>10, <1>11, StepOf

LEMMA AskInv ==
  ASSUME Inv, NEW p \in Agents, NEW r \in Refs, Ask(p, r)
  PROVE  Inv'
<1>1. p \in Procs /\ "query" \in Ops \ {"none"} /\ "query" \in Reading
  BY DEF Procs, Ops, Reading
<1>2. QED
  BY <1>1, LaunchInv DEF Ask

LEMMA ContinueInv ==
  ASSUME Inv, NEW p \in Agents, Continue(p)
  PROVE  Inv'
<1>1. p \in Procs /\ todo[p] \in Seq(Orders) /\ todo[p] # <<>> /\ Latest \in Refs
  BY DEF Continue, Inv, TypeOK, Procs, Refs
<1>2. PICK order \in Orders : order = Head(todo[p])
  <2>1. Head(todo[p]) \in Orders
    BY <1>1
  <2>2. QED
    BY <2>1
<1>3. order.op \in Ops \ {"none"} /\ order.ref \in Refs
  BY DEF Orders, Ops
<1>4. Launch(p, order.op, order.ref, Latest)
  BY <1>2 DEF Continue
<1>5. QED
  BY <1>1, <1>3, <1>4, LaunchInv DEF Continue

LEMMA StartInv ==
  ASSUME Inv, NEW p \in Others, Start(p)
  PROVE  Inv'
<1>1. p \in Procs /\ p \notin Agents /\ Latest \in Refs /\ UNCHANGED <<world, catalogue, databases, todo>>
  BY QueryAssumption DEF Start, Procs, Refs
<1>2. \E op \in Ops \ {"none"} : \E r, to \in Refs : Launch(p, op, r, to)
  <2>1. CASE \E op \in {"sync", "init"} : Launch(p, op, Latest, Latest)
    BY <1>1, <2>1 DEF Ops
  <2>2. CASE \E r \in Known \cap OtherRefs : Launch(p, "build", r, Latest)
    BY <1>1, <2>2 DEF Ops, Known
  <2>3. CASE \E r, to \in Known \cap OtherRefs : Launch(p, "diff", r, to)
    BY <2>3 DEF Ops, Known
  <2>4. QED
    BY <2>1, <2>2, <2>3 DEF Start
<1>3. QED
  BY <1>1, <1>2, LaunchInv

LEMMA DieInv ==
  ASSUME Inv, NEW p \in Others, Die(p)
  PROVE  Inv'
<1>1. PICK m \in Command : m = Idle
  BY IdleCommand
<1>2. /\ p \in Procs /\ cmd' = [cmd EXCEPT ![p] = m] /\ m.pc = "idle"
      /\ UNCHANGED <<world, catalogue, databases, todo>>
  BY <1>1 DEF Die, Procs, Idle
<1>3. WorldType' /\ Coherent' /\ Grows
  BY <1>2, QuietWorld
<1>4. Sound(m)'
  BY <1>1, <1>3, IdleCommand, SoundStays DEF Inv, TypeOK
<1>5. todo' = todo /\ todo' \in [Agents -> Seq(Orders)]
  BY <1>2 DEF Inv, TypeOK
<1>6. QED
  BY <1>2, <1>3, <1>4, <1>5, StepOf

(* A step of the world in which no command moves.                          *)
LEMMA WorldMoves ==
  ASSUME Inv, WorldType', Coherent', Grows, UNCHANGED <<cmd, todo>>
  PROVE  Inv'
<1>1. TypeOK'
  BY DEF Inv, TypeOK
<1>2. Told'
  BY DEF Inv, Told
<1>3. ASSUME NEW p \in Procs PROVE Inv'
  <2>1. PICK m \in Command : m = cmd[p] /\ Sound(m)
    BY Mine
  <2>2. cmd' = [cmd EXCEPT ![p] = m] /\ todo' = todo /\ todo' \in [Agents -> Seq(Orders)]
    BY <2>1 DEF Inv, TypeOK
  <2>3. Sound(m)'
    BY <2>1, SoundStays DEF Inv, TypeOK
  <2>4. p \in Agents /\ m.pc # "idle" /\ m.op \notin Reading => todo'[p] # <<>>
    BY <2>1, <2>2 DEF Inv, Told
  <2>5. QED
    BY <2>2, <2>3, <2>4, StepOf
<1>4. CASE Procs = {}
  BY <1>1, <1>2, <1>4 DEF Inv
<1>5. QED
  BY <1>3, <1>4

LEMMA AdvanceInv == Inv /\ Advance => Inv'
<1> SUFFICES ASSUME Inv, Advance PROVE Inv'
  OBVIOUS
<1>1. /\ upstream' \in Commits /\ mirror <= upstream' /\ mirror <= mirror
      /\ UNCHANGED <<mirror, installed, catalogue, databases, cmd, todo>>
  BY QueryAssumption DEF Inv, TypeOK, WorldType, Coherent, Advance, Commits
<1>2. WorldType' /\ Grows
  BY <1>1 DEF Inv, TypeOK, WorldType, Grows, catalogue, databases
<1>3. Coherent'
  BY <1>1 DEF Inv, Coherent, TagsNotOlderThanHead, catalogue, databases
<1>4. QED
  BY <1>1, <1>2, <1>3, WorldMoves

LEMMA UpgradeInv ==
  ASSUME Inv, NEW g \in Generations, Upgrade(g)
  PROVE  Inv'
<1>1. /\ mirror <= mirror /\ installed' \in Generations
      /\ UNCHANGED <<upstream, mirror, catalogue, databases, cmd, todo>>
  BY QueryAssumption DEF Inv, TypeOK, WorldType, Upgrade, Commits
<1>2. WorldType' /\ Grows
  BY <1>1 DEF Inv, TypeOK, WorldType, Grows, catalogue, databases
<1>3. Coherent'
  BY <1>1 DEF Inv, Coherent, TagsNotOlderThanHead, catalogue, databases
<1>4. QED
  BY <1>1, <1>2, <1>3, WorldMoves

(***************************************************************************)
(* The invariant, and what it says of the answers.                         *)
(***************************************************************************)
LEMMA WorkInv ==
  ASSUME Inv, NEW p \in Procs, Work(p)
  PROVE  Inv'
<1>1. CASE Select(p) \/ OpenBranchRead(p) \/ EnsureReady(p) \/ Read(p) \/ Load(p)
  BY <1>1, SelectInv, OpenBranchReadInv, EnsureReadyInv, ReadInv, LoadInv
<1>2. CASE Fetch(p) \/ ReadHead(p) \/ ReachableTags(p) \/ PublishRef(p)
  BY <1>2, FetchInv, ReadHeadInv, ReachableTagsInv, PublishRefInv
<1>3. CASE ResolveBuild(p) \/ CreateBranch(p) \/ MakeTables(p) \/ PublishSnapshot(p) \/ SaveSnapshot(p)
  BY <1>3, ResolveBuildInv, CreateBranchInv, MakeTablesInv, PublishSnapshotInv, SaveSnapshotInv
<1>4. QED
  BY <1>1, <1>2, <1>3 DEF Work

LEMMA NextInv == Inv /\ [Next]_vars => Inv'
<1> SUFFICES ASSUME Inv, [Next]_vars PROVE Inv'
  OBVIOUS
<1>1. CASE Advance
  BY <1>1, AdvanceInv
<1>2. ASSUME NEW g \in Generations, Upgrade(g) PROVE Inv'
  BY <1>2, UpgradeInv
<1>3. ASSUME NEW p \in Agents, Continue(p) PROVE Inv'
  BY <1>3, ContinueInv
<1>4. ASSUME NEW p \in Agents, NEW r \in Known \cap AgentRefs, Ask(p, r) PROVE Inv'
  <2>1. r \in Refs
    BY DEF Known
  <2>2. QED
    BY <1>4, <2>1, AskInv
<1>5. ASSUME NEW p \in Others, Start(p) PROVE Inv'
  BY <1>5, StartInv
<1>6. ASSUME NEW p \in Others, Die(p) PROVE Inv'
  BY <1>6, DieInv
<1>7. ASSUME NEW p \in Procs, Work(p) PROVE Inv'
  BY <1>7, WorkInv
<1>8. CASE UNCHANGED vars
  <2>1. UNCHANGED <<world, catalogue, databases>> /\ UNCHANGED <<cmd, todo>>
    BY <1>8 DEF vars, world, catalogue, databases
  <2>2. QED
    BY <2>1, QuietWorld, WorldMoves
<1>9. QED
  BY <1>1, <1>2, <1>3, <1>4, <1>5, <1>6, <1>7, <1>8 DEF Next

(* The inductive invariant holds of every behaviour: types, the catalogue  *)
(* and the databases agree, and what each command has found out is true.   *)
THEOREM QueryInvariant == Spec => []Inv
<1>1. QED
  BY InitInv, NextInv, PTL DEF Spec

(* An answer to a query is all of the snapshot it resolved to, as the      *)
(* generation of its own program reads it, for any number of agents,       *)
(* builders, syncs, commits and generations.                               *)
THEOREM QueriesExact == Spec => []AnswersExact
<1>1. Inv => AnswersExact
  BY DEF Inv, Sound, Reports, AnswersExact, Ended, Commit, Gen
<1>2. QED
  BY <1>1, QueryInvariant, PTL

(* A diff between two commits built by programs of its own generation is   *)
(* exact, although Diff checks neither of them.                            *)
THEOREM DiffsExact == Spec => []DiffExact
<1>1. Inv => DiffExact
  BY DEF Inv, Sound, Reports, DiffExact, Ended, Gen
<1>2. QED
  BY <1>1, QueryInvariant, PTL

(* What `index build` reported as built is served to every query and diff  *)
(* of that generation that starts afterwards.                              *)
THEOREM BuiltServed == Spec => []BuiltIsServed
<1>1. Inv => BuiltIsServed
  BY DEF Inv, Sound, Reports, BuiltIsServed, Ended
<1>2. QED
  BY <1>1, QueryInvariant, PTL

(* The published tags are those of a head at least as new as the published *)
(* one, however many programs publish at the same time.                    *)
THEOREM TagsFollowHead == Spec => []TagsNotOlderThanHead
<1>1. Inv => TagsNotOlderThanHead
  BY DEF Inv, Coherent
<1>2. QED
  BY <1>1, QueryInvariant, PTL
================================================================================
