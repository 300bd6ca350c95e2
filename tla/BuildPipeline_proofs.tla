------------------------- MODULE BuildPipeline_proofs -------------------------
(***************************************************************************)
(* Proofs about the goroutines of a build, for any number of workers and   *)
(* entries.  An entry that was handed out is never lost: it is collected   *)
(* or some worker has it, as long as nothing fails.                        *)
(***************************************************************************)
EXTENDS BuildPipeline, TLAPS

InHand(n) == \E w \in Workers : item[w] = n

(* A worker has an entry exactly while it works on it or sends it.         *)
HasEntry == \A w \in Workers : item[w] # 0 <=> worker[w] \in {"working", "sending"}

ClosedLast ==
  /\ closed => \A w \in Workers : worker[w] = "exited"
  /\ builder # "collecting" => closed

(* The feeder stops early, and workers end before it, for a reason only.   *)
EndsForAReason ==
  /\ feeder = "done" => fed = NumEntries \/ cancelled
  /\ \A w \in Workers : worker[w] = "exited" =>
       feeder = "done" \/ errCh \/ cancelled \/ builder # "collecting"

(* What was handed out is collected or in hand, unless something failed.   *)
Accounted ==
  builder = "collecting" /\ ~errCh /\ ~cancelled =>
    \A n \in 1 .. fed : n \in Collected \/ InHand(n)

PipelineInv ==
  TypeOK /\ HasEntry /\ ClosedLast /\ EndsForAReason /\ Accounted /\ CompleteUnlessCancelled

LEMMA InitInv == Init => PipelineInv
<1> SUFFICES ASSUME Init PROVE PipelineInv
  OBVIOUS
<1> USE PipelineAssumption DEF Init
<1>1. TypeOK
  <2>1. <<>> \in Seq(Entries)
    OBVIOUS
  <2>2. 0 \in 0 .. NumEntries
    OBVIOUS
  <2>3. worker \in [Workers -> WorkerStates] /\ item \in [Workers -> 0 .. NumEntries]
    BY <2>2 DEF WorkerStates
  <2>4. batch \in Seq(Entries)
    BY <2>1
  <2>5. QED
    BY <2>2, <2>3, <2>4 DEF TypeOK, BuilderStates
<1>2. HasEntry /\ ClosedLast /\ EndsForAReason
  BY DEF HasEntry, ClosedLast, EndsForAReason
<1>3. Accounted
  BY DEF Accounted
<1>4. CompleteUnlessCancelled
  BY DEF CompleteUnlessCancelled, PublishesAll
<1>5. QED
  BY <1>1, <1>2, <1>3, <1>4 DEF PipelineInv

LEMMA TypeStep == TypeOK /\ HasEntry /\ [Next]_vars => TypeOK'
<1> SUFFICES ASSUME TypeOK, HasEntry, [Next]_vars PROVE TypeOK'
  OBVIOUS
<1> USE PipelineAssumption
<1>1. ASSUME NEW w \in Workers, Feed(w) PROVE TypeOK'
  BY <1>1 DEF Feed, TypeOK, WorkerStates
<1>2. CASE FeederStops
  BY <1>2 DEF FeederStops, TypeOK
<1>3. ASSUME NEW w \in Workers, WorkerNext(w) PROVE TypeOK'
  <2>1. 0 \in 0 .. NumEntries
    OBVIOUS
  <2>2. worker' \in [Workers -> WorkerStates]
    BY <1>3 DEF WorkerNext, Process, WorkerFails, WorkerCancelled, WorkerEnds, TypeOK, WorkerStates
  <2>3. item' \in [Workers -> 0 .. NumEntries]
    BY <1>3, <2>1 DEF WorkerNext, Process, WorkerFails, WorkerCancelled, WorkerEnds, TypeOK
  <2>4. errCh' \in BOOLEAN /\ UNCHANGED <<fed, feeder, closed, cancelled, batch, builder>>
    BY <1>3 DEF WorkerNext, Process, WorkerFails, WorkerCancelled, WorkerEnds, TypeOK
  <2>5. QED
    BY <2>2, <2>3, <2>4 DEF TypeOK
<1>4. CASE CloseResults
  BY <1>4 DEF CloseResults, TypeOK
<1>5. ASSUME NEW w \in Workers, Collect(w) PROVE TypeOK'
  <2>1. item[w] \in Entries
    BY <1>5 DEF Collect, HasEntry, TypeOK, Entries
  <2>2. batch' \in Seq(Entries)
    BY <1>5, <2>1 DEF Collect, TypeOK
  <2>3. QED
    BY <1>5, <2>2 DEF Collect, TypeOK, WorkerStates
<1>6. CASE CheckErrors \/ Publish \/ Cancel
  BY <1>6 DEF CheckErrors, Publish, Cancel, TypeOK, BuilderStates
<1>7. CASE UNCHANGED vars
  BY <1>7 DEF vars, TypeOK
<1>8. QED
  BY <1>1, <1>2, <1>3, <1>4, <1>5, <1>6, <1>7 DEF Next, FeederNext, BuilderNext

LEMMA HasEntryStep == TypeOK /\ HasEntry /\ [Next]_vars => HasEntry'
<1> SUFFICES ASSUME TypeOK, HasEntry, [Next]_vars PROVE HasEntry'
  OBVIOUS
<1> USE PipelineAssumption DEF HasEntry
<1>1. ASSUME NEW w \in Workers, Feed(w) PROVE HasEntry'
  BY <1>1 DEF Feed, TypeOK
<1>2. ASSUME NEW w \in Workers, WorkerNext(w) PROVE HasEntry'
  BY <1>2 DEF WorkerNext, Process, WorkerFails, WorkerCancelled, WorkerEnds, TypeOK
<1>3. ASSUME NEW w \in Workers, Collect(w) PROVE HasEntry'
  BY <1>3 DEF Collect, TypeOK
<1>4. CASE UNCHANGED <<worker, item>>
  BY <1>4
<1>5. QED
  BY <1>1, <1>2, <1>3, <1>4
     DEF Next, FeederNext, BuilderNext, FeederStops, CloseResults, CheckErrors, Publish, Cancel, vars

LEMMA ClosedLastStep == TypeOK /\ ClosedLast /\ [Next]_vars => ClosedLast'
<1> SUFFICES ASSUME TypeOK, ClosedLast, [Next]_vars PROVE ClosedLast'
  OBVIOUS
<1> USE DEF ClosedLast
<1>1. ASSUME NEW w \in Workers, Feed(w) PROVE ClosedLast'
  BY <1>1 DEF Feed, TypeOK
<1>2. ASSUME NEW w \in Workers, WorkerNext(w) PROVE ClosedLast'
  BY <1>2 DEF WorkerNext, Process, WorkerFails, WorkerCancelled, WorkerEnds, TypeOK
<1>3. ASSUME NEW w \in Workers, Collect(w) PROVE ClosedLast'
  BY <1>3 DEF Collect, TypeOK
<1>4. CASE CloseResults \/ CheckErrors \/ Publish
  BY <1>4 DEF CloseResults, CheckErrors, Publish
<1>5. CASE UNCHANGED <<closed, worker, builder>>
  BY <1>5
<1>6. QED
  BY <1>1, <1>2, <1>3, <1>4, <1>5
     DEF Next, FeederNext, BuilderNext, FeederStops, Cancel, vars

LEMMA EndsForAReasonStep ==
  TypeOK /\ ClosedLast /\ EndsForAReason /\ [Next]_vars => EndsForAReason'
<1> SUFFICES ASSUME TypeOK, ClosedLast, EndsForAReason, [Next]_vars PROVE EndsForAReason'
  OBVIOUS
<1> USE PipelineAssumption DEF EndsForAReason
<1>1. ASSUME NEW w \in Workers, Feed(w) PROVE EndsForAReason'
  BY <1>1 DEF Feed, TypeOK
<1>2. ASSUME NEW w \in Workers, WorkerNext(w) PROVE EndsForAReason'
  BY <1>2 DEF WorkerNext, Process, WorkerFails, WorkerCancelled, WorkerEnds, TypeOK
<1>3. ASSUME NEW w \in Workers, Collect(w) PROVE EndsForAReason'
  BY <1>3 DEF Collect, TypeOK
<1>4. CASE FeederStops \/ CloseResults \/ Cancel
  BY <1>4 DEF FeederStops, CloseResults, Cancel
<1>5. CASE CheckErrors \/ Publish
  BY <1>5 DEF CheckErrors, Publish
<1>6. CASE UNCHANGED vars
  BY <1>6 DEF vars
<1>7. QED
  BY <1>1, <1>2, <1>3, <1>4, <1>5, <1>6 DEF Next, FeederNext, BuilderNext

LEMMA AccountedStep ==
  TypeOK /\ HasEntry /\ Accounted /\ [Next]_vars => Accounted'
<1> SUFFICES ASSUME TypeOK, HasEntry, Accounted, [Next]_vars,
                    builder' = "collecting", ~errCh', ~cancelled',
                    NEW n \in 1 .. fed'
             PROVE  n \in Collected' \/ InHand(n)'
  BY DEF Accounted
<1> USE PipelineAssumption
<1>1. builder = "collecting" /\ ~errCh /\ ~cancelled
  BY DEF Next, FeederNext, BuilderNext, WorkerNext, Feed, FeederStops, Process, WorkerFails,
         WorkerCancelled, WorkerEnds, CloseResults, Collect, CheckErrors, Publish, Cancel, vars
<1>2. ASSUME n \in 1 .. fed PROVE n \in Collected \/ InHand(n)
  BY <1>1, <1>2 DEF Accounted
<1>3. ASSUME NEW w \in Workers, Feed(w) PROVE n \in Collected' \/ InHand(n)'
  <2>1. Collected' = Collected
    BY <1>3 DEF Feed, Collected
  <2>2. item'[w] = fed + 1 /\ \A v \in Workers \ {w} : item'[v] = item[v]
    BY <1>3 DEF Feed, TypeOK
  <2>3. item[w] = 0
    BY <1>3 DEF Feed, HasEntry
  <2>4. CASE n = fed + 1
    BY <2>2, <2>4 DEF InHand
  <2>5. CASE n # fed + 1
    <3>1. n \in 1 .. fed /\ n # 0
      BY <1>3, <2>5 DEF Feed, TypeOK
    <3>2. QED
      BY <1>2, <2>1, <2>2, <2>3, <3>1 DEF InHand
  <2>6. QED
    BY <2>4, <2>5
<1>4. ASSUME NEW w \in Workers, WorkerNext(w) PROVE n \in Collected' \/ InHand(n)'
  <2>1. UNCHANGED <<fed, item, batch>>
    BY <1>1, <1>4 DEF WorkerNext, Process, WorkerFails, WorkerCancelled, WorkerEnds
  <2>2. QED
    BY <1>2, <2>1 DEF Collected, InHand
<1>5. ASSUME NEW w \in Workers, Collect(w) PROVE n \in Collected' \/ InHand(n)'
  <2>1. n \in 1 .. fed /\ n # 0
    BY <1>5 DEF Collect, TypeOK
  <2>2. \A v \in Workers \ {w} : item'[v] = item[v]
    BY <1>5 DEF Collect, TypeOK
  <2>3. item[w] \in Entries
    BY <1>5 DEF Collect, HasEntry, TypeOK, Entries
  <2>4. /\ DOMAIN batch' = 1 .. Len(batch) + 1
        /\ batch'[Len(batch) + 1] = item[w]
        /\ \A i \in DOMAIN batch : i \in DOMAIN batch' /\ batch'[i] = batch[i]
    BY <1>5, <2>3 DEF Collect, TypeOK
  <2>5. item[w] \in Collected' /\ Collected \subseteq Collected'
    <3>1. Len(batch) \in Nat
      BY DEF TypeOK
    <3>2. Len(batch) + 1 \in DOMAIN batch'
      BY <2>4, <3>1
    <3>3. QED
      BY <2>4, <3>2 DEF Collected
  <2>6. QED
    BY <1>2, <2>1, <2>2, <2>5 DEF InHand
<1>6. CASE UNCHANGED <<fed, item, batch>>
  BY <1>2, <1>6 DEF Collected, InHand
<1>7. QED
  BY <1>3, <1>4, <1>5, <1>6
     DEF Next, FeederNext, BuilderNext, FeederStops, CloseResults, CheckErrors, Publish, Cancel, vars

(* Only CheckErrors starts to publish: every worker has ended, so that the *)
(* feeder is done, everything was fed and nothing is in hand any more.     *)
LEMMA CompleteStep == PipelineInv /\ [Next]_vars => CompleteUnlessCancelled'
<1> SUFFICES ASSUME PipelineInv, [Next]_vars, ~cancelled',
                    builder' \in {"publishing", "ready"}
             PROVE  Collected' = Entries
  BY DEF CompleteUnlessCancelled, PublishesAll
<1> USE PipelineAssumption
<1>1. ~cancelled
  BY DEF Next, FeederNext, BuilderNext, WorkerNext, Feed, FeederStops, Process, WorkerFails,
         WorkerCancelled, WorkerEnds, CloseResults, Collect, CheckErrors, Publish, Cancel, vars
<1>2. CASE CheckErrors
  <2>1. builder = "collecting" /\ closed /\ ~errCh /\ batch' = batch
    BY <1>2 DEF CheckErrors
  <2>2. \A w \in Workers : worker[w] = "exited" /\ item[w] = 0
    BY <2>1 DEF PipelineInv, ClosedLast, HasEntry
  <2>3. fed = NumEntries
    BY <1>1, <2>1, <2>2 DEF PipelineInv, EndsForAReason
  <2>4. \A n \in Entries : n \in Collected
    <3>1. \A n \in 1 .. fed : n \in Collected \/ InHand(n)
      BY <1>1, <2>1 DEF PipelineInv, Accounted
    <3>2. \A n \in 1 .. fed : ~InHand(n)
      BY <2>2 DEF InHand, PipelineInv, TypeOK
    <3>3. QED
      BY <2>3, <3>1, <3>2 DEF Entries
  <2>5. Collected \subseteq Entries
    BY DEF Collected, PipelineInv, TypeOK
  <2>6. QED
    BY <2>1, <2>4, <2>5 DEF Collected
<1>3. CASE ~CheckErrors
  <2>1. batch' = batch /\ builder \in {"publishing", "ready"}
    BY <1>3 DEF Next, FeederNext, BuilderNext, WorkerNext, Feed, FeederStops, Process, WorkerFails,
         WorkerCancelled, WorkerEnds, CloseResults, Collect, Publish, Cancel, vars
  <2>2. Collected = Entries
    BY <1>1, <2>1 DEF PipelineInv, CompleteUnlessCancelled, PublishesAll
  <2>3. QED
    BY <2>1, <2>2 DEF Collected
<1>4. QED
  BY <1>2, <1>3

LEMMA InvStep == PipelineInv /\ [Next]_vars => PipelineInv'
BY TypeStep, HasEntryStep, ClosedLastStep, EndsForAReasonStep, AccountedStep, CompleteStep
DEF PipelineInv

(* The inductive invariant of a build.                                     *)
THEOREM PipelineInvariant == Spec => []PipelineInv
<1>1. Init => PipelineInv
  BY InitInv
<1>2. PipelineInv /\ [Next]_vars => PipelineInv'
  BY InvStep
<1>3. QED
  BY <1>1, <1>2, PTL DEF Spec

(* A build whose context lives publishes only when it has collected every  *)
(* file of the commit, whatever its workers fail at and in what order.     *)
THEOREM BuildCompletes == Spec => []CompleteUnlessCancelled
<1>1. PipelineInv => CompleteUnlessCancelled
  BY DEF PipelineInv
<1>2. QED
  BY <1>1, PipelineInvariant, PTL

(* `results` is closed after the last send: no worker can panic on it.     *)
THEOREM ResultsClosedLast == Spec => []NoSendAfterClose
<1>1. PipelineInv => NoSendAfterClose
  BY DEF PipelineInv, ClosedLast, NoSendAfterClose
<1>2. QED
  BY <1>1, PipelineInvariant, PTL
================================================================================
