----------------------------- MODULE BuildPipeline -----------------------------
(***************************************************************************)
(* The goroutines of one indexer.Build (internal/indexer/indexer.go): a    *)
(* feeder, a pool of workers, a goroutine that closes `results` after the  *)
(* last worker, and the builder itself, which collects the results, looks  *)
(* into errCh and publishes.  All channels but errCh are unbuffered, so    *)
(* sending and receiving are one step of the two parties.                  *)
(*                                                                         *)
(* A worker looks an entry up (by Git OID, then by SHA-256), reads it and  *)
(* parses it; what it finds out is left to SnapshotBuild.                  *)
(***************************************************************************)
EXTENDS Naturals, FiniteSets, Sequences

CONSTANTS Workers,     \* the parser workers
          NumEntries,  \* files of the commit
          MayFail,     \* a lookup or read may fail
          MayCancel    \* the context may be cancelled or time out

ASSUME PipelineAssumption ==
  /\ Workers # {}
  /\ NumEntries \in Nat
  /\ MayFail \in BOOLEAN
  /\ MayCancel \in BOOLEAN

VARIABLES
  fed,        \* entries handed to a worker so far
  feeder,     \* "feeding", or "done": the feeder has closed `jobs`
  worker,     \* what each worker does
  item,       \* the entry a worker has in hand (0: none)
  closed,     \* `results` is closed
  errCh,      \* an error is buffered in errCh
  cancelled,  \* ctx.Done() is closed
  batch,      \* entries in the order they were collected
  builder     \* the goroutine that called Build

vars == <<fed, feeder, worker, item, closed, errCh, cancelled, batch, builder>>

Entries == 1 .. NumEntries

WorkerStates  == {"idle", "working", "sending", "exited"}
BuilderStates == {"collecting", "publishing", "ready", "failed"}

Init ==
  /\ fed = 0
  /\ feeder = "feeding"
  /\ worker = [w \in Workers |-> "idle"]
  /\ item = [w \in Workers |-> 0]
  /\ closed = FALSE
  /\ errCh = FALSE
  /\ cancelled = FALSE
  /\ batch = <<>>
  /\ builder = "collecting"

-----------------------------------------------------------------------------
(* The feeder: hand over the next entry, stop on ctx.Done(), or finish.    *)
Feed(w) ==
  /\ feeder = "feeding"
  /\ fed < NumEntries
  /\ worker[w] = "idle"
  /\ fed' = fed + 1
  /\ worker' = [worker EXCEPT ![w] = "working"]
  /\ item' = [item EXCEPT ![w] = fed + 1]
  /\ UNCHANGED <<feeder, closed, errCh, cancelled, batch, builder>>

(* Mutant: the feeder does not watch ctx.Done().                           *)
FeederIgnoresCancel ==
  /\ feeder = "feeding"
  /\ fed = NumEntries
  /\ feeder' = "done"
  /\ UNCHANGED <<fed, worker, item, closed, errCh, cancelled, batch, builder>>

FeederStops ==
  /\ feeder = "feeding"
  /\ fed = NumEntries \/ cancelled
  /\ feeder' = "done"
  /\ UNCHANGED <<fed, worker, item, closed, errCh, cancelled, batch, builder>>

-----------------------------------------------------------------------------
(* A worker.                                                               *)

(* Reused or parsed: the result is ready to be sent.                       *)
Process(w) ==
  /\ worker[w] = "working"
  /\ worker' = [worker EXCEPT ![w] = "sending"]
  /\ UNCHANGED <<fed, feeder, item, closed, errCh, cancelled, batch, builder>>

(* A lookup or the read fails: leave the error in errCh unless it holds    *)
(* one already, and stop.                                                  *)
WorkerFails(w) ==
  /\ MayFail
  /\ worker[w] = "working"
  /\ errCh' = TRUE
  /\ worker' = [worker EXCEPT ![w] = "exited"]
  /\ item' = [item EXCEPT ![w] = 0]
  /\ UNCHANGED <<fed, feeder, closed, cancelled, batch, builder>>

(* `case <-ctx.Done(): return` instead of sending the result.              *)
WorkerCancelled(w) ==
  /\ cancelled
  /\ worker[w] = "sending"
  /\ worker' = [worker EXCEPT ![w] = "exited"]
  /\ item' = [item EXCEPT ![w] = 0]
  /\ UNCHANGED <<fed, feeder, closed, errCh, cancelled, batch, builder>>

(* `range jobs` ends when the feeder has closed it.                        *)
WorkerEnds(w) ==
  /\ feeder = "done"
  /\ worker[w] = "idle"
  /\ worker' = [worker EXCEPT ![w] = "exited"]
  /\ UNCHANGED <<fed, feeder, item, closed, errCh, cancelled, batch, builder>>

(* Mutant: `results` is closed when the feeder ends, not after wg.Wait.    *)
CloseResultsEarly ==
  /\ ~closed
  /\ feeder = "done"
  /\ closed' = TRUE
  /\ UNCHANGED <<fed, feeder, worker, item, errCh, cancelled, batch, builder>>

(* Mutant: the closer waits for the feeder too.                            *)
CloseResultsAfterFeeder ==
  /\ ~closed
  /\ feeder = "done"
  /\ \A w \in Workers : worker[w] = "exited"
  /\ closed' = TRUE
  /\ UNCHANGED <<fed, feeder, worker, item, errCh, cancelled, batch, builder>>

(* wg.Wait(); close(results)                                               *)
CloseResults ==
  /\ ~closed
  /\ \A w \in Workers : worker[w] = "exited"
  /\ closed' = TRUE
  /\ UNCHANGED <<fed, feeder, worker, item, errCh, cancelled, batch, builder>>

-----------------------------------------------------------------------------
(* The builder.                                                            *)

(* The next result is received and the worker takes another entry.         *)
Collect(w) ==
  /\ builder = "collecting"
  /\ worker[w] = "sending"
  /\ batch' = Append(batch, item[w])
  /\ worker' = [worker EXCEPT ![w] = "idle"]
  /\ item' = [item EXCEPT ![w] = 0]
  /\ UNCHANGED <<fed, feeder, closed, errCh, cancelled, builder>>

(* Mutant: errCh is not consulted.                                         *)
CheckErrorsSkipped ==
  /\ builder = "collecting"
  /\ closed
  /\ builder' = "publishing"
  /\ UNCHANGED <<fed, feeder, worker, item, closed, errCh, cancelled, batch>>

(* `results` is closed: an error in errCh ends the build, anything else    *)
(* lets it go on.  ctx is not consulted.                                   *)
CheckErrors ==
  /\ builder = "collecting"
  /\ closed
  /\ builder' = IF errCh THEN "failed" ELSE "publishing"
  /\ errCh' = FALSE
  /\ UNCHANGED <<fed, feeder, worker, item, closed, cancelled, batch>>

(* objects.Publish, branch.Publish and writeManifest, or one of them fails.*)
Publish ==
  /\ builder = "publishing"
  /\ builder' \in {"ready", "failed"}
  /\ UNCHANGED <<fed, feeder, worker, item, closed, errCh, cancelled, batch>>

-----------------------------------------------------------------------------
(* The deadline of `wowdoc init` passes, or the caller cancels.            *)
Cancel ==
  /\ MayCancel
  /\ ~cancelled
  /\ cancelled' = TRUE
  /\ UNCHANGED <<fed, feeder, worker, item, closed, errCh, batch, builder>>

WorkerNext(w) ==
  \/ Process(w)
  \/ WorkerFails(w)
  \/ WorkerCancelled(w)
  \/ WorkerEnds(w)

BuilderNext == (\E w \in Workers : Collect(w)) \/ CheckErrors \/ Publish

FeederNext == (\E w \in Workers : Feed(w)) \/ FeederStops

Next ==
  \/ FeederNext
  \/ \E w \in Workers : WorkerNext(w)
  \/ CloseResults
  \/ BuilderNext
  \/ Cancel

Spec == Init /\ [][Next]_vars

(* Every goroutine that can run is scheduled.                              *)
FairSpec ==
  /\ Spec
  /\ WF_vars(FeederNext)
  /\ \A w \in Workers : WF_vars(WorkerNext(w))
  /\ WF_vars(CloseResults)
  /\ WF_vars(BuilderNext)

-----------------------------------------------------------------------------
(* Properties.                                                             *)

(* The variables have their types.                                         *)
TypeOK ==
  /\ fed \in 0 .. NumEntries
  /\ feeder \in {"feeding", "done"}
  /\ worker \in [Workers -> WorkerStates]
  /\ item \in [Workers -> 0 .. NumEntries]
  /\ closed \in BOOLEAN
  /\ errCh \in BOOLEAN
  /\ cancelled \in BOOLEAN
  /\ batch \in Seq(Entries)
  /\ builder \in BuilderStates

Collected == {batch[i] : i \in DOMAIN batch}

(* A build that publishes has collected every file of the commit: a        *)
(* snapshot that is marked ready is complete.                              *)
PublishesAll ==
  builder \in {"publishing", "ready"} => Collected = Entries

(* As long as the context lives it is: a failing worker makes Build fail.  *)
CompleteUnlessCancelled == ~cancelled => PublishesAll

(* Nobody sends on `results` after it was closed, which would be a panic.  *)
NoSendAfterClose ==
  closed => \A w \in Workers : worker[w] \notin {"working", "sending"}

(* Build returns, whatever fails and whenever the context is cancelled.    *)
BuildReturns == <>(builder \in {"ready", "failed"})

(* Without failing workers the feeder and the workers end as well: a build *)
(* leaves no goroutine behind (init runs many builds in one process).      *)
GoroutinesEnd ==
  <>(errCh \/ builder = "failed" \/ (feeder = "done" /\ closed))
==============================================================================
