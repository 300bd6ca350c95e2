------------------------------- MODULE FileLock -------------------------------
(***************************************************************************)
(* The lock files of wowdoc (internal/lock/lock.go) and the polling loop   *)
(* around them (acquireSharedContentLock in internal/store/branch.go).     *)
(*                                                                         *)
(* A lock is a file.  Acquire reads its age, removes it when it is older   *)
(* than StaleAfter and then creates it exclusively; three system calls     *)
(* that other processes interleave with.  Release removes the path.  A     *)
(* process that dies leaves its file behind.                               *)
(*                                                                         *)
(* Time is the age of the file and of each waiter's deadline, counted in   *)
(* units and saturating just above the limit it is compared with.          *)
(***************************************************************************)
EXTENDS Naturals

CONSTANTS Owners,      \* processes or goroutines that want the lock
          Waiters,     \* those that poll (the shared content lock)
          StaleAfter,  \* age above which a lock file is taken for abandoned
          WaitLimit,   \* how long a waiter polls
          HoldLimit,   \* longest time a holder keeps the lock
          MaxCrashes   \* bound on the number of owners that die

ASSUME LockAssumption ==
  /\ Waiters \subseteq Owners
  /\ StaleAfter \in Nat
  /\ WaitLimit \in Nat
  /\ HoldLimit \in Nat
  /\ MaxCrashes \in Nat

Nobody == "nobody"

ASSUME NobodyAssumption == Nobody \notin Owners

VARIABLES
  pc,       \* where each owner is in Acquire
  creator,  \* who created the lock file that is on disk, or Nobody
  age,      \* age of that file
  waited,   \* time since a waiter computed its deadline
  held,     \* time since an owner has got the lock
  crashes   \* owners that died so far

vars == <<pc, creator, age, waited, held, crashes>>

Locations == {"idle", "stat", "remove", "create", "sleep", "held", "refused", "dead"}

Old == StaleAfter + 1

Init ==
  /\ pc = [o \in Owners |-> "idle"]
  /\ creator = Nobody
  /\ age = 0
  /\ waited = [o \in Owners |-> 0]
  /\ held = [o \in Owners |-> 0]
  /\ crashes = 0

Go(o, from, to) ==
  /\ pc[o] = from
  /\ pc' = [pc EXCEPT ![o] = to]

(* An operation starts: the deadline of a waiter is set.                   *)
Begin(o) ==
  /\ pc[o] \in {"idle", "refused"}
  /\ pc' = [pc EXCEPT ![o] = "stat"]
  /\ waited' = [waited EXCEPT ![o] = 0]
  /\ UNCHANGED <<creator, age, held, crashes>>

(* Mutant: a file is stale as soon as it reaches the limit.                *)
StaleAtLimit == creator # Nobody /\ age >= StaleAfter

Stale == creator # Nobody /\ age > StaleAfter

(* Mutant: the result of os.Remove is taken for granted.                   *)
StatStaleKept(o) ==
  /\ Stale
  /\ Go(o, "stat", "create")
  /\ UNCHANGED <<creator, age, waited, held, crashes>>

(* os.Stat and the comparison of the modification time.                    *)
StatStale(o) ==
  /\ Stale
  /\ Go(o, "stat", "remove")
  /\ UNCHANGED <<creator, age, waited, held, crashes>>

StatFresh(o) ==
  /\ ~Stale
  /\ Go(o, "stat", "create")
  /\ UNCHANGED <<creator, age, waited, held, crashes>>

(* os.Remove of whatever is at the path now.                               *)
RemoveStale(o) ==
  /\ Go(o, "remove", "create")
  /\ creator' = Nobody
  /\ age' = 0
  /\ UNCHANGED <<waited, held, crashes>>

(* O_CREATE|O_EXCL succeeds when there is no file.                         *)
Create(o) ==
  /\ creator = Nobody
  /\ Go(o, "create", "held")
  /\ creator' = o
  /\ age' = 0
  /\ held' = [held EXCEPT ![o] = 0]
  /\ UNCHANGED <<waited, crashes>>

(* The file exists: operation_in_progress.  A waiter sleeps and polls      *)
(* again until its deadline has passed.                                    *)
Refuse(o) ==
  /\ creator # Nobody
  /\ o \notin Waiters \/ waited[o] > WaitLimit
  /\ Go(o, "create", "refused")
  /\ UNCHANGED <<creator, age, waited, held, crashes>>

Sleep(o) ==
  /\ creator # Nobody
  /\ o \in Waiters
  /\ waited[o] <= WaitLimit
  /\ Go(o, "create", "sleep")
  /\ UNCHANGED <<creator, age, waited, held, crashes>>

Poll(o) ==
  /\ Go(o, "sleep", "stat")
  /\ UNCHANGED <<creator, age, waited, held, crashes>>

(* Release removes the path without looking whose file it is.              *)
Release(o) ==
  /\ Go(o, "held", "idle")
  /\ creator' = Nobody
  /\ age' = 0
  /\ UNCHANGED <<waited, held, crashes>>

(* The process dies; deferred releases do not run.  A new one takes its    *)
(* place (the user runs the command again).                                *)
Crash(o) ==
  /\ crashes < MaxCrashes
  /\ pc[o] \notin {"idle", "refused", "dead"}
  /\ pc' = [pc EXCEPT ![o] = "dead"]
  /\ crashes' = crashes + 1
  /\ UNCHANGED <<creator, age, waited, held>>

Restart(o) ==
  /\ Go(o, "dead", "idle")
  /\ UNCHANGED <<creator, age, waited, held, crashes>>

(* Time passes; no holder outlives HoldLimit.                              *)
Tick ==
  /\ \A o \in Owners : pc[o] = "held" => held[o] < HoldLimit
  /\ age' = IF creator = Nobody \/ age = Old THEN age ELSE age + 1
  /\ waited' = [o \in Owners |->
                  IF o \in Waiters /\ waited[o] <= WaitLimit
                  THEN waited[o] + 1 ELSE waited[o]]
  /\ held' = [o \in Owners |-> IF pc[o] = "held" THEN held[o] + 1 ELSE held[o]]
  /\ UNCHANGED <<pc, creator, crashes>>

Acquiring(o) ==
  \/ StatStale(o)
  \/ StatFresh(o)
  \/ RemoveStale(o)
  \/ Create(o)
  \/ Refuse(o)
  \/ Sleep(o)
  \/ Poll(o)

Next ==
  \/ \E o \in Owners : Begin(o) \/ Acquiring(o) \/ Release(o) \/ Crash(o) \/ Restart(o)
  \/ Tick

Spec == Init /\ [][Next]_vars

(* Acquire runs on, holders finish their critical section, time passes.    *)
FairSpec ==
  /\ Spec
  /\ \A o \in Owners : WF_vars(Acquiring(o)) /\ WF_vars(Release(o))
  /\ WF_vars(Tick)

-----------------------------------------------------------------------------
(* Properties.                                                             *)

(* The variables have their types.                                         *)
TypeOK ==
  /\ pc \in [Owners -> Locations]
  /\ creator \in Owners \cup {Nobody}
  /\ age \in 0 .. Old
  /\ waited \in [Owners -> 0 .. WaitLimit + 1]
  /\ held \in [Owners -> 0 .. HoldLimit]
  /\ crashes \in 0 .. MaxCrashes

(* As long as nobody has died, two operations never run under the same     *)
(* lock ("another process owns this operation").  After a crash they may:  *)
(* of two callers that find the abandoned file, the second one removes the *)
(* file the first has created meanwhile.                                   *)
MutualExclusion ==
  crashes = 0 =>
    \A o, q \in Owners : pc[o] = "held" /\ pc[q] = "held" => o = q

(* Until then a holder that finishes within StaleAfter keeps its file:     *)
(* nobody else has removed or replaced it.                                 *)
HolderOwnsFile ==
  crashes = 0 => \A o \in Owners : pc[o] = "held" => creator = o

(* A file left by a process that died can be taken over: the lock is never *)
(* blocked for good once somebody asks for it after StaleAfter.            *)
ReclaimAfterCrash ==
  \A o, q \in Owners :
    (pc[o] = "stat" /\ Stale /\ creator = q) ~> (creator # q \/ pc[o] = "dead")
==============================================================================
