--------------------------- MODULE FileLock_proofs ---------------------------
(* Theorems about lock files, for any owners and any limits.                *)
EXTENDS FileLock, TLAPS

(* The variables keep their types.                                          *)
THEOREM LockTyping == Spec => []TypeOK
<1>1. Init => TypeOK
  BY LockAssumption DEF Init, TypeOK, Locations, Old
<1>2. TypeOK /\ [Next]_vars => TypeOK'
  <2> SUFFICES ASSUME TypeOK, [Next]_vars
               PROVE  TypeOK'
    OBVIOUS
  <2> USE LockAssumption DEF TypeOK, Locations, Old, Go
  <2>1. ASSUME NEW o \in Owners, Begin(o)
        PROVE  TypeOK'
    BY <2>1 DEF Begin
  <2>2. ASSUME NEW o \in Owners, Acquiring(o)
        PROVE  TypeOK'
    BY <2>2 DEF Acquiring, StatStale, StatFresh, RemoveStale, Create, Refuse,
         Sleep, Poll
  <2>3. ASSUME NEW o \in Owners, Release(o) \/ Restart(o)
        PROVE  TypeOK'
    BY <2>3 DEF Release, Restart
  <2>4. ASSUME NEW o \in Owners, Crash(o)
        PROVE  TypeOK'
    BY <2>4 DEF Crash
  <2>5. CASE Tick
    BY <2>5 DEF Tick
  <2>6. CASE UNCHANGED vars
    BY <2>6 DEF vars
  <2>7. QED
    BY <2>1, <2>2, <2>3, <2>4, <2>5, <2>6 DEF Next
<1>3. QED
  BY <1>1, <1>2, PTL DEF Spec

(* While nobody dies and nobody holds the lock longer than StaleAfter, the  *)
(* file on disk is always the one of the current holder, it is as old as    *)
(* the holding, and so it is never taken for abandoned.                     *)
PromptInv ==
  crashes = 0 =>
    /\ \A o \in Owners : pc[o] = "held" => creator = o
    /\ \A o \in Owners : pc[o] # "remove" /\ pc[o] # "dead"
    /\ creator # Nobody => /\ creator \in Owners
                           /\ pc[creator] = "held"
                           /\ age = held[creator]

(* Every step keeps it: a file under a holder is never stale, so nobody     *)
(* gets to os.Remove.                                                       *)
LEMMA PromptStep ==
  ASSUME HoldLimit <= StaleAfter, TypeOK, PromptInv, [Next]_vars
  PROVE  PromptInv'
<1> USE LockAssumption, NobodyAssumption DEF PromptInv, TypeOK, Go
<1> SUFFICES ASSUME crashes' = 0
             PROVE  PromptInv'
  OBVIOUS
<1>1. crashes = 0 /\ ~Stale
  <2>1. crashes = 0
    BY DEF Next, Begin, Acquiring, StatStale, StatFresh, RemoveStale, Create,
       Refuse, Sleep, Poll, Release, Crash, Restart, Tick, vars
  <2>2. QED
    BY <2>1 DEF Stale
<1>2. ASSUME NEW o \in Owners,
             Begin(o) \/ StatFresh(o) \/ Refuse(o) \/ Sleep(o) \/ Poll(o)
      PROVE  PromptInv'
  BY <1>1, <1>2 DEF Begin, StatFresh, Refuse, Sleep, Poll
<1>3. ASSUME NEW o \in Owners, Create(o)
      PROVE  PromptInv'
  BY <1>1, <1>3 DEF Create
<1>4. ASSUME NEW o \in Owners, Release(o)
      PROVE  PromptInv'
  BY <1>1, <1>4 DEF Release
<1>5. ASSUME NEW o \in Owners, StatStale(o) \/ RemoveStale(o) \/ Crash(o) \/ Restart(o)
      PROVE  FALSE
  BY <1>1, <1>5 DEF StatStale, RemoveStale, Crash, Restart
<1>6. CASE Tick
  <2>1. creator # Nobody => age # Old
    BY <1>1, <1>6 DEF Tick, Old
  <2>2. QED
    BY <1>1, <1>6, <2>1 DEF Tick
<1>7. CASE UNCHANGED vars
  BY <1>1, <1>7 DEF vars
<1>8. QED
  BY <1>2, <1>3, <1>4, <1>5, <1>6, <1>7 DEF Next, Acquiring

(* When holders finish within StaleAfter, the lock excludes until somebody  *)
(* dies, and a holder keeps its file.                                       *)
THEOREM PromptExclusion ==
  HoldLimit <= StaleAfter => (Spec => [](MutualExclusion /\ HolderOwnsFile))
<1> SUFFICES ASSUME HoldLimit <= StaleAfter
             PROVE  Spec => [](MutualExclusion /\ HolderOwnsFile)
  OBVIOUS
<1>1. Init => PromptInv
  BY NobodyAssumption DEF Init, PromptInv
<1>2. TypeOK /\ PromptInv /\ [Next]_vars => PromptInv'
  BY PromptStep
<1>3. PromptInv => MutualExclusion /\ HolderOwnsFile
  BY DEF PromptInv, HolderOwnsFile, MutualExclusion
<1>4. QED
  BY <1>1, <1>2, <1>3, LockTyping, PTL DEF Spec
===============================================================================
