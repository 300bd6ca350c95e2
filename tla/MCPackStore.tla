----------------------------- MODULE MCPackStore -----------------------------
(* Instances of PackStore for TLC.                                         *)
EXTENDS PackStore, TLC

CONSTANTS p1, p2, t1, t2, t3

OwnerTwoProcs == (t1 :> p1) @@ (t2 :> p2) @@ (t3 :> p1)
==============================================================================
