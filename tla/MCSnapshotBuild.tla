--------------------------- MODULE MCSnapshotBuild ---------------------------
(* Instances of SnapshotBuild for TLC.  Two snapshots share a blob; one    *)
(* has it under two paths.                                                 *)
EXTENDS SnapshotBuild, TLC

CONSTANTS s1, s2, pa, pb, shared, other, retail, classic

OneProduct  == (s1 :> retail) @@ (s2 :> retail)
TwoProducts == (s1 :> retail) @@ (s2 :> classic)

Trees == (s1 :> {<<pa, shared>>, <<pb, shared>>}) @@
         (s2 :> {<<pa, shared>>, <<pb, other>>})
==============================================================================
