----------------------------- MODULE MCMirrorSync -----------------------------
(* Instances of MirrorSync for TLC (the values are in the configurations). *)
EXTENDS MirrorSync
==============================================================================
