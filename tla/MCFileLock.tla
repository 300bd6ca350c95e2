------------------------------ MODULE MCFileLock ------------------------------
(* Instances of FileLock for TLC; the owners are model values of the cfg   *)
(* files.                                                                  *)
EXTENDS FileLock
==============================================================================
