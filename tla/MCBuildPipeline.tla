---------------------------- MODULE MCBuildPipeline ----------------------------
(* Instances of BuildPipeline for TLC; the workers are model values of the *)
(* cfg files.                                                              *)
EXTENDS BuildPipeline
==============================================================================
