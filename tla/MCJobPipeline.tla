---------------------------- MODULE MCJobPipeline ----------------------------
(* Two handlers on one job, checked for every interleaving.                *)
EXTENDS JobPipeline, TLC

Handlers == Permutations(Proc)
=============================================================================
