-------------------------- MODULE MCNanoSettlement --------------------------
(* Two jobs billed by two handlers, and two blocks: one worth any invoice, *)
(* one worth only the cheaper.                                             *)
EXTENDS NanoSettlement, TLC

CONSTANTS big, small

Values == big :> 2 @@ small :> 1

Sameness == Permutations(Job) \cup Permutations(Handler)
=============================================================================
