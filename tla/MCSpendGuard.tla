----------------------------- MODULE MCSpendGuard -----------------------------
(* Two jobs and two requests in flight, with caps a few charges reach.     *)
EXTENDS SpendGuard, TLC

SmallCap == [a \in Vendor \cup Windows |-> IF a = "day" THEN 4 ELSE 3]

Sameness == Permutations(Job) \cup Permutations(Vendor) \cup Permutations(Caller)
=============================================================================
