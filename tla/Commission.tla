----------------------------- MODULE Commission ------------------------------
(***************************************************************************)
(* What a customer of SOLVENT may rely on for one job, whatever runs it:   *)
(* the money is taken once; then the brief is released or the money is     *)
(* given back, once, and never both.                                       *)
(***************************************************************************)
EXTENDS Naturals

VARIABLES received,   \* times the price was booked as revenue
          returned,   \* times it was booked as refunded
          released    \* the brief may be retrieved

cvars == <<received, returned, released>>

Init == received = 0 /\ returned = 0 /\ released = FALSE

Take ==
    /\ received = 0
    /\ received' = 1
    /\ UNCHANGED <<returned, released>>

Release ==
    /\ received = 1 /\ returned = 0
    /\ released' = TRUE
    /\ UNCHANGED <<received, returned>>

GiveBack ==
    /\ received = 1 /\ returned = 0 /\ ~released
    /\ returned' = 1
    /\ UNCHANGED <<received, released>>

Next == Take \/ Release \/ GiveBack

Spec == Init /\ [][Next]_cvars
=============================================================================
