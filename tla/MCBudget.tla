------------------------------ MODULE MCBudget ------------------------------
(* Budget for TLC; the constants are in the configurations. *)
EXTENDS Budget
=============================================================================
