------------------------------- MODULE MCGate -------------------------------
(* Gate for TLC; the constants are in the configurations. *)
EXTENDS Gate

=============================================================================
