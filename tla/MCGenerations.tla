--------------------------- MODULE MCGenerations ----------------------------
(* Generations for TLC; the constants are in the configurations. *)
EXTENDS Generations
=============================================================================
