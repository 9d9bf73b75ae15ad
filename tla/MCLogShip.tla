----------------------------- MODULE MCLogShip ------------------------------
(* LogShip for TLC; the constants are in the configuration. *)
EXTENDS LogShip
=============================================================================
