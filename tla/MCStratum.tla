------------------------------ MODULE MCStratum ------------------------------
(* Small instances of StratumManager for TLC. *)
EXTENDS StratumManager
=============================================================================
