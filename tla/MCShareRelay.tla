---------------------------- MODULE MCShareRelay ----------------------------
(* The instance of ShareRelay for TLC has no symmetry set, because it also *)
(* checks a liveness property.                                             *)
EXTENDS ShareRelay
=============================================================================
