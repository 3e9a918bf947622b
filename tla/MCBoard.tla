------------------------------- MODULE MCBoard -------------------------------
(* Small instances of MinerBoard for TLC. *)
EXTENDS MinerBoard

CONSTANTS e1, e2, e3

MCIntervals == <<1, 2, 3>>
\* The primary pool may switch extranonces, the secondary has one.
MCEnonces == [p \in Pools |-> IF p = 0 THEN {e1, e2} ELSE {e3}]
MCTwoJobs == [p \in Pools |-> 2]
=============================================================================
