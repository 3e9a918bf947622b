---------------------------- MODULE MCMembership ----------------------------
(* Small instances of ClusterMembership for TLC. *)
EXTENDS ClusterMembership, TLC

\* The slaves are interchangeable in every safety property.
SlaveSymmetry == Permutations(Slaves)
=============================================================================
