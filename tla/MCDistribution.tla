--------------------------- MODULE MCDistribution ---------------------------
(* A small instance of WorkDistribution for TLC. *)
EXTENDS WorkDistribution, Sequences, TLC

\* Ids that are far apart, the second so large that adding to it wraps.
OnePool == (0 :> <<40, 254>>)

\* The hypothesis of the theorem about the job map holds of this instance.
ASSUME IdsFarApart == JobsFarApart

DeviceSymmetry == Permutations(Devices)
=============================================================================
