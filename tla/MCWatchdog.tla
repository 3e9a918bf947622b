----------------------------- MODULE MCWatchdog -----------------------------
(* Small instances of ClusterWatchdog for TLC. *)
EXTENDS ClusterWatchdog

Dial(f, v) == [d \in Dials |-> IF d = "freq" THEN f ELSE v]
MinSetting == Dial(4, 11)
Steps == Dial(2, 2)
\* Less than a step above the minimum in one dial, at it in the other.
UserSetting == Dial(5, 11)
=============================================================================
