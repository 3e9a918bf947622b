---------------------------- MODULE SlaveRegistry ----------------------------
(***************************************************************************)
(* What the master's registry promises, without radio, timers or tasks: a  *)
(* table of leases.  A device without a lease may be granted the first     *)
(* free slot, leases are revoked only by freeing their slots, and a        *)
(* restart frees all of them.                                              *)
(***************************************************************************)
EXTENDS Integers

CONSTANTS Devices, NoDevice, NumSlots

VARIABLE lease      \* slot -> device or NoDevice

LeaseSlots == 1 .. NumSlots
Leased(i) == lease[i] # NoDevice

LeaseInit == lease = [i \in LeaseSlots |-> NoDevice]

Grant(i, d) ==
  /\ \A j \in LeaseSlots : lease[j] # d
  /\ ~Leased(i)
  /\ \A j \in 1 .. (i - 1) : Leased(j)
  /\ lease' = [lease EXCEPT ![i] = d]

Revoke(S) == lease' = [i \in LeaseSlots |-> IF i \in S THEN NoDevice ELSE lease[i]]

LeaseNext ==
  \/ \E i \in LeaseSlots, d \in Devices : Grant(i, d)
  \/ \E S \in SUBSET LeaseSlots : Revoke(S)

LeaseSpec == LeaseInit /\ [][LeaseNext]_lease

=============================================================================
