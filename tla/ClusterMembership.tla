-------------------------- MODULE ClusterMembership --------------------------
(***************************************************************************)
(* Membership of the ESP-NOW cluster: the master's slave registry          *)
(* (cluster_master.cpp), each slave's registration state                   *)
(* (cluster_slave.cpp), the cluster tasks that drive both (cluster.cpp)    *)
(* and the lossy radio with its bounded receive queues                     *)
(* (cluster_espnow.cpp).                                                   *)
(*                                                                         *)
(* Slot i of the model is s_slaves[i - 1]; since the code gives that slot  *)
(* slave_id i, slots and slave ids are the same numbers here and 0 is "no  *)
(* id".  A timestamp is represented by its age, the value of now_ms() -    *)
(* timestamp, which grows with the ticks of the device that keeps it and   *)
(* saturates above the timeout it is compared with.                        *)
(***************************************************************************)
EXTENDS Integers, Sequences, FiniteSets

CONSTANTS
  Slaves,         \* the slave devices, identified by their MAC address
  NoMac,          \* the content of an inactive slot
  MAX_SLAVES,     \* CLUSTER_MAX_SLAVES, number of slots
  RX_QUEUE_SIZE,  \* capacity of every device's receive queue
  SLAVE_TIMEOUT,  \* CLUSTER_SLAVE_TIMEOUT_MS, in ticks
  WORK_TIMEOUT,   \* CLUSTER_WORK_TIMEOUT_MS, in ticks
  TIME_MOD,       \* 2^64 in the code: timestamps are uint64_t
  LockWait,       \* bound: ticks timeout_check may wait for s_slaves_mutex
  MaxFaults       \* bound: restarts and clock steps in one behaviour

ASSUME MembershipAssumption ==
  /\ NoMac \notin Slaves
  /\ MAX_SLAVES \in Nat \ {0}
  /\ RX_QUEUE_SIZE \in Nat \ {0}
  /\ SLAVE_TIMEOUT \in Nat
  /\ WORK_TIMEOUT \in Nat
  /\ LockWait \in Nat
  /\ MaxFaults \in Nat
  /\ TIME_MOD \in Nat
  /\ TIME_MOD > 2 * (SLAVE_TIMEOUT + LockWait + 1)

Slots == 1 .. MAX_SLAVES

\* Ages are exact up to one above the value the code compares them with
\* (for the registry, after the lag of timeout_check is subtracted).
HbCap == SLAVE_TIMEOUT + LockWait + 1
WorkCap == WORK_TIMEOUT + 1
Never == -1                  \* s_last_work_ms = 0: no timestamp
Idle == -1                   \* the master's timeout check is not running

MasterFrames == [type : {"register"}, mac : Slaves]
                  \cup [type : {"heartbeat"}, mac : Slaves, id : 0 .. MAX_SLAVES]
SlaveFrames == [type : {"beacon", "nack"}]
                 \cup [type : {"ack", "work"}, id : Slots]

VARIABLES
  holder,      \* slot -> MAC of its slave, NoMac when inactive
  hbAge,       \* slot -> age of last_heartbeat_ms
  peers,       \* the master's ESP-NOW peer list, without the broadcast peer
  masterRx,    \* the master's receive queue
  rxRetrigger, \* its receive task still owes the retrigger of on_register
  distSlot,    \* slot distribute_work is at under s_slaves_mutex, 0: free
  checkLag,    \* ticks since timeout_check read now_ms(), or Idle
  discovered,  \* slave -> s_master_discovered
  registered,  \* slave -> s_registered
  slaveId,     \* slave -> s_slave_id
  workAge,     \* slave -> age of s_last_work_ms, or Never
  clearing,    \* slave -> check_reconnect decided to deregister, not yet done
  slaveRx,     \* slave -> receive queue
  faults       \* restarts and clock steps so far

masterVars == <<holder, hbAge, peers, rxRetrigger, distSlot, checkLag>>
slaveVars == <<discovered, registered, slaveId, workAge, clearing>>
vars == <<masterVars, masterRx, slaveVars, slaveRx, faults>>

Active(i) == holder[i] # NoMac

\* slave->slave_id = free_slot + 1.
IdOffByOne(i) == i - 1       \* mutant: the 0-based index is sent as id
IdOf(i) == i

\* The slots on_register finds for a MAC.
SlotsForgotten(s) == {}      \* mutant: the MAC is not looked up
SlotsOf(s) == {i \in Slots : holder[i] = s}

\* Nobody is in distribute_work, the one long holder of s_slaves_mutex.
NoLock == TRUE               \* mutant: registry handlers do not lock
RegistryFree == distSlot = 0

-----------------------------------------------------------------------------
(* The radio.  A frame sent is lost in the air (ok = FALSE) or handed to   *)
(* espnow_recv_cb, which drops it when the receive queue is full.          *)

Enqueue(q, f, ok) == IF ok /\ Len(q) < RX_QUEUE_SIZE THEN Append(q, f) ELSE q

ToMaster(f, ok) == masterRx' = Enqueue(masterRx, f, ok)

\* esp_now_send to a MAC that is not in the peer list fails.
ToSlave(s, f, ok, plist) ==
  slaveRx' = [slaveRx EXCEPT ![s] = Enqueue(@, f, ok /\ s \in plist)]

\* cluster_espnow_add_peer.
PeerForgotten(plist, s) == plist    \* mutant: the peer is not added
AddPeer(plist, s) == plist \cup {s}

\* A broadcast reaches the slaves in got.
Broadcast(f, got) ==
  slaveRx' = [s \in Slaves |-> Enqueue(slaveRx[s], f, s \in got)]

-----------------------------------------------------------------------------
(* The master.                                                             *)

Init ==
  /\ holder = [i \in Slots |-> NoMac]
  /\ hbAge = [i \in Slots |-> 0]
  /\ peers = {}
  /\ masterRx = <<>>
  /\ rxRetrigger = FALSE
  /\ distSlot = 0
  /\ checkLag = Idle
  /\ discovered = [s \in Slaves |-> FALSE]
  /\ registered = [s \in Slaves |-> FALSE]
  /\ slaveId = [s \in Slaves |-> 0]
  /\ workAge = [s \in Slaves |-> Never]
  /\ clearing = [s \in Slaves |-> FALSE]
  /\ slaveRx = [s \in Slaves |-> <<>>]
  /\ faults = 0

\* cluster_task, master branch: the discovery beacon.  A slave that already
\* knows its master ignores beacons, so only the others' queues record it.
Beacon ==
  /\ \E got \in SUBSET {s \in Slaves : ~discovered[s]} :
       got # {} /\ Broadcast([type |-> "beacon"], got)
  /\ UNCHANGED <<masterVars, masterRx, slaveVars, faults>>

\* cluster_master_timeout_check, first part: now_ms() is read before the lock.
TimeoutCheckReadClock ==
  /\ checkLag = Idle
  /\ checkLag' = 0
  /\ UNCHANGED <<holder, hbAge, peers, rxRetrigger, distSlot, masterRx,
                 slaveVars, slaveRx, faults>>

\* now - last_heartbeat_ms with the clock value read checkLag ticks ago, in
\* uint64_t arithmetic.
Elapsed(i) == (hbAge[i] - checkLag) % TIME_MOD

\* mutant: >= for >
TimedOutEarly == {i \in Slots : Active(i) /\ Elapsed(i) >= SLAVE_TIMEOUT}
TimedOut == {i \in Slots : Active(i) /\ Elapsed(i) > SLAVE_TIMEOUT}

\* cluster_master_timeout_check, second part: under the lock, every slot
\* that timed out loses its peer entry and is zeroed.
TimeoutCheckEvict ==
  /\ checkLag # Idle
  /\ RegistryFree
  /\ peers' = peers \ {holder[i] : i \in TimedOut}
  /\ holder' = [i \in Slots |-> IF i \in TimedOut THEN NoMac ELSE holder[i]]
  /\ hbAge' = [i \in Slots |-> IF i \in TimedOut THEN 0 ELSE hbAge[i]]
  /\ checkLag' = Idle
  /\ UNCHANGED <<rxRetrigger, distSlot, masterRx, slaveVars, slaveRx, faults>>

\* espnow_rx_task takes the next frame; it handles one frame at a time and
\* the handlers below need s_slaves_mutex.
Receive(type) ==
  /\ ~rxRetrigger
  /\ RegistryFree
  /\ masterRx # <<>>
  /\ Head(masterRx).type = type
  /\ masterRx' = Tail(masterRx)

\* cluster_master_on_register, a MAC that holds a slot: refresh, answer
\* with the same id, and redistribute.
OnRegisterKnown(i, ok) ==
  /\ Receive("register")
  /\ LET s == Head(masterRx).mac IN
       /\ i \in SlotsOf(s)
       /\ hbAge' = [hbAge EXCEPT ![i] = 0]
       /\ ToSlave(s, [type |-> "ack", id |-> IdOf(i)], ok, peers)
  /\ rxRetrigger' = TRUE
  /\ UNCHANGED <<holder, peers, distSlot, checkLag, slaveVars, faults>>

LastFree(i) == ~Active(i) /\ \A j \in (i + 1) .. MAX_SLAVES : Active(j)  \* mutant
FirstFree(i) == ~Active(i) /\ \A j \in 1 .. (i - 1) : Active(j)

\* cluster_master_on_register, a new MAC: the first free slot.
OnRegisterNew(i, ok) ==
  /\ Receive("register")
  /\ LET s == Head(masterRx).mac IN
       /\ SlotsOf(s) = {}
       /\ FirstFree(i)
       /\ holder' = [holder EXCEPT ![i] = s]
       /\ hbAge' = [hbAge EXCEPT ![i] = 0]
       /\ peers' = AddPeer(peers, s)
       /\ ToSlave(s, [type |-> "ack", id |-> IdOf(i)], ok, peers')
  /\ rxRetrigger' = TRUE
  /\ UNCHANGED <<distSlot, checkLag, slaveVars, faults>>

\* cluster_master_on_register, no free slot: a rejection, sent without
\* adding the sender as a peer.
OnRegisterFull(ok) ==
  /\ Receive("register")
  /\ LET s == Head(masterRx).mac IN
       /\ SlotsOf(s) = {}
       /\ \A i \in Slots : Active(i)
       /\ ToSlave(s, [type |-> "nack"], ok, peers)
  /\ UNCHANGED <<masterVars, slaveVars, faults>>

\* cluster_master_on_heartbeat, the id of an active slot: the slot is
\* refreshed whatever MAC the frame came from.
OnHeartbeatKnown(i) ==
  /\ Receive("heartbeat")
  /\ Active(i)
  /\ IdOf(i) = Head(masterRx).id
  /\ hbAge' = [hbAge EXCEPT ![i] = 0]
  /\ UNCHANGED <<holder, peers, rxRetrigger, distSlot, checkLag,
                 slaveVars, slaveRx, faults>>

\* cluster_master_on_heartbeat, any other id: the sender is made a peer
\* again and gets a NACK.
OnHeartbeatUnknown(ok) ==
  /\ Receive("heartbeat")
  /\ LET m == Head(masterRx) IN
       /\ \A i \in Slots : ~(Active(i) /\ IdOf(i) = m.id)
       /\ peers' = AddPeer(peers, m.mac)
       /\ ToSlave(m.mac, [type |-> "nack"], ok, peers')
  /\ UNCHANGED <<holder, hbAge, rxRetrigger, distSlot, checkLag,
                 slaveVars, faults>>

\* cluster_master_distribute_work takes the lock.  Its callers are the
\* retrigger that on_register owes, the cluster task every
\* CLUSTER_WORK_RESEND_BEACONS beacons, and job creation at any time.
DistributeStart ==
  /\ distSlot = 0
  /\ \E i \in Slots : Active(i)
  /\ distSlot' = 1
  /\ rxRetrigger' \in {FALSE, rxRetrigger}
  /\ UNCHANGED <<holder, hbAge, peers, checkLag, masterRx, slaveVars, slaveRx, faults>>

\* The retrigger finds no pool job, or no active slave is left.
RetriggerNothing ==
  /\ rxRetrigger
  /\ rxRetrigger' = FALSE
  /\ UNCHANGED <<holder, hbAge, peers, distSlot, checkLag, masterRx,
                 slaveVars, slaveRx, faults>>

\* One iteration of its loop: an active slot's work is broadcast with that
\* slot's id as target; after the last slot the lock is released.
DistributeSlot(got) ==
  /\ distSlot # 0
  /\ distSlot' = IF distSlot = MAX_SLAVES THEN 0 ELSE distSlot + 1
  /\ IF Active(distSlot) THEN Broadcast([type |-> "work", id |-> IdOf(distSlot)], got)
                         ELSE got = {} /\ UNCHANGED slaveRx
  /\ UNCHANGED <<holder, hbAge, peers, rxRetrigger, checkLag, masterRx,
                 slaveVars, faults>>

-----------------------------------------------------------------------------
(* A slave.                                                                *)

WorkOverdueIfZero(s) == workAge[s] = Never   \* mutant: inverted test for 0
WorkOverdue(s) == workAge[s] # Never /\ workAge[s] > WORK_TIMEOUT

\* cluster_slave_check_reconnect, the test: both values are read under
\* s_state_mutex, which is then released.  A negative outcome changes
\* nothing, and the loop goes on with SlaveSend.
CheckReconnect(s) ==
  /\ ~clearing[s]
  /\ registered[s]
  /\ WorkOverdue(s)
  /\ clearing' = [clearing EXCEPT ![s] = TRUE]
  /\ UNCHANGED <<masterVars, masterRx, discovered, registered, slaveId, workAge,
                 slaveRx, faults>>

\* mutant: only the timestamp is reset
ClearTimerOnly(s) ==
  /\ clearing[s]
  /\ workAge' = [workAge EXCEPT ![s] = Never]
  /\ clearing' = [clearing EXCEPT ![s] = FALSE]
  /\ UNCHANGED <<masterVars, masterRx, discovered, registered, slaveId, slaveRx, faults>>

\* cluster_slave_check_reconnect, the deregistration: the lock is taken
\* again and the values are not read again.
ClearRegistration(s) ==
  /\ clearing[s]
  /\ registered' = [registered EXCEPT ![s] = FALSE]
  /\ workAge' = [workAge EXCEPT ![s] = Never]
  /\ clearing' = [clearing EXCEPT ![s] = FALSE]
  /\ UNCHANGED <<masterVars, masterRx, discovered, slaveId, slaveRx, faults>>

\* The rest of the slave's loop: cluster_slave_try_register when it is not
\* registered, cluster_slave_send_heartbeat when it is.  (The code may do
\* both in one iteration, when an ACK arrives between the two tests of
\* is_registered; here that is two iterations with no time between them.)
TryRegister(s, ok) ==
  /\ ~clearing[s]
  /\ ~registered[s]
  /\ discovered[s]
  /\ ToMaster([type |-> "register", mac |-> s], ok)
  /\ UNCHANGED <<masterVars, slaveVars, slaveRx, faults>>

SendHeartbeat(s, ok) ==
  /\ ~clearing[s]
  /\ registered[s]
  /\ ToMaster([type |-> "heartbeat", mac |-> s, id |-> slaveId[s]], ok)
  /\ UNCHANGED <<masterVars, slaveVars, slaveRx, faults>>

\* The slave's espnow_rx_task takes the next frame.
SlaveReceive(s, type) ==
  /\ slaveRx[s] # <<>>
  /\ Head(slaveRx[s]).type = type
  /\ slaveRx' = [slaveRx EXCEPT ![s] = Tail(@)]

OnBeacon(s) ==
  /\ SlaveReceive(s, "beacon")
  /\ discovered' = [discovered EXCEPT ![s] = TRUE]
  /\ UNCHANGED <<masterVars, masterRx, registered, slaveId, workAge, clearing, faults>>

\* cluster_slave_on_ack with accepted: id, flag and work timer are set
\* together.
OnAck(s) ==
  /\ SlaveReceive(s, "ack")
  /\ slaveId' = [slaveId EXCEPT ![s] = Head(slaveRx[s]).id]
  /\ registered' = [registered EXCEPT ![s] = TRUE]
  /\ workAge' = [workAge EXCEPT ![s] = 0]
  /\ UNCHANGED <<masterVars, masterRx, discovered, clearing, faults>>

\* cluster_slave_on_ack without accepted: the id and the timer stay.
OnNack(s) ==
  /\ SlaveReceive(s, "nack")
  /\ registered' = [registered EXCEPT ![s] = FALSE]
  /\ UNCHANGED <<masterVars, masterRx, discovered, slaveId, workAge, clearing, faults>>

\* cluster_slave_on_work: work for another id, or while not registered, is
\* ignored; other work restarts the work timer.  (The code releases the lock
\* between test and assignment; a deregistration that falls in between leaves
\* a timestamp that nothing reads before on_ack sets it again.)
OnWork(s) ==
  /\ SlaveReceive(s, "work")
  /\ workAge' = [workAge EXCEPT ![s] =
       IF registered[s] /\ Head(slaveRx[s]).id = slaveId[s] THEN 0 ELSE @]
  /\ UNCHANGED <<masterVars, masterRx, discovered, registered, slaveId, clearing, faults>>

-----------------------------------------------------------------------------
(* Time and restarts.                                                      *)

Older(age, cap) == IF age < cap THEN age + 1 ELSE age

\* Time passes on the master.
MasterTick ==
  /\ checkLag < LockWait
  /\ hbAge' = [i \in Slots |-> IF Active(i) THEN Older(hbAge[i], HbCap) ELSE hbAge[i]]
  /\ checkLag' = IF checkLag = Idle THEN Idle ELSE checkLag + 1
  /\ UNCHANGED <<holder, peers, rxRetrigger, distSlot, masterRx, slaveVars, slaveRx, faults>>

\* Time passes on a slave; its work timer is read only while registered.
SlaveTick(s) ==
  /\ registered[s]
  /\ workAge[s] # Never
  /\ workAge' = [workAge EXCEPT ![s] = Older(@, WorkCap)]
  /\ UNCHANGED <<masterVars, masterRx, discovered, registered, slaveId, clearing,
                 slaveRx, faults>>

\* SNTP sets the wall clock, from which now_ms() is taken, by more than any
\* timeout: every timestamp is then decades old, or lies in the future, which
\* the unsigned difference turns into an age just as large.
MasterClockStep ==
  /\ faults < MaxFaults
  /\ checkLag = Idle
  /\ faults' = faults + 1
  /\ hbAge' = [i \in Slots |-> IF Active(i) THEN HbCap ELSE hbAge[i]]
  /\ UNCHANGED <<holder, peers, rxRetrigger, distSlot, checkLag, masterRx,
                 slaveVars, slaveRx>>

SlaveClockStep(s) ==
  /\ faults < MaxFaults
  /\ faults' = faults + 1
  /\ workAge[s] # Never
  /\ workAge' = [workAge EXCEPT ![s] = WorkCap]
  /\ UNCHANGED <<masterVars, masterRx, discovered, registered, slaveId, clearing,
                 slaveRx>>

\* The master restarts: cluster_master_init zeroes the registry, ESP-NOW
\* starts with the broadcast peer only.
MasterReboot ==
  /\ faults < MaxFaults
  /\ faults' = faults + 1
  /\ holder' = [i \in Slots |-> NoMac]
  /\ hbAge' = [i \in Slots |-> 0]
  /\ peers' = {}
  /\ masterRx' = <<>>
  /\ rxRetrigger' = FALSE
  /\ distSlot' = 0
  /\ checkLag' = Idle
  /\ UNCHANGED <<slaveVars, slaveRx>>

\* A slave restarts, of itself or by cluster_slave_on_restart:
\* cluster_slave_init resets everything.
SlaveReboot(s) ==
  /\ faults < MaxFaults
  /\ faults' = faults + 1
  /\ discovered' = [discovered EXCEPT ![s] = FALSE]
  /\ registered' = [registered EXCEPT ![s] = FALSE]
  /\ slaveId' = [slaveId EXCEPT ![s] = 0]
  /\ workAge' = [workAge EXCEPT ![s] = Never]
  /\ clearing' = [clearing EXCEPT ![s] = FALSE]
  /\ slaveRx' = [slaveRx EXCEPT ![s] = <<>>]
  /\ UNCHANGED <<masterVars, masterRx>>

MasterReceives(ok) ==
  \/ \E i \in Slots : OnRegisterKnown(i, ok) \/ OnRegisterNew(i, ok)
  \/ OnRegisterFull(ok)
  \/ OnHeartbeatUnknown(ok)

SlaveReceives(s) ==
  OnBeacon(s) \/ OnAck(s) \/ OnNack(s) \/ OnWork(s)

SlaveSends(s, ok) == TryRegister(s, ok) \/ SendHeartbeat(s, ok)

Next ==
  \/ Beacon
  \/ TimeoutCheckReadClock
  \/ TimeoutCheckEvict
  \/ \E ok \in BOOLEAN : MasterReceives(ok)
  \/ \E i \in Slots : OnHeartbeatKnown(i)
  \/ DistributeStart
  \/ RetriggerNothing
  \/ \E got \in SUBSET Slaves : DistributeSlot(got)
  \/ \E s \in Slaves : CheckReconnect(s) \/ ClearRegistration(s)
  \/ \E s \in Slaves, ok \in BOOLEAN : SlaveSends(s, ok)
  \/ \E s \in Slaves : SlaveReceives(s)
  \/ MasterTick
  \/ \E s \in Slaves : SlaveTick(s)
  \/ MasterClockStep \/ MasterReboot
  \/ \E s \in Slaves : SlaveClockStep(s) \/ SlaveReboot(s)

Spec == Init /\ [][Next]_vars

-----------------------------------------------------------------------------
(* Fairness.  FreeRTOS runs every ready task and the clocks advance;       *)
(* nothing is assumed of the radio, nor of restarts.                       *)

TasksRun ==
  /\ WF_vars(MasterTick)
  /\ SF_vars((\E i \in Slots : OnHeartbeatKnown(i)) \/ \E ok \in BOOLEAN : MasterReceives(ok))
  /\ SF_vars(TimeoutCheckEvict)
  /\ WF_vars(RetriggerNothing)
  /\ WF_vars(\E got \in SUBSET Slaves : DistributeSlot(got))
  /\ \A s \in Slaves :
       /\ WF_vars(CheckReconnect(s) \/ ClearRegistration(s))
       /\ WF_vars(\E ok \in BOOLEAN : SlaveSends(s, ok))
       /\ WF_vars(SlaveReceives(s))
       /\ WF_vars(SlaveTick(s))

\* The radio may lose any number of frames, but a frame that is sent again
\* and again gets through.
AckDelivered(s) ==
  /\ \E i \in Slots : OnRegisterKnown(i, TRUE) \/ OnRegisterNew(i, TRUE)
  /\ slaveRx'[s] # slaveRx[s]
RadioDelivers ==
  \A s \in Slaves :
    /\ SF_vars(Beacon /\ slaveRx'[s] # slaveRx[s])
    /\ SF_vars(TryRegister(s, TRUE))
    /\ SF_vars(AckDelivered(s))

\* Distributions are hundreds of milliseconds apart, and a slave's receive
\* task empties its queue in between.
Paced == distSlot = 0 /\ distSlot' # 0 => \A s \in Slaves : slaveRx[s] = <<>>

TaskSpec == Spec /\ TasksRun
LiveSpec == Init /\ [][Next /\ Paced]_vars /\ TasksRun /\ RadioDelivers

-----------------------------------------------------------------------------
(* Properties.                                                             *)

RegistryType ==
  /\ holder \in [Slots -> Slaves \cup {NoMac}]
  /\ hbAge \in [Slots -> 0 .. HbCap]
  /\ peers \in SUBSET Slaves
TaskType ==
  /\ distSlot \in 0 .. MAX_SLAVES
  /\ checkLag \in Idle .. LockWait
  /\ faults \in 0 .. MaxFaults
FlagType ==
  /\ rxRetrigger \in BOOLEAN
  /\ discovered \in [Slaves -> BOOLEAN]
  /\ registered \in [Slaves -> BOOLEAN]
  /\ clearing \in [Slaves -> BOOLEAN]
SlaveType ==
  /\ slaveId \in [Slaves -> 0 .. MAX_SLAVES]
  /\ workAge \in [Slaves -> Never .. WorkCap]
QueueType ==
  /\ masterRx \in Seq(MasterFrames)
  /\ slaveRx \in [Slaves -> Seq(SlaveFrames)]

\* Every variable keeps its type; in particular every id on the air or in a
\* slave is one that slave_id = free_slot + 1 can produce.
TypeOK == RegistryType /\ TaskType /\ FlagType /\ SlaveType /\ QueueType

\* However registrations are repeated, lost or interleaved with evictions,
\* the registry (s_slaves) never lists one device twice.
OneSlotPerDevice ==
  \A i, j \in Slots : Active(i) /\ holder[i] = holder[j] => i = j

\* The master can always answer the device in an active slot: evicting one
\* slot (remove_peer) never takes away the peer entry of another.
ActiveSlavesArePeers == \A i \in Slots : Active(i) => holder[i] \in peers

\* A slave that believes it is registered always has its work timer armed,
\* so the self-heal of check_reconnect (which ignores a zero s_last_work_ms)
\* can fire, whatever ACK, NACK, work and timeout interleave.
SelfHealArmed ==
  \A s \in Slaves : registered[s] => workAge[s] # Never /\ slaveId[s] \in Slots

\* distribute_work sees one registry from its first slot to its last: no
\* slot is granted or evicted while worker indices are being handed out.
DistributionSnapshot ==
  [][distSlot # 0 /\ distSlot' # 0 => UNCHANGED holder]_vars

\* The registry implements the abstract table of leases: whatever the radio
\* and the tasks do, a slot changes only by granting the first free one to a
\* device that holds none, or by being freed; it never passes from one
\* device to another in one step.
Registry == INSTANCE SlaveRegistry
              WITH lease <- holder, Devices <- Slaves, NoDevice <- NoMac,
                   NumSlots <- MAX_SLAVES
ImplementsRegistry == Registry!LeaseSpec

\* timeout_check evicts a slave only after more than SLAVE_TIMEOUT without a
\* heartbeat or registration, counted on the master's clock at the time it
\* read it, with one exception: a slave that is heard between that and the
\* lock, since the age then wraps around (a restart of the master or a step
\* of its clock is no eviction).
EvictOnlyStale ==
  [][\A i \in Slots : Active(i) /\ holder'[i] = NoMac /\ faults' = faults
                        => hbAge[i] > SLAVE_TIMEOUT + checkLag \/ hbAge[i] < checkLag]_vars

\* A slave the master no longer lists does not stay convinced that it is
\* registered: NACK or work timeout ends that state.
Zombie(s) == registered[s] /\ SlotsOf(s) = {}
NoZombieForever == \A s \in Slaves : Zombie(s) ~> ~Zombie(s)

\* A slave that is not registered is registered again eventually.
EventuallyRegistered == \A s \in Slaves : ~registered[s] ~> registered[s]

=============================================================================
