----------------------- MODULE ClusterMembershipProofs -----------------------
(***************************************************************************)
(* Proofs about ClusterMembership, for every number of slaves and slots,   *)
(* every queue size, timeout and lock delay.                               *)
(***************************************************************************)
EXTENDS ClusterMembership, TLAPS

LEMMA SlotFacts ==
  /\ Slots \subseteq Nat
  /\ \A i \in Slots : IdOf(i) \in Slots /\ IdOf(i) \in 0 .. MAX_SLAVES
  /\ HbCap \in Nat
  /\ WorkCap \in Nat
BY MembershipAssumption DEF Slots, IdOf, HbCap, WorkCap

\* A queue that gets a frame of its type, or drops it, keeps its type.
LEMMA EnqueueType ==
  ASSUME NEW S, NEW q \in Seq(S), NEW f \in S, NEW ok
  PROVE  Enqueue(q, f, ok) \in Seq(S)
BY DEF Enqueue

LEMMA InitTypeOK == Init => TypeOK
<1> SUFFICES ASSUME Init PROVE TypeOK
  OBVIOUS
<1>1. RegistryType
  BY SlotFacts DEF Init, RegistryType
<1>2. TaskType
  BY MembershipAssumption DEF Init, TaskType, Idle
<1>3. FlagType
  BY Zenon DEF Init, FlagType
<1>4. SlaveType
  BY MembershipAssumption, SlotFacts DEF Init, SlaveType, Never
<1>5. QueueType
  BY DEF Init, QueueType
<1>6. QED
  BY <1>1, <1>2, <1>3, <1>4, <1>5 DEF TypeOK

-----------------------------------------------------------------------------
(* Which actions can change which group of variables.                      *)

LEMMA RegistryFrame ==
  ASSUME Next
  PROVE  \/ TimeoutCheckEvict
         \/ \E i \in Slots, ok \in BOOLEAN : OnRegisterKnown(i, ok) \/ OnRegisterNew(i, ok)
         \/ \E i \in Slots : OnHeartbeatKnown(i)
         \/ \E ok \in BOOLEAN : OnHeartbeatUnknown(ok)
         \/ MasterTick
         \/ MasterClockStep
         \/ MasterReboot
         \/ UNCHANGED <<holder, hbAge, peers>>
BY Zenon DEF Next, MasterReceives, SlaveSends, SlaveReceives, masterVars,
   Beacon, TimeoutCheckReadClock, OnRegisterFull, DistributeStart,
   RetriggerNothing, DistributeSlot, CheckReconnect, ClearRegistration,
   TryRegister, SendHeartbeat, OnBeacon, OnAck, OnNack, OnWork, SlaveTick,
   SlaveClockStep, SlaveReboot

LEMMA RegistryTypeStep ==
  ASSUME TypeOK, Next
  PROVE  RegistryType'
<1> USE SlotFacts DEF TypeOK, RegistryType
<1>1. CASE TimeoutCheckEvict
  BY <1>1 DEF TimeoutCheckEvict
<1>2. ASSUME NEW i \in Slots, NEW ok \in BOOLEAN, OnRegisterKnown(i, ok)
      PROVE  RegistryType'
  BY <1>2 DEF OnRegisterKnown
<1>3. ASSUME NEW i \in Slots, NEW ok \in BOOLEAN, OnRegisterNew(i, ok)
      PROVE  RegistryType'
  <2>1. Head(masterRx).mac \in Slaves
    BY <1>3 DEF OnRegisterNew, Receive, QueueType, MasterFrames
  <2>2. QED
    BY <1>3, <2>1 DEF OnRegisterNew, AddPeer
<1>4. ASSUME NEW i \in Slots, OnHeartbeatKnown(i)
      PROVE  RegistryType'
  BY <1>4 DEF OnHeartbeatKnown
<1>5. ASSUME NEW ok \in BOOLEAN, OnHeartbeatUnknown(ok)
      PROVE  RegistryType'
  <2>1. Head(masterRx).mac \in Slaves
    BY <1>5 DEF OnHeartbeatUnknown, Receive, QueueType, MasterFrames
  <2>2. QED
    BY <1>5, <2>1 DEF OnHeartbeatUnknown, AddPeer
<1>6. CASE MasterTick
  BY <1>6 DEF MasterTick, Older
<1>7. CASE MasterReboot
  BY <1>7 DEF MasterReboot
<1>8. CASE MasterClockStep
  BY <1>8 DEF MasterClockStep
<1>9. CASE UNCHANGED <<holder, hbAge, peers>>
  BY <1>9
<1>10. QED
  BY <1>1, <1>2, <1>3, <1>4, <1>5, <1>6, <1>7, <1>8, <1>9, RegistryFrame

LEMMA TaskFrame ==
  ASSUME Next
  PROVE  \/ TimeoutCheckReadClock
         \/ TimeoutCheckEvict
         \/ DistributeStart
         \/ \E got \in SUBSET Slaves : DistributeSlot(got)
         \/ MasterTick
         \/ MasterClockStep \/ MasterReboot
         \/ \E s \in Slaves : SlaveClockStep(s) \/ SlaveReboot(s)
         \/ UNCHANGED <<distSlot, checkLag, faults>>
BY Zenon DEF Next, MasterReceives, SlaveSends, SlaveReceives, masterVars,
   Beacon, OnRegisterKnown, OnRegisterNew, OnRegisterFull, OnHeartbeatKnown,
   OnHeartbeatUnknown, RetriggerNothing, CheckReconnect, ClearRegistration,
   TryRegister, SendHeartbeat, OnBeacon, OnAck, OnNack, OnWork, SlaveTick

LEMMA TaskTypeStep ==
  ASSUME TypeOK, Next
  PROVE  TaskType'
<1> USE MembershipAssumption DEF TypeOK, TaskType, Idle
<1>1. CASE TimeoutCheckReadClock
  BY <1>1 DEF TimeoutCheckReadClock
<1>2. CASE TimeoutCheckEvict
  BY <1>2 DEF TimeoutCheckEvict
<1>3. CASE DistributeStart
  BY <1>3 DEF DistributeStart
<1>4. ASSUME NEW got \in SUBSET Slaves, DistributeSlot(got)
      PROVE  TaskType'
  BY <1>4 DEF DistributeSlot
<1>5. CASE MasterTick
  BY <1>5 DEF MasterTick
<1>6. CASE MasterReboot
  BY <1>6 DEF MasterReboot
<1>7. ASSUME NEW s \in Slaves, SlaveReboot(s)
      PROVE  TaskType'
  BY <1>7 DEF SlaveReboot, masterVars
<1>8. CASE MasterClockStep
  BY <1>8 DEF MasterClockStep
<1>9. ASSUME NEW s \in Slaves, SlaveClockStep(s)
      PROVE  TaskType'
  BY <1>9 DEF SlaveClockStep, masterVars
<1>10. CASE UNCHANGED <<distSlot, checkLag, faults>>
  BY <1>10
<1>11. QED
  BY <1>1, <1>2, <1>3, <1>4, <1>5, <1>6, <1>7, <1>8, <1>9, <1>10, TaskFrame

LEMMA FlagFrame ==
  ASSUME Next
  PROVE  \/ \E i \in Slots, ok \in BOOLEAN : OnRegisterKnown(i, ok) \/ OnRegisterNew(i, ok)
         \/ DistributeStart
         \/ RetriggerNothing
         \/ \E s \in Slaves : \/ CheckReconnect(s) \/ ClearRegistration(s)
                              \/ OnBeacon(s) \/ OnAck(s) \/ OnNack(s)
                              \/ SlaveReboot(s)
         \/ MasterReboot
         \/ UNCHANGED <<rxRetrigger, discovered, registered, clearing>>
BY Zenon DEF Next, MasterReceives, SlaveSends, SlaveReceives, masterVars, slaveVars,
   Beacon, TimeoutCheckReadClock, TimeoutCheckEvict, OnRegisterFull,
   OnHeartbeatKnown, OnHeartbeatUnknown, DistributeSlot, TryRegister,
   SendHeartbeat, OnWork, MasterTick, SlaveTick, MasterClockStep, SlaveClockStep

LEMMA FlagTypeStep ==
  ASSUME TypeOK, Next
  PROVE  FlagType'
<1> USE DEF TypeOK, FlagType, masterVars, slaveVars
<1>1. ASSUME NEW i \in Slots, NEW ok \in BOOLEAN,
             OnRegisterKnown(i, ok) \/ OnRegisterNew(i, ok)
      PROVE  FlagType'
  BY <1>1, Zenon DEF OnRegisterKnown, OnRegisterNew
<1>2. CASE DistributeStart
  BY <1>2, Zenon DEF DistributeStart
<1>3. CASE RetriggerNothing
  BY <1>3, Zenon DEF RetriggerNothing
<1>4. ASSUME NEW s \in Slaves, CheckReconnect(s)
      PROVE  FlagType'
  BY <1>4, Zenon DEF CheckReconnect
<1>5. ASSUME NEW s \in Slaves, ClearRegistration(s)
      PROVE  FlagType'
  BY <1>5, Zenon DEF ClearRegistration
<1>6. ASSUME NEW s \in Slaves, OnBeacon(s)
      PROVE  FlagType'
  BY <1>6, Zenon DEF OnBeacon
<1>7. ASSUME NEW s \in Slaves, OnAck(s)
      PROVE  FlagType'
  BY <1>7, Zenon DEF OnAck
<1>8. ASSUME NEW s \in Slaves, OnNack(s)
      PROVE  FlagType'
  BY <1>8, Zenon DEF OnNack
<1>9. ASSUME NEW s \in Slaves, SlaveReboot(s)
      PROVE  FlagType'
  BY <1>9, Zenon DEF SlaveReboot
<1>10. CASE MasterReboot
  BY <1>10, Zenon DEF MasterReboot
<1>11. CASE UNCHANGED <<rxRetrigger, discovered, registered, clearing>>
  BY <1>11, Zenon
<1>12. QED
  BY <1>1, <1>2, <1>3, <1>4, <1>5, <1>6, <1>7, <1>8, <1>9, <1>10, <1>11, FlagFrame, Zenon

LEMMA SlaveFrame ==
  ASSUME Next
  PROVE  \/ \E s \in Slaves : \/ ClearRegistration(s) \/ OnAck(s) \/ OnWork(s)
                              \/ SlaveTick(s) \/ SlaveClockStep(s) \/ SlaveReboot(s)
         \/ UNCHANGED <<slaveId, workAge>>
BY Zenon DEF Next, MasterReceives, SlaveSends, SlaveReceives, slaveVars,
   Beacon, TimeoutCheckReadClock, TimeoutCheckEvict, OnRegisterKnown,
   OnRegisterNew, OnRegisterFull, OnHeartbeatKnown, OnHeartbeatUnknown,
   DistributeStart, RetriggerNothing, DistributeSlot, CheckReconnect,
   TryRegister, SendHeartbeat, OnBeacon, OnNack, MasterTick, MasterClockStep,
   MasterReboot

\* The head of a receive queue is a frame of the queue's type.
LEMMA SlaveHead ==
  ASSUME TypeOK, NEW s \in Slaves, NEW type, SlaveReceive(s, type)
  PROVE  /\ Head(slaveRx[s]) \in SlaveFrames
         /\ Head(slaveRx[s]).type = type
         /\ Tail(slaveRx[s]) \in Seq(SlaveFrames)
BY DEF SlaveReceive, TypeOK, QueueType

LEMMA AckIdInSlots ==
  ASSUME TypeOK, NEW s \in Slaves, OnAck(s)
  PROVE  Head(slaveRx[s]).id \in Slots
<1>1. Head(slaveRx[s]) \in SlaveFrames /\ Head(slaveRx[s]).type = "ack"
  BY SlaveHead DEF OnAck
<1>2. QED
  BY <1>1 DEF SlaveFrames

LEMMA SlaveTypeStep ==
  ASSUME TypeOK, Next
  PROVE  SlaveType'
<1> USE MembershipAssumption, SlotFacts DEF TypeOK, SlaveType, Never
<1>1. ASSUME NEW s \in Slaves, ClearRegistration(s)
      PROVE  SlaveType'
  BY <1>1 DEF ClearRegistration
<1>2. ASSUME NEW s \in Slaves, OnAck(s)
      PROVE  SlaveType'
  <2>1. Head(slaveRx[s]).id \in Slots
    BY <1>2, AckIdInSlots
  <2>2. QED
    BY <1>2, <2>1 DEF OnAck, Slots
<1>3. ASSUME NEW s \in Slaves, OnWork(s)
      PROVE  SlaveType'
  BY <1>3 DEF OnWork
<1>4. ASSUME NEW s \in Slaves, SlaveTick(s)
      PROVE  SlaveType'
  BY <1>4 DEF SlaveTick, Older
<1>5. ASSUME NEW s \in Slaves, SlaveReboot(s)
      PROVE  SlaveType'
  BY <1>5 DEF SlaveReboot
<1>6. ASSUME NEW s \in Slaves, SlaveClockStep(s)
      PROVE  SlaveType'
  BY <1>6 DEF SlaveClockStep
<1>7. CASE UNCHANGED <<slaveId, workAge>>
  BY <1>7
<1>8. QED
  BY <1>1, <1>2, <1>3, <1>4, <1>5, <1>6, <1>7, SlaveFrame

\* The receive queues.  A frame put into one is well formed, so the queue
\* keeps its type whether the radio delivers the frame or not.
LEMMA ToSlaveType ==
  ASSUME TypeOK, NEW s \in Slaves, NEW f \in SlaveFrames, NEW ok \in BOOLEAN,
         NEW plist, ToSlave(s, f, ok, plist)
  PROVE  slaveRx' \in [Slaves -> Seq(SlaveFrames)]
<1>1. Enqueue(slaveRx[s], f, ok /\ s \in plist) \in Seq(SlaveFrames)
  <2>1. slaveRx[s] \in Seq(SlaveFrames)
    BY DEF TypeOK, QueueType
  <2>2. QED
    BY <2>1, EnqueueType
<1>2. QED
  BY <1>1 DEF ToSlave, TypeOK, QueueType

LEMMA BroadcastType ==
  ASSUME TypeOK, NEW f \in SlaveFrames, NEW got, Broadcast(f, got)
  PROVE  slaveRx' \in [Slaves -> Seq(SlaveFrames)]
<1>1. ASSUME NEW s \in Slaves
      PROVE  Enqueue(slaveRx[s], f, s \in got) \in Seq(SlaveFrames)
  <2>1. slaveRx[s] \in Seq(SlaveFrames)
    BY DEF TypeOK, QueueType
  <2>2. QED
    BY <2>1, EnqueueType
<1>2. QED
  BY <1>1 DEF Broadcast

LEMMA ToMasterType ==
  ASSUME TypeOK, NEW f \in MasterFrames, NEW ok \in BOOLEAN, ToMaster(f, ok)
  PROVE  masterRx' \in Seq(MasterFrames)
BY EnqueueType DEF ToMaster, TypeOK, QueueType

\* The master's receive task takes a well-formed frame off its queue.
LEMMA ReceiveType ==
  ASSUME TypeOK, NEW type, Receive(type)
  PROVE  /\ Head(masterRx) \in MasterFrames
         /\ Head(masterRx).mac \in Slaves
         /\ masterRx' \in Seq(MasterFrames)
<1>1. masterRx \in Seq(MasterFrames) /\ masterRx # <<>>
  BY DEF Receive, TypeOK, QueueType
<1>2. Head(masterRx) \in MasterFrames /\ Tail(masterRx) \in Seq(MasterFrames)
  BY <1>1
<1>3. QED
  BY <1>2 DEF Receive, MasterFrames

LEMMA FrameTypes ==
  /\ [type |-> "beacon"] \in SlaveFrames
  /\ [type |-> "nack"] \in SlaveFrames
  /\ \A i \in Slots : /\ [type |-> "ack", id |-> IdOf(i)] \in SlaveFrames
                      /\ [type |-> "work", id |-> IdOf(i)] \in SlaveFrames
  /\ \A s \in Slaves : [type |-> "register", mac |-> s] \in MasterFrames
  /\ \A s \in Slaves, n \in 0 .. MAX_SLAVES :
       [type |-> "heartbeat", mac |-> s, id |-> n] \in MasterFrames
BY SlotFacts DEF SlaveFrames, MasterFrames

LEMMA QueueFrame ==
  ASSUME Next
  PROVE  \/ Beacon
         \/ \E i \in Slots, ok \in BOOLEAN : OnRegisterKnown(i, ok) \/ OnRegisterNew(i, ok)
         \/ \E ok \in BOOLEAN : OnRegisterFull(ok) \/ OnHeartbeatUnknown(ok)
         \/ \E i \in Slots : OnHeartbeatKnown(i)
         \/ \E got \in SUBSET Slaves : DistributeSlot(got)
         \/ \E s \in Slaves, ok \in BOOLEAN : TryRegister(s, ok) \/ SendHeartbeat(s, ok)
         \/ \E s \in Slaves : OnBeacon(s) \/ OnAck(s) \/ OnNack(s) \/ OnWork(s)
         \/ MasterReboot
         \/ \E s \in Slaves : SlaveReboot(s)
         \/ UNCHANGED <<masterRx, slaveRx>>
BY Zenon DEF Next, MasterReceives, SlaveSends, SlaveReceives,
   TimeoutCheckReadClock, TimeoutCheckEvict, DistributeStart, RetriggerNothing,
   CheckReconnect, ClearRegistration, MasterTick, SlaveTick, MasterClockStep,
   SlaveClockStep

LEMMA QueueTypeStep ==
  ASSUME TypeOK, Next
  PROVE  QueueType'
<1> USE FrameTypes DEF QueueType
<1>q. masterRx \in Seq(MasterFrames) /\ slaveRx \in [Slaves -> Seq(SlaveFrames)]
  BY DEF TypeOK
<1>1. CASE Beacon
  BY <1>1, <1>q, BroadcastType DEF Beacon
<1>2. ASSUME NEW i \in Slots, NEW ok \in BOOLEAN, OnRegisterKnown(i, ok)
      PROVE  QueueType'
  <2>1. Receive("register") /\ ToSlave(Head(masterRx).mac, [type |-> "ack", id |-> IdOf(i)], ok, peers)
    BY <1>2 DEF OnRegisterKnown
  <2>2. QED
    BY <2>1, ReceiveType, ToSlaveType
<1>3. ASSUME NEW i \in Slots, NEW ok \in BOOLEAN, OnRegisterNew(i, ok)
      PROVE  QueueType'
  <2>1. Receive("register") /\ ToSlave(Head(masterRx).mac, [type |-> "ack", id |-> IdOf(i)], ok, peers')
    BY <1>3 DEF OnRegisterNew
  <2>2. QED
    BY <2>1, ReceiveType, ToSlaveType
<1>4. ASSUME NEW ok \in BOOLEAN, OnRegisterFull(ok)
      PROVE  QueueType'
  <2>1. Receive("register") /\ ToSlave(Head(masterRx).mac, [type |-> "nack"], ok, peers)
    BY <1>4 DEF OnRegisterFull
  <2>2. QED
    BY <2>1, ReceiveType, ToSlaveType
<1>5. ASSUME NEW ok \in BOOLEAN, OnHeartbeatUnknown(ok)
      PROVE  QueueType'
  <2>1. Receive("heartbeat") /\ ToSlave(Head(masterRx).mac, [type |-> "nack"], ok, peers')
    BY <1>5 DEF OnHeartbeatUnknown
  <2>2. QED
    BY <2>1, ReceiveType, ToSlaveType
<1>6. ASSUME NEW i \in Slots, OnHeartbeatKnown(i)
      PROVE  QueueType'
  <2>1. Receive("heartbeat") /\ UNCHANGED slaveRx
    BY <1>6 DEF OnHeartbeatKnown
  <2>2. QED
    BY <2>1, <1>q, ReceiveType
<1>7. ASSUME NEW got \in SUBSET Slaves, DistributeSlot(got)
      PROVE  QueueType'
  <2>1. distSlot \in Slots /\ UNCHANGED masterRx
    BY <1>7, MembershipAssumption DEF DistributeSlot, TypeOK, TaskType, Slots
  <2>2. CASE Active(distSlot)
    <3>1. Broadcast([type |-> "work", id |-> IdOf(distSlot)], got)
      BY <1>7, <2>2 DEF DistributeSlot
    <3>2. QED
      BY <2>1, <3>1, <1>q, BroadcastType
  <2>3. CASE ~Active(distSlot)
    BY <1>7, <2>1, <2>3, <1>q DEF DistributeSlot
  <2>4. QED
    BY <2>2, <2>3
<1>8. ASSUME NEW s \in Slaves, NEW ok \in BOOLEAN, TryRegister(s, ok)
      PROVE  QueueType'
  <2>1. ToMaster([type |-> "register", mac |-> s], ok) /\ UNCHANGED slaveRx
    BY <1>8 DEF TryRegister
  <2>2. QED
    BY <2>1, <1>q, ToMasterType
<1>9. ASSUME NEW s \in Slaves, NEW ok \in BOOLEAN, SendHeartbeat(s, ok)
      PROVE  QueueType'
  <2>1. /\ ToMaster([type |-> "heartbeat", mac |-> s, id |-> slaveId[s]], ok)
        /\ UNCHANGED slaveRx
    BY <1>9 DEF SendHeartbeat
  <2>2. slaveId[s] \in 0 .. MAX_SLAVES
    BY DEF TypeOK, SlaveType
  <2>3. QED
    BY <2>1, <2>2, <1>q, ToMasterType
<1>10. ASSUME NEW s \in Slaves, OnBeacon(s) \/ OnAck(s) \/ OnNack(s) \/ OnWork(s)
       PROVE  QueueType'
  <2>1. PICK type : SlaveReceive(s, type)
    BY <1>10 DEF OnBeacon, OnAck, OnNack, OnWork
  <2>2. UNCHANGED masterRx
    BY <1>10 DEF OnBeacon, OnAck, OnNack, OnWork
  <2>3. Tail(slaveRx[s]) \in Seq(SlaveFrames)
    BY <2>1, SlaveHead
  <2>4. QED
    BY <2>1, <2>2, <2>3, <1>q DEF SlaveReceive
<1>11. CASE MasterReboot
  BY <1>11, <1>q DEF MasterReboot
<1>12. ASSUME NEW s \in Slaves, SlaveReboot(s)
       PROVE  QueueType'
  BY <1>12, <1>q DEF SlaveReboot
<1>13. CASE UNCHANGED <<masterRx, slaveRx>>
  BY <1>13, <1>q
<1>14. QED
  BY <1>1, <1>2, <1>3, <1>4, <1>5, <1>6, <1>7, <1>8, <1>9, <1>10, <1>11, <1>12,
     <1>13, QueueFrame

LEMMA TypeOKStutter ==
  ASSUME TypeOK, UNCHANGED vars
  PROVE  TypeOK'
BY Zenon DEF TypeOK, RegistryType, TaskType, FlagType, SlaveType, QueueType,
   vars, masterVars, slaveVars

LEMMA TypeOKStep ==
  ASSUME TypeOK, [Next]_vars
  PROVE  TypeOK'
BY RegistryTypeStep, TaskTypeStep, FlagTypeStep, SlaveTypeStep, QueueTypeStep,
   TypeOKStutter DEF TypeOK

\* Every behaviour of the cluster keeps TypeOK.
THEOREM TypeCorrect == Spec => []TypeOK
<1>1. TypeOK /\ [Next]_vars => TypeOK'
  BY TypeOKStep
<1>2. QED
  BY InitTypeOK, <1>1, PTL DEF Spec

-----------------------------------------------------------------------------
(* The registry.  ActiveSlavesArePeers alone is not inductive: evicting a  *)
(* slot removes the peer entry of its device, which another slot would     *)
(* still need if it held the same device.                                  *)

RegistryInv == OneSlotPerDevice /\ ActiveSlavesArePeers

LEMMA RegistryInvStep ==
  ASSUME TypeOK, RegistryInv, [Next]_vars
  PROVE  RegistryInv'
<1> USE DEF RegistryInv, OneSlotPerDevice, ActiveSlavesArePeers, Active
<1>t. holder \in [Slots -> Slaves \cup {NoMac}] /\ peers \in SUBSET Slaves
  BY DEF TypeOK, RegistryType
<1>1. CASE TimeoutCheckEvict
  <2>1. \A i \in Slots : holder'[i] # NoMac => i \notin TimedOut /\ holder'[i] = holder[i]
    BY <1>1 DEF TimeoutCheckEvict
  <2>2. OneSlotPerDevice'
    BY <2>1
  <2>3. ASSUME NEW i \in Slots, holder'[i] # NoMac
        PROVE  holder'[i] \in peers'
    <3>1. holder[i] \in peers /\ i \notin TimedOut
      BY <2>1, <2>3
    <3>2. \A j \in TimedOut : j \in Slots /\ Active(j) /\ holder[j] # holder[i]
      BY <2>1, <2>3 DEF TimedOut
    <3>3. QED
      BY <1>1, <2>1, <2>3, <3>1, <3>2 DEF TimeoutCheckEvict
  <2>4. QED
    BY <2>2, <2>3
<1>2. ASSUME NEW i \in Slots, NEW ok \in BOOLEAN, OnRegisterKnown(i, ok)
      PROVE  RegistryInv'
  BY <1>2 DEF OnRegisterKnown
<1>3. ASSUME NEW i \in Slots, NEW ok \in BOOLEAN, OnRegisterNew(i, ok)
      PROVE  RegistryInv'
  BY <1>3, <1>t DEF OnRegisterNew, SlotsOf, AddPeer
<1>4. ASSUME NEW i \in Slots, OnHeartbeatKnown(i)
      PROVE  RegistryInv'
  BY <1>4 DEF OnHeartbeatKnown
<1>5. ASSUME NEW ok \in BOOLEAN, OnHeartbeatUnknown(ok)
      PROVE  RegistryInv'
  BY <1>5 DEF OnHeartbeatUnknown, AddPeer
<1>6. CASE MasterTick
  BY <1>6 DEF MasterTick
<1>7. CASE MasterReboot
  BY <1>7 DEF MasterReboot
<1>8. CASE MasterClockStep
  BY <1>8 DEF MasterClockStep
<1>9. CASE UNCHANGED <<holder, hbAge, peers>>
  BY <1>9
<1>10. CASE UNCHANGED vars
  BY <1>10 DEF vars, masterVars
<1>11. QED
  BY <1>1, <1>2, <1>3, <1>4, <1>5, <1>6, <1>7, <1>8, <1>9, <1>10, RegistryFrame

LEMMA AlwaysRegistryInv == Spec => []RegistryInv
<1>1. Init => RegistryInv
  BY DEF Init, RegistryInv, OneSlotPerDevice, ActiveSlavesArePeers, Active
<1>2. TypeOK /\ RegistryInv /\ [Next]_vars => RegistryInv'
  BY RegistryInvStep
<1>3. QED
  BY <1>1, <1>2, TypeCorrect, PTL DEF Spec

\* The registry never lists a device twice, for any number of devices and
\* slots, although registrations are repeated, lost and raced by evictions.
THEOREM NoDeviceTwice == Spec => []OneSlotPerDevice
<1>1. RegistryInv => OneSlotPerDevice
  BY DEF RegistryInv
<1>2. QED
  BY <1>1, AlwaysRegistryInv, PTL

\* Every device the registry lists can be reached: no eviction takes the
\* radio peer of another slot, although the radio also has peers that are
\* not registered.
THEOREM SlavesReachable == Spec => []ActiveSlavesArePeers
<1>1. RegistryInv => ActiveSlavesArePeers
  BY DEF RegistryInv
<1>2. QED
  BY <1>1, AlwaysRegistryInv, PTL

-----------------------------------------------------------------------------
(* The slave.                                                              *)

LEMMA SelfHealFrame ==
  ASSUME Next
  PROVE  \/ \E s \in Slaves : \/ ClearRegistration(s) \/ OnAck(s) \/ OnNack(s)
                              \/ OnWork(s) \/ SlaveTick(s) \/ SlaveClockStep(s)
                              \/ SlaveReboot(s)
         \/ UNCHANGED <<registered, slaveId, workAge>>
BY Zenon DEF Next, MasterReceives, SlaveSends, SlaveReceives, slaveVars,
   Beacon, TimeoutCheckReadClock, TimeoutCheckEvict, OnRegisterKnown,
   OnRegisterNew, OnRegisterFull, OnHeartbeatKnown, OnHeartbeatUnknown,
   DistributeStart, RetriggerNothing, DistributeSlot, CheckReconnect,
   TryRegister, SendHeartbeat, OnBeacon, MasterTick, MasterClockStep, MasterReboot

LEMMA SelfHealStep ==
  ASSUME TypeOK, SelfHealArmed, [Next]_vars
  PROVE  SelfHealArmed'
<1> USE MembershipAssumption DEF SelfHealArmed, Never
<1>t. /\ registered \in [Slaves -> BOOLEAN]
      /\ slaveId \in [Slaves -> 0 .. MAX_SLAVES]
      /\ workAge \in [Slaves -> Never .. WorkCap]
  BY DEF TypeOK, FlagType, SlaveType
<1>1. ASSUME NEW s \in Slaves, ClearRegistration(s)
      PROVE  SelfHealArmed'
  BY <1>1, <1>t DEF ClearRegistration
<1>2. ASSUME NEW s \in Slaves, OnAck(s)
      PROVE  SelfHealArmed'
  <2>1. Head(slaveRx[s]).id \in Slots
    BY <1>2, AckIdInSlots
  <2>2. QED
    BY <1>2, <1>t, <2>1 DEF OnAck
<1>3. ASSUME NEW s \in Slaves, OnNack(s)
      PROVE  SelfHealArmed'
  BY <1>3, <1>t DEF OnNack
<1>4. ASSUME NEW s \in Slaves, OnWork(s)
      PROVE  SelfHealArmed'
  BY <1>4, <1>t DEF OnWork
<1>5. ASSUME NEW s \in Slaves, SlaveTick(s)
      PROVE  SelfHealArmed'
  BY <1>5, <1>t, SlotFacts DEF SlaveTick, Older
<1>6. ASSUME NEW s \in Slaves, SlaveReboot(s)
      PROVE  SelfHealArmed'
  BY <1>6, <1>t DEF SlaveReboot
<1>7. ASSUME NEW s \in Slaves, SlaveClockStep(s)
      PROVE  SelfHealArmed'
  BY <1>7, <1>t, SlotFacts DEF SlaveClockStep
<1>8. CASE UNCHANGED <<registered, slaveId, workAge>>
  BY <1>8
<1>9. CASE UNCHANGED vars
  BY <1>9 DEF vars, slaveVars
<1>10. QED
  BY <1>1, <1>2, <1>3, <1>4, <1>5, <1>6, <1>7, <1>8, <1>9, SelfHealFrame

\* The self-heal of a registered slave is never disarmed.
THEOREM SelfHealCorrect == Spec => []SelfHealArmed
<1>1. Init => SelfHealArmed
  BY DEF Init, SelfHealArmed
<1>2. TypeOK /\ SelfHealArmed /\ [Next]_vars => SelfHealArmed'
  BY SelfHealStep
<1>3. QED
  BY <1>1, <1>2, TypeCorrect, PTL DEF Spec

-----------------------------------------------------------------------------
(* What a step may do to the registry.                                     *)

\* Only eviction, a new registration and a restart change who holds a slot.
LEMMA HolderFrame ==
  ASSUME [Next]_vars
  PROVE  \/ TimeoutCheckEvict
         \/ \E i \in Slots, ok \in BOOLEAN : OnRegisterNew(i, ok)
         \/ MasterReboot
         \/ UNCHANGED holder
<1>1. CASE UNCHANGED vars
  BY <1>1 DEF vars, masterVars
<1>2. CASE Next
  BY <1>2, RegistryFrame DEF OnRegisterKnown, OnHeartbeatKnown, OnHeartbeatUnknown,
     MasterTick, MasterClockStep
<1>3. QED
  BY <1>1, <1>2

\* distribute_work hands out all its worker indices against one registry.
THEOREM DistributionIsolated == Spec => DistributionSnapshot
<1>1. [Next]_vars => [distSlot # 0 /\ distSlot' # 0 => UNCHANGED holder]_vars
  BY HolderFrame DEF TimeoutCheckEvict, OnRegisterNew, Receive, RegistryFree,
     MasterReboot
<1>2. QED
  BY <1>1, PTL DEF Spec, DistributionSnapshot

\* An eviction is due, or due to a heartbeat that overtook the check while it
\* waited for the lock; however long it may wait there is no other.
THEOREM EvictionIsSound == Spec => EvictOnlyStale
<1> DEFINE A == \A i \in Slots : Active(i) /\ holder'[i] = NoMac /\ faults' = faults
                  => hbAge[i] > SLAVE_TIMEOUT + checkLag \/ hbAge[i] < checkLag
<1>1. ASSUME TypeOK, [Next]_vars
      PROVE  A
  <2> SUFFICES ASSUME NEW i \in Slots, Active(i), holder'[i] = NoMac, faults' = faults
               PROVE  hbAge[i] > SLAVE_TIMEOUT + checkLag \/ hbAge[i] < checkLag
    OBVIOUS
  <2>1. CASE TimeoutCheckEvict
    <3>1. i \in TimedOut
      BY <2>1 DEF TimeoutCheckEvict, Active
    <3>2. checkLag \in Nat /\ hbAge[i] \in 0 .. HbCap
      BY <1>1, <2>1 DEF TimeoutCheckEvict, TypeOK, TaskType, RegistryType, Idle
    <3>3. hbAge[i] \in Nat /\ hbAge[i] < TIME_MOD /\ TIME_MOD \in Nat
      BY <3>2, MembershipAssumption DEF HbCap
    <3>4. SUFFICES ASSUME hbAge[i] >= checkLag PROVE hbAge[i] > SLAVE_TIMEOUT + checkLag
      BY <3>2, <3>3
    <3>5. hbAge[i] - checkLag \in Nat /\ hbAge[i] - checkLag < TIME_MOD
      BY <3>2, <3>3, <3>4
    <3>6. Elapsed(i) = hbAge[i] - checkLag
      BY <3>3, <3>5 DEF Elapsed
    <3>7. QED
      BY <3>1, <3>2, <3>3, <3>6, MembershipAssumption DEF TimedOut
  <2>2. ASSUME NEW j \in Slots, NEW ok \in BOOLEAN, OnRegisterNew(j, ok)
        PROVE  FALSE
    <3>1. Receive("register")
      BY <2>2 DEF OnRegisterNew
    <3>2. Head(masterRx).mac \in Slaves
      BY <1>1, <3>1, ReceiveType
    <3>3. holder \in [Slots -> Slaves \cup {NoMac}]
      BY <1>1 DEF TypeOK, RegistryType
    <3>4. QED
      BY <2>2, <3>2, <3>3, MembershipAssumption DEF OnRegisterNew, Active
  <2>3. CASE MasterReboot
    BY <1>1, <2>3 DEF MasterReboot, TypeOK, TaskType
  <2>4. CASE UNCHANGED holder
    BY <2>4 DEF Active
  <2>5. QED
    BY <1>1, <2>1, <2>2, <2>3, <2>4, HolderFrame
<1>2. TypeOK /\ [Next]_vars => [A]_vars
  BY <1>1
<1>3. QED
  BY <1>2, TypeCorrect, PTL DEF Spec, EvictOnlyStale

\* The registry with its radio, timers and tasks implements the abstract
\* table of leases of SlaveRegistry.
THEOREM RegistryRefinement == Spec => ImplementsRegistry
<1>1. Init => Registry!LeaseInit
  BY DEF Init, Registry!LeaseInit, Registry!LeaseSlots, Slots
<1>2. ASSUME TypeOK, [Next]_vars
      PROVE  [Registry!LeaseNext]_holder
  <2>1. CASE TimeoutCheckEvict
    <3>1. Registry!Revoke(TimedOut)
      BY <2>1 DEF TimeoutCheckEvict, Registry!Revoke, Registry!LeaseSlots, Slots
    <3>2. TimedOut \in SUBSET Slots
      BY DEF TimedOut
    <3>3. QED
      BY <3>1, <3>2 DEF Slots, Registry!LeaseNext, Registry!LeaseSlots
  <2>2. ASSUME NEW i \in Slots, NEW ok \in BOOLEAN, OnRegisterNew(i, ok)
        PROVE  Registry!LeaseNext
    <3>1. Receive("register")
      BY <2>2 DEF OnRegisterNew
    <3>2. Head(masterRx).mac \in Slaves
      BY <1>2, <3>1, ReceiveType
    <3>3. Registry!Grant(i, Head(masterRx).mac)
      BY <2>2 DEF OnRegisterNew, Registry!Grant, Registry!Leased, FirstFree,
         Registry!LeaseSlots, SlotsOf, Active, Slots
    <3>4. QED
      BY <3>2, <3>3 DEF Slots, Registry!LeaseNext, Registry!LeaseSlots
  <2>3. CASE MasterReboot
    <3>1. Registry!Revoke(Slots)
      BY <2>3 DEF MasterReboot, Registry!Revoke, Registry!LeaseSlots, Slots
    <3>2. QED
      BY <3>1 DEF Slots, Registry!LeaseNext, Registry!LeaseSlots
  <2>4. CASE UNCHANGED holder
    BY <2>4
  <2>5. QED
    BY <1>2, <2>1, <2>2, <2>3, <2>4, HolderFrame
<1>3. TypeOK /\ [Next]_vars => [Registry!LeaseNext]_holder
  BY <1>2
<1>4. QED
  BY <1>1, <1>3, TypeCorrect, PTL DEF Spec, ImplementsRegistry, Registry!LeaseSpec

=============================================================================
