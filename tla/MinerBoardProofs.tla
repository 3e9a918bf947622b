-------------------------- MODULE MinerBoardProofs --------------------------
(***************************************************************************)
(* Jobs on their way from the pool to the chips and back, for any number   *)
(* of pools, ids and jobs, any queue length and every interleaving.        *)
(***************************************************************************)
EXTENDS MinerBoard, AutoTimingProofs, RingLemmas, TLAPS

\* What the MiningInfo of a pool says about its connection: a valid job is
\* the last one sent and has been built with the extranonce announced for it,
\* and a pending extranonce belongs to the connection.
InfoInv ==
  \A p \in Pools :
    /\ current[p] # 0 => /\ current[p] = sent[p] /\ abandoned[p] < current[p]
                         /\ enonce[p] # NoEnonce /\ due[p] = enonce[p]
    /\ abandoned[p] <= sent[p]
    /\ enonce[p] # NoEnonce =>
         announced[p] = IF nextEnonce[p] # NoEnonce THEN nextEnonce[p] ELSE enonce[p]
    /\ enonce[p] = NoEnonce => nextEnonce[p] = NoEnonce

\* The job create_jobs_task holds, and what a slave does not do.
HoldInv ==
  /\ jobPc \in {"built", "sent"} => next # NoJob
  /\ role = "slave" => jobPc = "wait" /\ next = NoJob
  /\ jobPc = "sent" => issued # <<>> /\ chip = [job |-> next, id |-> AsicId(en2)]
  /\ role = "slave" /\ working # NoJob => issued # <<>> /\ chip.job = working

TypeInv == JobTypes /\ InfoInv /\ HoldInv

-----------------------------------------------------------------------------
(* Asic::sendWork and the history of what it sent.                         *)

LEMMA SendFacts ==
  ASSUME NEW S, issued \in Seq(S), Len(issued) <= ASIC_IDS, NEW job, NEW id,
         [job |-> job, id |-> id] \in S, SendWork(job, id)
  PROVE  /\ issued' \in Seq(S)
         /\ Len(issued') = IF Len(issued) < ASIC_IDS THEN Len(issued) + 1 ELSE ASIC_IDS
         /\ Len(issued') <= ASIC_IDS
         /\ \A k \in 1 .. Len(issued') - 1 :
              issued'[k] = issued[k + Len(issued) + 1 - Len(issued')]
         /\ issued'[Len(issued')] = [job |-> job, id |-> id]
         /\ issued' # <<>>
         /\ chip' = [job |-> job, id |-> id]
<1> DEFINE new == [job |-> job, id |-> id]
           works == Append(issued, new)
<1>1. /\ works \in Seq(S) /\ Len(works) = Len(issued) + 1
      /\ \A k \in 1 .. Len(issued) : works[k] = issued[k]
      /\ works[Len(issued) + 1] = new
  OBVIOUS
<1>2. issued' = IF Len(works) > ASIC_IDS THEN Tail(works) ELSE works
  BY DEF SendWork
<1> HIDE DEF works
<1>3. CASE Len(issued) < ASIC_IDS
  <2>1. issued' = works
    BY <1>1, <1>2, <1>3, AsicAssumption
  <2> QED BY <2>1, <1>1, <1>3, AsicAssumption DEF chip, Last
<1>4. CASE Len(issued) = ASIC_IDS
  <2>1. issued' = Tail(works) /\ works # <<>>
    BY <1>1, <1>2, <1>4, AsicAssumption
  <2>2. /\ issued' \in Seq(S) /\ Len(issued') = Len(works) - 1
        /\ \A k \in 1 .. Len(works) - 1 : issued'[k] = works[k + 1]
    BY <2>1, <1>1, AsicAssumption
  <2> QED BY <2>1, <2>2, <1>1, <1>4, AsicAssumption DEF chip, Last
<1> QED BY <1>3, <1>4, AsicAssumption

LEMMA IdType == ASSUME NEW n \in Nat PROVE AsicId(n) \in AsicIds
BY AsicAssumption DEF AsicId, AsicIds

-----------------------------------------------------------------------------
(* Types.                                                                  *)

LEMMA TypeInit == Init => TypeInv
<1> SUFFICES ASSUME Init PROVE TypeInv OBVIOUS
<1>1. AsicType
  BY AsicAssumption DEF Init, AsicInit, AsicType
<1>2. InfoType /\ InfoInv
  BY DEF Init, JobInit, InfoType, InfoInv
<1>3. TaskType /\ HoldInv
  <2>1. 0 \in 0 .. EN2_MOD - 1
    BY JobAssumption
  <2> QED BY <2>1 DEF Init, JobInit, SlaveInit, TaskType, HoldInv
<1>4. QueueType
  BY SlaveAssumption DEF Init, SlaveInit, QueueType
<1> QED BY <1>1, <1>2, <1>3, <1>4 DEF Init, TypeInv, JobTypes

LEMMA CleanType ==
  ASSUME AsicType, NEW p \in Pools
  PROVE  CleanJobs(p) \in [AsicIds -> Job \cup {NoJob}]
BY DEF AsicType, CleanJobs

\* The stratum tasks.
LEMMA TypeStratum ==
  ASSUME TypeInv, role = "master", role' = role, StratumNext, UNCHANGED slaveVars
  PROVE  TypeInv'
<1> USE DEF TypeInv, JobTypes, taskVars, timingVars
<1>1. Job' = Job
  BY DEF Job
<1>2. QueueType'
  BY DEF slaveVars, QueueType
<1>3. ASSUME NEW p \in Pools, NEW e \in Enonces[p], SetEnonce(p, e) \/ SetNextEnonce(p, e)
      PROVE  TypeInv'
  <2>1. e \in AllEnonces /\ e # NoEnonce
    BY <1>3, JobAssumption DEF AllEnonces
  <2>2. InfoType' /\ InfoInv'
    BY <1>3, <2>1 DEF SetEnonce, SetNextEnonce, InfoType, InfoInv
  <2>3. AsicType' /\ TaskType' /\ HoldInv'
    BY <1>1, <1>3 DEF SetEnonce, SetNextEnonce, AsicType, TaskType, HoldInv, asicVars, chip
  <2> QED BY <1>2, <2>2, <2>3
<1>4. ASSUME NEW p \in Pools, NEW ab \in BOOLEAN, MiningNotify(p, ab)
      PROVE  TypeInv'
  <2>1. InfoType'
    BY <1>4 DEF MiningNotify, InfoType
  <2>2. InfoInv'
    BY <1>4 DEF MiningNotify, InfoType, InfoInv
  <2>3. AsicType'
    BY <1>1, <1>4, CleanType DEF MiningNotify, AsicType
  <2>4. TaskType' /\ HoldInv'
    BY <1>1, <1>4 DEF MiningNotify, TaskType, HoldInv, chip
  <2> QED BY <1>2, <2>1, <2>2, <2>3, <2>4
<1>5. ASSUME NEW p \in Pools, Invalidate(p)
      PROVE  TypeInv'
  <2>1. InfoType' /\ InfoInv'
    BY <1>5 DEF Invalidate, PendingDropped, InfoType, InfoInv
  <2>2. AsicType'
    BY <1>1, <1>5, CleanType DEF Invalidate, AsicType
  <2>3. TaskType' /\ HoldInv'
    BY <1>1, <1>5 DEF Invalidate, TaskType, HoldInv, chip
  <2> QED BY <1>2, <2>1, <2>2, <2>3
<1> QED BY <1>3, <1>4, <1>5 DEF StratumNext

\* create_jobs_task and its timer.
LEMMA TypeJobTask ==
  ASSUME TypeInv, role = "master", role' = role, UNCHANGED slaveVars,
         TriggerJobCreation \/ CreateJobTimer \/ TaskNext
  PROVE  TypeInv'
<1> USE DEF TypeInv, JobTypes
<1>1. Job' = Job /\ Job = MasterJob
  BY DEF Job
<1>2. QueueType'
  BY DEF slaveVars, QueueType
<1>3. CASE TriggerJobCreation \/ CreateJobTimer \/ ChangePeriod \/ \E p \in Pools : NoWork(p)
  BY <1>1, <1>2, <1>3
  DEF TriggerJobCreation, CreateJobTimer, ChangePeriod, NoWork, Signal, infoVars, poolVars,
      asicVars, AsicType, InfoType, InfoInv, TaskType, HoldInv, chip
<1>4. ASSUME NEW p \in Pools, BuildJob(p)
      PROVE  TypeInv'
  <2>1. next' \in MasterJob /\ next' # NoJob
    <3>1. /\ current[p] \in Nat \ {0} /\ en2 \in 0 .. EN2_MOD - 1
          /\ enonce[p] \in AllEnonces /\ due[p] \in AllEnonces
      BY <1>4 DEF BuildJob, InfoType, InfoInv, TaskType
    <3> QED BY <3>1, <1>4, NoJobAssumption DEF BuildJob, MasterJob
  <2>2. InfoType' /\ InfoInv' /\ AsicType'
    BY <1>1, <1>4 DEF BuildJob, infoVars, poolVars, asicVars, InfoType, InfoInv, AsicType
  <2>3. TaskType' /\ HoldInv'
    BY <1>1, <1>4, <2>1 DEF BuildJob, TaskType, HoldInv
  <2> QED BY <1>2, <2>2, <2>3
<1>5. CASE SendJob
  <2>1. AsicId(en2) \in AsicIds
    BY IdType, JobAssumption DEF TaskType
  <2>2. [job |-> next, id |-> AsicId(en2)] \in [job : Job, id : AsicIds]
    BY <1>5, <2>1 DEF SendJob, TaskType, HoldInv
  <2>3. /\ issued' \in Seq([job : Job, id : AsicIds]) /\ Len(issued') <= ASIC_IDS
        /\ issued' # <<>> /\ chip' = [job |-> next, id |-> AsicId(en2)]
    <3> DEFINE S == [job : Job, id : AsicIds]
    <3>1. SendWork(next, AsicId(en2)) /\ issued \in Seq(S) /\ Len(issued) <= ASIC_IDS
      BY <1>5 DEF SendJob, AsicType
    <3>2. [job |-> next, id |-> AsicId(en2)] \in S
      BY <2>2
    <3> HIDE DEF S
    <3>3. /\ issued' \in Seq(S) /\ Len(issued') <= ASIC_IDS
          /\ issued' # <<>> /\ chip' = [job |-> next, id |-> AsicId(en2)]
      BY <3>1, <3>2, SendFacts, Zenon
    <3> QED BY <3>3 DEF S
  <2>4. AsicType'
    BY <1>1, <1>5, <2>3 DEF SendJob, AsicType
  <2>5. InfoType' /\ InfoInv'
    BY <1>5 DEF SendJob, infoVars, poolVars, InfoType, InfoInv
  <2>6. TaskType' /\ HoldInv'
    BY <1>1, <1>5, <2>3 DEF SendJob, TaskType, HoldInv
  <2> QED BY <1>2, <2>4, <2>5, <2>6
<1>6. CASE StoreSentJob
  <2>1. AsicType'
    BY <1>1, <1>6 DEF StoreSentJob, StoreJob, AsicType, TaskType
  <2>2. InfoType' /\ InfoInv'
    BY <1>6 DEF StoreSentJob, infoVars, poolVars, InfoType, InfoInv
  <2>3. en2' \in 0 .. EN2_MOD - 1
    BY <1>6, JobAssumption DEF StoreSentJob, TaskType
  <2>4. TaskType' /\ HoldInv'
    BY <1>1, <1>6, <2>3 DEF StoreSentJob, TaskType, HoldInv
  <2> QED BY <1>2, <2>1, <2>2, <2>4
<1> QED BY <1>3, <1>4, <1>5, <1>6 DEF TaskNext

\* The slave.
LEMMA TypeSlave ==
  ASSUME TypeInv, role = "slave", role' = role, SlaveNext, UNCHANGED <<jobVars, timingVars>>
  PROVE  TypeInv'
<1> USE DEF TypeInv, JobTypes
<1>1. Job' = Job /\ Job = SlaveJob
  BY DEF Job
<1>2. InfoType' /\ InfoInv' /\ TaskType'
  BY <1>1 DEF jobVars, infoVars, poolVars, taskVars, InfoType, InfoInv, TaskType
<1>3. ASSUME NEW p \in Pools, NEW start \in NonceStarts, OnWork(p, start)
      PROVE  TypeInv'
  <2>1. received' \in 1 .. MaxWork /\ received + 1 = received'
    BY <1>3, SlaveAssumption DEF OnWork, QueueType
  <2>2. [job |-> [pool |-> p, num |-> received + 1], start |-> start]
          \in [job : SlaveJob, start : NonceStarts]
    BY <2>1 DEF SlaveJob
  <2>3. QueueType'
    <3> DEFINE T == [job : SlaveJob, start : NonceStarts]
               w == [job |-> [pool |-> p, num |-> received + 1], start |-> start]
    <3>1. /\ workQueue \in Seq(T) /\ Len(workQueue) <= WORK_QUEUE_SIZE /\ w \in T
          /\ workQueue' = IF Len(workQueue) < WORK_QUEUE_SIZE THEN Append(workQueue, w)
                          ELSE workQueue
      BY <1>3, <2>2 DEF OnWork, QueueType
    <3> HIDE DEF T, w
    <3>2. workQueue' \in Seq(T) /\ Len(workQueue') <= WORK_QUEUE_SIZE
      BY <3>1, SlaveAssumption
    <3> QED BY <3>2, <1>3, <2>1 DEF OnWork, QueueType, T
  <2>4. AsicType' /\ HoldInv'
    BY <1>1, <1>3 DEF OnWork, asicVars, jobVars, taskVars, AsicType, HoldInv, chip
  <2> QED BY <1>2, <2>3, <2>4
<1>4. CASE SendClusterWork
  <2> DEFINE w == Head(workQueue)
  <2>1. /\ w.job \in SlaveJob /\ w.start \in Nat
        /\ Tail(workQueue) \in Seq([job : SlaveJob, start : NonceStarts])
        /\ Len(Tail(workQueue)) <= WORK_QUEUE_SIZE
    <3> DEFINE T == [job : SlaveJob, start : NonceStarts]
    <3>1. workQueue \in Seq(T) /\ workQueue # <<>> /\ Len(workQueue) <= WORK_QUEUE_SIZE
      BY <1>4 DEF SendClusterWork, QueueType
    <3>2. w \in T => w.job \in SlaveJob /\ w.start \in Nat
      BY SlaveAssumption
    <3> HIDE DEF T
    <3>3. w \in T /\ Tail(workQueue) \in Seq(T) /\ Len(Tail(workQueue)) <= WORK_QUEUE_SIZE
      BY <3>1, SlaveAssumption
    <3> QED BY <3>2, <3>3 DEF T
  <2>2. [job |-> w.job, id |-> AsicId(w.start)] \in [job : Job, id : AsicIds]
    BY <1>1, <2>1, IdType
  <2>3. /\ issued' \in Seq([job : Job, id : AsicIds]) /\ Len(issued') <= ASIC_IDS
        /\ issued' # <<>> /\ chip' = [job |-> w.job, id |-> AsicId(w.start)]
    <3> DEFINE S == [job : Job, id : AsicIds]
    <3>1. SendWork(w.job, AsicId(w.start)) /\ issued \in Seq(S) /\ Len(issued) <= ASIC_IDS
      BY <1>4 DEF SendClusterWork, AsicType
    <3>2. [job |-> w.job, id |-> AsicId(w.start)] \in S
      BY <2>2
    <3> HIDE DEF S, w
    <3>3. /\ issued' \in Seq(S) /\ Len(issued') <= ASIC_IDS
          /\ issued' # <<>> /\ chip' = [job |-> w.job, id |-> AsicId(w.start)]
      BY <3>1, <3>2, SendFacts, Zenon
    <3> QED BY <3>3 DEF S
  <2>4. AsicType'
    BY <1>1, <1>4, <2>3 DEF SendClusterWork, AsicType
  <2>5. QueueType' /\ working' = w.job
    BY <1>4, <2>1 DEF SendClusterWork, QueueType
  <2>6. HoldInv'
    BY <2>3, <2>5 DEF jobVars, taskVars, HoldInv
  <2> QED BY <1>2, <2>4, <2>5, <2>6
<1>5. CASE StoreClusterWork
  <2>1. chip.id \in AsicIds
    <3> DEFINE S == [job : Job, id : AsicIds]
    <3>1. issued \in Seq(S) /\ issued # <<>>
      BY <1>5 DEF StoreClusterWork, AsicType, HoldInv
    <3> HIDE DEF S
    <3>2. chip \in S
      BY <3>1 DEF chip, Last
    <3> QED BY <3>2 DEF S
  <2> QED
    BY <1>1, <1>2, <1>5, <2>1
    DEF StoreClusterWork, StoreJob, AsicType, QueueType, HoldInv, chip, jobVars, taskVars
<1> QED BY <1>3, <1>4, <1>5 DEF SlaveNext, WorkTask

LEMMA TypeStep == TypeInv /\ [Next]_boardVars => TypeInv'
<1> SUFFICES ASSUME TypeInv, [Next]_boardVars PROVE TypeInv' OBVIOUS
<1>1. ASSUME UNCHANGED <<role, jobVars, asicVars, slaveVars>> PROVE TypeInv'
  BY <1>1
  DEF TypeInv, JobTypes, jobVars, infoVars, poolVars, taskVars, asicVars, slaveVars,
      AsicType, InfoType, TaskType, QueueType, InfoInv, HoldInv, Job, chip
<1> QED
  BY <1>1, TypeStratum, TypeJobTask, TypeSlave
  DEF Next, MasterNext, TimingNext, boardVars, masterVars

LEMMA AlwaysTypeInv == Spec => []TypeInv
BY TypeInit, TypeStep, PTL DEF Spec

\* The interval create_jobs_task used last is one the timing had, or the one
\* of the board's settings it starts with.
LEMMA TimingInitType == Init => TimingType
BY TimingInitTyped DEF Init, JobInit, TimingType, TimingTyped

LEMMA TimingStepType == TimingType /\ [Next]_boardVars => TimingType'
<1> SUFFICES ASSUME TimingType, [Next]_boardVars PROVE TimingType'
  OBVIOUS
<1>1. TimingTyped
  BY DEF TimingType, TimingTyped
<1>2. ASSUME UNCHANGED timingVars, lastInterval' \in {lastInterval, interval}
      PROVE  TimingType'
  BY <1>2 DEF timingVars, TimingType
<1>3. ASSUME UNCHANGED <<lastInterval>>, TimingNext
      PROVE  TimingType'
  <2>1. TimingTyped'
    BY <1>1, <1>3, TickTyped DEF TimingNext, PoolRate, TimingTyped
  <2> QED
    BY <1>3, <2>1 DEF TimingType, TimingTyped
<1>4. CASE role = "master" /\ MasterNext
  <2>1. ASSUME NEW p \in Pools, NEW e \in Enonces[p], SetEnonce(p, e) \/ SetNextEnonce(p, e)
        PROVE  TimingType'
    BY <2>1, <1>2 DEF SetEnonce, SetNextEnonce, taskVars
  <2>2. ASSUME NEW p \in Pools, NEW ab \in BOOLEAN, MiningNotify(p, ab) PROVE TimingType'
    BY <2>2, <1>2 DEF MiningNotify, taskVars
  <2>3. ASSUME NEW p \in Pools, Invalidate(p) PROVE TimingType'
    BY <2>3, <1>2 DEF Invalidate, taskVars
  <2>4. CASE TriggerJobCreation \/ CreateJobTimer
    BY <2>4, <1>2 DEF TriggerJobCreation, CreateJobTimer
  <2>5. CASE TaskNext
    BY <2>5, <1>2 DEF TaskNext, ChangePeriod, SendJob, StoreSentJob, NoWork, BuildJob
  <2>6. CASE TimingNext /\ UNCHANGED <<jobVars, asicVars>>
    BY <2>6, <1>3 DEF jobVars, taskVars
  <2> QED
    BY <1>4, <2>1, <2>2, <2>3, <2>4, <2>5, <2>6 DEF MasterNext, StratumNext
<1>5. CASE UNCHANGED <<jobVars, timingVars>>
  BY <1>5, <1>2 DEF jobVars, taskVars
<1> QED
  BY <1>4, <1>5 DEF Next, boardVars, masterVars

LEMMA AlwaysTimingType == Spec => []TimingType
BY TimingInitType, TimingStepType, PTL DEF Spec

\* Every job in the table, in the chips and under way is one of the board's
\* role, the ids stay in the table, no queue overflows, and the job interval
\* stays within its bounds.
THEOREM BoardTypes == Spec => []TypeOK
<1>1. TypeInv /\ TimingType => TypeOK
  BY DEF TypeInv, TypeOK
<1> QED
  BY <1>1, AlwaysTypeInv, AlwaysTimingType, PTL

\* The calibration ends with the first of the intervals at which the pool
\* rejected the fewest shares, for any list of intervals and any rates.
THEOREM CalibrationCorrect == Spec => CalibrationPicksBest
<1> DEFINE A == CalibrationEnds => interval' = CAL_INTERVALS[Best(Append(calResults, rate))]
<1>1. TimingType => A
  BY CalibrationEndsWithBest DEF TimingType, TimingTyped
<1> HIDE DEF A
<1>2. TimingType => [A]_timingVars
  BY <1>1
<1>3. Spec => [][A]_timingVars
  BY <1>2, AlwaysTimingType, PTL
<1> QED
  BY <1>3 DEF CalibrationPicksBest, A

LEMMA SendRange ==
  ASSUME NEW S, issued \in Seq(S), Len(issued) <= ASIC_IDS, NEW job, NEW id,
         [job |-> job, id |-> id] \in S, SendWork(job, id)
  PROVE  Range(issued') \subseteq Range(issued) \cup {[job |-> job, id |-> id]}
<1> DEFINE n == Len(issued)
           m == Len(issued')
<1>1. /\ issued' \in Seq(S) /\ n \in Nat /\ m \in Nat /\ m = IF n < ASIC_IDS THEN n + 1 ELSE ASIC_IDS
      /\ \A k \in 1 .. m - 1 : issued'[k] = issued[k + n + 1 - m]
      /\ issued'[m] = [job |-> job, id |-> id]
      /\ DOMAIN issued = 1 .. n /\ DOMAIN issued' = 1 .. m
  BY SendFacts
<1> HIDE DEF n, m
<1>2. n <= ASIC_IDS
  BY DEF n
<1>3. ASSUME NEW k \in 1 .. m, k # m
      PROVE  issued'[k] \in Range(issued)
  <2>1. k + n + 1 - m \in 1 .. n
    BY <1>1, <1>2, <1>3, AsicAssumption
  <2> QED BY <2>1, <1>1, <1>3 DEF Range
<1> QED BY <1>1, <1>3 DEF Range

\* What SendRange says of the two tasks that send.
LEMMA MasterSends ==
  ASSUME TypeInv, role = "master", SendJob
  PROVE  Range(issued') \subseteq Range(issued) \cup {[job |-> next, id |-> AsicId(en2)]}
<1> DEFINE S == [job : Job, id : AsicIds]
<1>1. /\ SendWork(next, AsicId(en2)) /\ issued \in Seq(S) /\ Len(issued) <= ASIC_IDS
      /\ next \in Job
  BY DEF SendJob, TypeInv, JobTypes, AsicType, TaskType, HoldInv
<1>2. [job |-> next, id |-> AsicId(en2)] \in S
  BY <1>1, IdType, JobAssumption DEF TypeInv, JobTypes, TaskType
<1> HIDE DEF S
<1> QED BY <1>1, <1>2, SendRange, Zenon

\* Cleaning leaves nothing of the pool.
LEMMA CleanFacts ==
  ASSUME NEW p \in Pools, NEW i \in AsicIds
  PROVE  CleanJobs(p)[i] # NoJob => CleanJobs(p)[i] = table[i] /\ table[i].pool # p
BY DEF CleanJobs

-----------------------------------------------------------------------------
(* The extranonce.                                                         *)

EnonceInv ==
  /\ ExtranonceOfItsJob
  /\ role = "master" /\ next # NoJob => next.en = next.due

LEMMA EnonceStep ==
  ASSUME TypeInv, TypeInv', EnonceInv, [Next]_boardVars
  PROVE  EnonceInv'
<1> USE DEF EnonceInv, ExtranonceOfItsJob
<1>0. role' = role
  BY DEF Next, boardVars
<1> SUFFICES ASSUME role = "master" PROVE EnonceInv'
  BY <1>0
<1>1. CASE UNCHANGED <<next, asicVars>>
  BY <1>0, <1>1 DEF asicVars
<1>2. ASSUME NEW p \in Pools, UNCHANGED <<next, issued>>,
             table' = CleanJobs(p) \/ UNCHANGED table
      PROVE  EnonceInv'
  BY <1>0, <1>2, CleanFacts
<1>3. ASSUME NEW p \in Pools, BuildJob(p) PROVE EnonceInv'
  <2>1. due[p] = enonce[p]
    BY <1>3 DEF BuildJob, TypeInv, InfoInv
  <2> QED BY <1>0, <1>3, <2>1 DEF BuildJob, asicVars
<1>4. CASE SendJob
  <2>1. next # NoJob
    BY <1>4 DEF SendJob, TypeInv, HoldInv
  <2>2. \A w \in Range(issued') : w.job.en = w.job.due
    BY <1>4, <2>1, MasterSends
  <2> QED BY <1>0, <1>4, <2>2 DEF SendJob
<1>5. CASE StoreSentJob
  <2>1. next # NoJob
    BY <1>5 DEF StoreSentJob, TypeInv, HoldInv
  <2>2. \A i \in AsicIds : table'[i] = table[i] \/ table'[i] = next
    BY <1>5 DEF StoreSentJob, StoreJob, TypeInv, JobTypes, AsicType
  <2> QED BY <1>0, <1>5, <2>1, <2>2 DEF StoreSentJob
<1>6. CASE StratumNext
  BY <1>1, <1>2, <1>6
  DEF StratumNext, SetEnonce, SetNextEnonce, MiningNotify, Invalidate, taskVars
<1>7. CASE TriggerJobCreation \/ CreateJobTimer \/ TaskNext
  BY <1>1, <1>3, <1>4, <1>5, <1>7
  DEF TriggerJobCreation, CreateJobTimer, TaskNext, ChangePeriod, NoWork
<1> QED
  BY <1>1, <1>6, <1>7
  DEF Next, MasterNext, boardVars, masterVars, jobVars, taskVars

\* ExtranonceOfItsJob for any pools, extranonces and interleavings.
THEOREM ExtranonceCorrect == Spec => []ExtranonceOfItsJob
<1>1. Init => EnonceInv
  BY DEF Init, AsicInit, JobInit, EnonceInv, ExtranonceOfItsJob, Range
<1>2. EnonceInv => ExtranonceOfItsJob
  BY DEF EnonceInv
<1> QED BY <1>1, <1>2, TypeInit, TypeStep, EnonceStep, PTL DEF Spec

-----------------------------------------------------------------------------
(* Stale jobs.                                                             *)

\* AtMostOneStale, and that a stale job under way finds no other one.
StaleInv ==
  /\ AtMostOneStale
  /\ Stale(next) => \A i \in AsicIds : Stale(table[i]) => table[i].pool # next.pool

LEMMA StaleStep ==
  ASSUME TypeInv, TypeInv', StaleInv, [Next]_boardVars
  PROVE  StaleInv'
<1> USE DEF StaleInv, AtMostOneStale, Stale
<1>0. role' = role
  BY DEF Next, boardVars
<1> SUFFICES ASSUME role = "master" PROVE StaleInv'
  BY <1>0
<1>1. CASE UNCHANGED <<next, table, abandoned>>
  BY <1>0, <1>1
\* Giving up the work of a pool removes it all from the table.
<1>2. ASSUME NEW p \in Pools, UNCHANGED next, table' = CleanJobs(p),
             \A q \in Pools \ {p} : abandoned'[q] = abandoned[q]
      PROVE  StaleInv'
  <2>1. ASSUME NEW i \in AsicIds, Stale(table[i])'
        PROVE  Stale(table[i]) /\ table'[i] = table[i] /\ table[i].pool # p
    <3>1. table'[i] = table[i] /\ table[i].pool # p /\ table[i] # NoJob
      BY <1>2, <2>1, CleanFacts
    <3>2. table[i].pool \in Pools
      BY <3>1 DEF TypeInv, JobTypes, AsicType, Job, MasterJob
    <3> QED BY <1>0, <1>2, <2>1, <3>1, <3>2
  <2>2. AtMostOneStale'
    BY <2>1
  <2>3. ASSUME Stale(next)', NEW i \in AsicIds, Stale(table[i])'
        PROVE  table'[i].pool # next'.pool
    <3>1. CASE next.pool = p
      BY <3>1, <2>1, <2>3, <1>2
    <3>2. CASE next.pool # p
      <4>1. next # NoJob /\ next.pool \in Pools
        BY <1>2, <2>3 DEF TypeInv, JobTypes, TaskType, Job, MasterJob
      <4>2. Stale(next)
        BY <3>2, <4>1, <1>0, <1>2, <2>3
      <4> QED BY <4>2, <2>1, <2>3, <1>2
    <3> QED BY <3>1, <3>2
  <2> QED BY <2>2, <2>3
<1>3. ASSUME NEW p \in Pools, BuildJob(p) PROVE StaleInv'
  <2>1. UNCHANGED <<table, abandoned>> /\ next'.pool = p /\ next'.num = current[p]
    BY <1>3 DEF BuildJob, asicVars, poolVars
  <2>2. abandoned[p] < current[p] /\ abandoned[p] \in Nat /\ current[p] \in Nat
    BY <1>3 DEF BuildJob, TypeInv, JobTypes, InfoType, InfoInv
  <2> QED BY <1>0, <2>1, <2>2
<1>4. CASE StoreSentJob
  <2>1. \A i \in AsicIds : table'[i] = IF i = AsicId(en2) THEN next ELSE table[i]
    BY <1>4 DEF StoreSentJob, StoreJob, TypeInv, JobTypes, AsicType
  <2>2. next' = NoJob /\ UNCHANGED abandoned
    BY <1>4 DEF StoreSentJob, poolVars
  <2> QED BY <1>0, <2>1, <2>2
<1>5. CASE StratumNext
  <2>1. ASSUME NEW p \in Pools, NEW ab \in BOOLEAN, MiningNotify(p, ab) PROVE StaleInv'
    <3>1. CASE ab
      BY <3>1, <1>2, <2>1 DEF MiningNotify, taskVars, TypeInv, JobTypes, InfoType
    <3>2. CASE ~ab
      <4>1. abandoned' = abandoned
        BY <3>2, <2>1 DEF MiningNotify, TypeInv, JobTypes, InfoType
      <4> QED BY <4>1, <3>2, <1>1, <2>1 DEF MiningNotify, taskVars
    <3> QED BY <3>1, <3>2
  <2>2. ASSUME NEW p \in Pools, Invalidate(p) PROVE StaleInv'
    BY <1>2, <2>2 DEF Invalidate, taskVars, TypeInv, JobTypes, InfoType
  <2> QED
    BY <2>1, <2>2, <1>1, <1>5 DEF StratumNext, SetEnonce, SetNextEnonce, taskVars, asicVars
<1>6. CASE TriggerJobCreation \/ CreateJobTimer \/ TaskNext
  BY <1>1, <1>3, <1>4, <1>6
  DEF TriggerJobCreation, CreateJobTimer, TaskNext, ChangePeriod, NoWork, SendJob,
      poolVars, asicVars
<1> QED
  BY <1>1, <1>5, <1>6
  DEF Next, MasterNext, boardVars, masterVars, jobVars, taskVars, poolVars, asicVars

\* AtMostOneStale for any number of pools and ids and every interleaving of
\* the stratum tasks with create_jobs_task.
THEOREM StaleBounded == Spec => []AtMostOneStale
<1>1. Init => StaleInv
  BY DEF Init, AsicInit, JobInit, StaleInv, AtMostOneStale, Stale
<1>2. StaleInv => AtMostOneStale
  BY DEF StaleInv
<1> QED BY <1>1, <1>2, TypeInit, TypeStep, StaleStep, PTL DEF Spec

-----------------------------------------------------------------------------
(* The window of the last ASIC_IDS jobs.                                   *)

\* The ids in the order of the ring: the one after x, and the one d + 1
\* places before it.
After(x) == IF x = ASIC_IDS - 1 THEN 0 ELSE x + 1
Before(x, d) == IF d < x THEN x - 1 - d ELSE x + ASIC_IDS - 1 - d

LEMMA BeforeFacts ==
  ASSUME NEW x \in AsicIds, NEW d \in AsicIds
  PROVE  /\ Before(x, d) \in AsicIds /\ After(x) \in AsicIds
         /\ Before(After(x), 0) = x
         /\ d + 1 \in AsicIds => Before(After(x), d + 1) = Before(x, d)
         /\ \A c \in AsicIds : c # d => Before(x, c) # Before(x, d)
BY AsicAssumption DEF AsicIds, Before, After

LEMMA IdAfter ==
  ASSUME NEW n \in Nat
  PROVE  AsicId(n + 1) = After(AsicId(n))
<1> DEFINE r == n % ASIC_IDS
<1>1. r \in 0 .. ASIC_IDS - 1 /\ (r + 1) % ASIC_IDS = (n + 1) % ASIC_IDS
  BY AsicAssumption, DivisionFacts, RemainderOfSum
<1> HIDE DEF r
<1>2. CASE r = ASIC_IDS - 1
  <2>1. (r + 1) % ASIC_IDS = 0
    BY <1>2, AsicAssumption
  <2> QED BY <2>1, <1>1, <1>2 DEF AsicId, After, r
<1>3. CASE r # ASIC_IDS - 1
  <2>1. (r + 1) % ASIC_IDS = r + 1
    BY <1>1, <1>3, AsicAssumption
  <2> QED BY <2>1, <1>1, <1>3 DEF AsicId, After, r
<1> QED BY <1>2, <1>3

\* extranonce_2 wraps around without a jump of the id.
LEMMA IdWraps ==
  ASSUME NEW n \in 0 .. EN2_MOD - 1
  PROVE  AsicId((n + 1) % EN2_MOD) = AsicId(n + 1)
<1>1. CASE n + 1 = EN2_MOD
  <2>1. (n + 1) % EN2_MOD = 0
    BY <1>1, JobAssumption
  <2>2. AsicId(0) = 0 /\ AsicId(EN2_MOD) = 0
    BY AsicAssumption, JobAssumption DEF AsicId
  <2> QED BY <1>1, <2>1, <2>2
<1>2. CASE n + 1 # EN2_MOD
  <2>1. (n + 1) % EN2_MOD = n + 1
    BY <1>2, JobAssumption
  <2> QED BY <2>1
<1> QED BY <1>1, <1>2

\* The id of the next job to send.
NextId == IF jobPc = "sent" THEN AsicId(en2 + 1) ELSE AsicId(en2)

\* The works of a master have the ids before the next one, all different
\* because there are at most ASIC_IDS of them; and their jobs have been sent
\* by the pool.  NonceFindsItsJob is not inductive without that: it would
\* not exclude that storing a job takes the entry of another one.
IdsInv ==
  \A k \in 1 .. Len(issued) : issued[k].id = Before(NextId, Len(issued) - k)
NumInv ==
  /\ \A k \in 1 .. Len(issued) : issued[k].job.num <= sent[issued[k].job.pool]
  /\ next # NoJob => next.num <= sent[next.pool]
FoundInv ==
  \A k \in 1 .. Len(issued) :
    issued[k].job.num > abandoned[issued[k].job.pool] =>
      table[issued[k].id] = issued[k].job \/ (jobPc = "sent" /\ k = Len(issued))

WindowInv ==
  /\ role = "master" => IdsInv /\ NumInv /\ FoundInv
  /\ role = "slave" /\ issued # <<>> /\ working = NoJob => table[chip.id] = chip.job

LEMMA IssuedFacts ==
  ASSUME TypeInv, role = "master"
  PROVE  /\ Len(issued) \in Nat /\ Len(issued) <= ASIC_IDS
         /\ \A k \in 1 .. Len(issued) :
              /\ issued[k] \in [job : Job, id : AsicIds]
              /\ issued[k].id \in AsicIds /\ issued[k].job \in MasterJob
              /\ issued[k].job # NoJob
              /\ issued[k].job.num \in Nat /\ issued[k].job.pool \in Pools
         /\ en2 \in Nat /\ en2 \in 0 .. EN2_MOD - 1 /\ AsicId(en2) \in AsicIds
<1> DEFINE S == [job : Job, id : AsicIds]
<1>1. issued \in Seq(S) /\ Len(issued) <= ASIC_IDS /\ Job = MasterJob
  BY DEF TypeInv, JobTypes, AsicType, Job
<1>2. \A w \in S : /\ w.id \in AsicIds /\ w.job \in MasterJob /\ w.job # NoJob
                   /\ w.job.num \in Nat /\ w.job.pool \in Pools
  BY <1>1, NoJobAssumption DEF MasterJob
<1> HIDE DEF S
<1>3. Len(issued) \in Nat /\ \A k \in 1 .. Len(issued) : issued[k] \in S
  BY <1>1
<1>4. en2 \in 0 .. EN2_MOD - 1 /\ en2 \in Nat
  BY JobAssumption DEF TypeInv, JobTypes, TaskType
<1> QED BY <1>1, <1>2, <1>3, <1>4, IdType DEF S

\* A job enters the chips.
LEMMA WindowSend ==
  ASSUME TypeInv, role = "master", role' = role, WindowInv, SendJob
  PROVE  WindowInv'
<1> DEFINE n == Len(issued)
           m == Len(issued')
           S == [job : Job, id : AsicIds]
           new == [job |-> next, id |-> AsicId(en2)]
<1>1. /\ jobPc = "built" /\ jobPc' = "sent" /\ next # NoJob /\ next \in Job
      /\ SendWork(next, AsicId(en2))
      /\ UNCHANGED <<table, next, en2, sent, abandoned>>
  BY DEF SendJob, poolVars, TypeInv, HoldInv, JobTypes, TaskType
<1>2. /\ n \in Nat /\ n <= ASIC_IDS /\ en2 \in Nat /\ AsicId(en2) \in AsicIds
  BY IssuedFacts
<1>3. issued \in Seq(S) /\ new \in S
  BY <1>1, <1>2 DEF TypeInv, JobTypes, AsicType
<1>4. /\ issued' \in Seq(S) /\ m = IF n < ASIC_IDS THEN n + 1 ELSE ASIC_IDS
      /\ \A k \in 1 .. m - 1 : issued'[k] = issued[k + n + 1 - m]
      /\ issued'[m] = new
  <2> HIDE DEF S
  <2> QED BY <1>1, <1>2, <1>3, SendFacts
<1>5. NextId = AsicId(en2) /\ NextId' = After(AsicId(en2))
  BY <1>1, <1>2, IdAfter DEF NextId
<1>6. m \in Nat /\ m <= ASIC_IDS
  BY <1>2, <1>4, AsicAssumption
<1> HIDE DEF n, m, new
<1>7. ASSUME NEW k \in 1 .. m, k # m
      PROVE  /\ k + n + 1 - m \in 1 .. n /\ issued'[k] = issued[k + n + 1 - m]
             /\ n - (k + n + 1 - m) = m - k - 1
             /\ m - k - 1 \in AsicIds /\ (m - k - 1) + 1 = m - k /\ m - k \in AsicIds
  BY <1>2, <1>4, <1>6, <1>7, AsicAssumption DEF AsicIds
<1>8. IdsInv'
  <2>1. ASSUME NEW k \in 1 .. m
        PROVE  issued'[k].id = Before(NextId', m - k)
    <3>1. CASE k = m
      <4>1. m - k = 0 /\ issued'[k].id = AsicId(en2) /\ 0 \in AsicIds
        BY <3>1, <1>4, <1>6, AsicAssumption DEF new, AsicIds
      <4> QED BY <4>1, <1>2, <1>5, BeforeFacts
    <3>2. CASE k # m
      <4>1. issued'[k].id = Before(NextId, m - k - 1)
        BY <3>2, <1>7 DEF WindowInv, IdsInv, n
      <4> QED BY <4>1, <3>2, <1>2, <1>5, <1>7, BeforeFacts
    <3> QED BY <3>1, <3>2
  <2> QED BY <2>1 DEF IdsInv, m
<1>9. NumInv'
  <2>1. ASSUME NEW k \in 1 .. m
        PROVE  issued'[k].job.num <= sent'[issued'[k].job.pool]
    <3>1. CASE k = m
      BY <3>1, <1>1, <1>4 DEF WindowInv, NumInv, new
    <3>2. CASE k # m
      BY <3>2, <1>1, <1>7 DEF WindowInv, NumInv, n
    <3> QED BY <3>1, <3>2
  <2> QED BY <2>1, <1>1 DEF WindowInv, NumInv, m
<1>10. FoundInv'
  <2>1. ASSUME NEW k \in 1 .. m, issued'[k].job.num > abandoned'[issued'[k].job.pool], k # m
        PROVE  table'[issued'[k].id] = issued'[k].job
    BY <1>1, <1>7, <2>1 DEF WindowInv, FoundInv, n
  <2> QED BY <2>1, <1>1 DEF FoundInv, m
<1> QED BY <1>8, <1>9, <1>10 DEF WindowInv

\* A job enters the table.
LEMMA WindowStore ==
  ASSUME TypeInv, role = "master", role' = role, WindowInv, StoreSentJob
  PROVE  WindowInv'
<1> DEFINE n == Len(issued)
<1>1. /\ jobPc = "sent" /\ jobPc' = "wait" /\ next' = NoJob
      /\ en2' = (en2 + 1) % EN2_MOD
      /\ issued # <<>> /\ Last(issued) = [job |-> next, id |-> AsicId(en2)]
      /\ UNCHANGED <<issued, sent, abandoned>>
  BY DEF StoreSentJob, poolVars, TypeInv, HoldInv, chip
<1>2. \A i \in AsicIds : table'[i] = IF i = AsicId(en2) THEN next ELSE table[i]
  BY DEF StoreSentJob, StoreJob, TypeInv, JobTypes, AsicType
<1>3. n \in Nat \ {0} /\ n <= ASIC_IDS /\ issued[n] = [job |-> next, id |-> AsicId(en2)]
  <2>1. n \in Nat /\ n <= ASIC_IDS
    BY IssuedFacts
  <2>2. issued \in Seq([job : Job, id : AsicIds])
    BY DEF TypeInv, JobTypes, AsicType
  <2> QED BY <2>1, <2>2, <1>1 DEF Last
<1>4. NextId' = NextId /\ NextId \in AsicIds
  BY <1>1, IssuedFacts, IdWraps, IdAfter, BeforeFacts, AsicAssumption DEF NextId, AsicIds
<1>5. IdsInv'
  BY <1>1, <1>4 DEF WindowInv, IdsInv
<1>6. NumInv'
  BY <1>1 DEF WindowInv, NumInv
<1>7. FoundInv'
  <2>1. ASSUME NEW k \in 1 .. n, issued[k].job.num > abandoned[issued[k].job.pool]
        PROVE  table'[issued[k].id] = issued[k].job
    <3>1. CASE k = n
      BY <3>1, <1>2, <1>3, IssuedFacts
    <3>2. CASE k # n
      <4>1. n - k \in AsicIds /\ n - n = 0 /\ 0 \in AsicIds /\ n - k # 0 /\ n \in 1 .. n
        BY <3>2, <1>3, AsicAssumption DEF AsicIds
      <4>2. issued[k].id = Before(NextId, n - k) /\ issued[n].id = Before(NextId, 0)
        BY <4>1 DEF WindowInv, IdsInv
      <4>3. issued[k].id # AsicId(en2)
        <5>1. \A c \in AsicIds : c # 0 => Before(NextId, c) # Before(NextId, 0)
          BY <4>1, <1>4, BeforeFacts
        <5>2. issued[n].id = AsicId(en2)
          BY <1>3
        <5> QED BY <4>1, <4>2, <5>1, <5>2
      <4>4. table[issued[k].id] = issued[k].job
        BY <2>1, <3>2 DEF WindowInv, FoundInv
      <4> QED BY <4>3, <4>4, <1>2, IssuedFacts
    <3> QED BY <3>1, <3>2
  <2> QED BY <2>1, <1>1 DEF FoundInv
<1> QED BY <1>5, <1>6, <1>7 DEF WindowInv

\* A pool sends a job or is lost.
LEMMA WindowClean ==
  ASSUME TypeInv, role = "master", role' = role, WindowInv, NEW p \in Pools,
         UNCHANGED <<issued, jobPc, en2, next>>,
         \/ table' = CleanJobs(p) /\ abandoned' = [abandoned EXCEPT ![p] = sent[p]]
         \/ UNCHANGED <<table, abandoned>>,
         \A q \in Pools : sent'[q] >= sent[q] /\ sent'[q] \in Nat
  PROVE  WindowInv'
<1>1. IdsInv'
  BY DEF WindowInv, IdsInv, NextId
<1>2. \A q \in Pools : sent[q] \in Nat /\ abandoned[q] \in Nat
  BY DEF TypeInv, JobTypes, InfoType
<1>3. NumInv'
  <2>1. next # NoJob => next.pool \in Pools /\ next.num \in Nat
    BY DEF TypeInv, JobTypes, TaskType, Job, MasterJob
  <2> QED BY <2>1, <1>2, IssuedFacts DEF WindowInv, NumInv
<1>4. FoundInv'
  <2>1. CASE UNCHANGED <<table, abandoned>>
    BY <2>1 DEF WindowInv, FoundInv
  <2>2. CASE table' = CleanJobs(p) /\ abandoned' = [abandoned EXCEPT ![p] = sent[p]]
    <3>1. \A q \in Pools : abandoned'[q] = IF q = p THEN sent[p] ELSE abandoned[q]
      BY <2>2 DEF TypeInv, JobTypes, InfoType
    <3>2. ASSUME NEW k \in 1 .. Len(issued),
                 issued[k].job.num > abandoned'[issued[k].job.pool]
          PROVE  table'[issued[k].id] = issued[k].job \/ (jobPc = "sent" /\ k = Len(issued))
      <4> DEFINE w == issued[k]
      <4>1. /\ w.id \in AsicIds /\ w.job # NoJob /\ w.job.num \in Nat /\ w.job.pool \in Pools
            /\ w.job.num <= sent[w.job.pool]
        BY IssuedFacts DEF WindowInv, NumInv
      <4>2. w.job.pool # p
        BY <4>1, <3>1, <3>2, <1>2
      <4>3. table[w.id] = w.job \/ (jobPc = "sent" /\ k = Len(issued))
        BY <4>1, <4>2, <3>1, <3>2 DEF WindowInv, FoundInv
      <4>4. table[w.id] = w.job => table'[w.id] = w.job
        BY <4>1, <4>2, <2>2 DEF CleanJobs
      <4> QED BY <4>3, <4>4
    <3> QED BY <3>2 DEF FoundInv
  <2> QED BY <2>1, <2>2
<1> QED BY <1>1, <1>3, <1>4 DEF WindowInv

LEMMA WindowSlave ==
  ASSUME TypeInv, role = "slave", role' = role, WindowInv, SlaveNext,
         UNCHANGED <<jobVars, timingVars>>
  PROVE  WindowInv'
<1>1. CASE SendClusterWork
  <2>1. working' # NoJob
    <3> DEFINE T == [job : SlaveJob, start : NonceStarts]
    <3>1. workQueue \in Seq(T) /\ workQueue # <<>>
      BY <1>1 DEF SendClusterWork, TypeInv, JobTypes, QueueType
    <3>2. \A w \in T : w.job \in SlaveJob
      OBVIOUS
    <3> HIDE DEF T
    <3>3. Head(workQueue) \in T
      BY <3>1
    <3> QED BY <3>2, <3>3, <1>1, NoJobAssumption DEF SendClusterWork
  <2> QED BY <2>1 DEF WindowInv
<1>2. CASE StoreClusterWork
  <2>1. chip.job = working /\ issued # <<>> /\ UNCHANGED chip
    BY <1>2 DEF StoreClusterWork, TypeInv, HoldInv, chip
  <2>2. chip.id \in AsicIds
    <3> DEFINE S == [job : Job, id : AsicIds]
    <3>1. issued \in Seq(S) /\ issued # <<>>
      BY <2>1 DEF TypeInv, JobTypes, AsicType
    <3> HIDE DEF S
    <3>2. chip \in S
      BY <3>1 DEF chip, Last
    <3> QED BY <3>2 DEF S
  <2>3. table'[chip.id] = working
    BY <1>2, <2>2 DEF StoreClusterWork, StoreJob, TypeInv, JobTypes, AsicType
  <2> QED BY <2>1, <2>3 DEF WindowInv
<1>3. ASSUME NEW p \in Pools, NEW start \in NonceStarts, OnWork(p, start)
      PROVE  WindowInv'
  BY <1>3 DEF OnWork, asicVars, WindowInv, chip
<1> QED BY <1>1, <1>2, <1>3 DEF SlaveNext, WorkTask

LEMMA WindowStep ==
  ASSUME TypeInv, TypeInv', WindowInv, [Next]_boardVars
  PROVE  WindowInv'
<1>0. role' = role /\ role \in {"master", "slave"}
  BY DEF Next, boardVars, TypeInv, JobTypes
<1>1. ASSUME UNCHANGED <<issued, table, en2, next, sent, abandoned, working>>,
             (jobPc = "sent") = (jobPc' = "sent")
      PROVE  WindowInv'
  BY <1>0, <1>1 DEF WindowInv, IdsInv, NumInv, FoundInv, NextId, chip
<1>2. CASE role = "slave" /\ SlaveNext /\ UNCHANGED <<jobVars, timingVars>>
  BY <1>0, <1>2, WindowSlave
<1>3. CASE role = "master" /\ StratumNext /\ UNCHANGED slaveVars
  <2>1. ASSUME NEW p \in Pools, NEW e \in Enonces[p], SetEnonce(p, e) \/ SetNextEnonce(p, e)
        PROVE  WindowInv'
    BY <2>1, <1>1, <1>3 DEF SetEnonce, SetNextEnonce, taskVars, asicVars, slaveVars
  <2>2. ASSUME NEW p \in Pools, NEW ab \in BOOLEAN, MiningNotify(p, ab) PROVE WindowInv'
    <3>1. \A q \in Pools : sent'[q] >= sent[q] /\ sent'[q] \in Nat
      BY <2>2 DEF MiningNotify, TypeInv, JobTypes, InfoType
    <3>2. UNCHANGED <<issued, jobPc, en2, next>>
      BY <2>2 DEF MiningNotify, taskVars
    <3>3. \/ table' = CleanJobs(p) /\ abandoned' = [abandoned EXCEPT ![p] = sent[p]]
          \/ UNCHANGED <<table, abandoned>>
      BY <2>2 DEF MiningNotify, TypeInv, JobTypes, InfoType
    <3> QED BY <3>1, <3>2, <3>3, <1>0, <1>3, WindowClean
  <2>3. ASSUME NEW p \in Pools, Invalidate(p) PROVE WindowInv'
    <3>1. \A q \in Pools : sent'[q] >= sent[q] /\ sent'[q] \in Nat
      BY <2>3 DEF Invalidate, TypeInv, JobTypes, InfoType
    <3>2. UNCHANGED <<issued, jobPc, en2, next>>
      BY <2>3 DEF Invalidate, taskVars
    <3>3. table' = CleanJobs(p) /\ abandoned' = [abandoned EXCEPT ![p] = sent[p]]
      BY <2>3 DEF Invalidate
    <3> QED BY <3>1, <3>2, <3>3, <1>0, <1>3, WindowClean
  <2> QED BY <2>1, <2>2, <2>3, <1>3 DEF StratumNext
<1>4. ASSUME role = "master", UNCHANGED slaveVars, NEW p \in Pools, BuildJob(p)
      PROVE  WindowInv'
  <2>1. /\ UNCHANGED <<issued, table, en2, sent, abandoned>> /\ jobPc = "awake"
        /\ jobPc' = "built" /\ next'.num = current[p] /\ next'.pool = p
        /\ current[p] = sent[p] /\ sent[p] \in Nat
    BY <1>4 DEF BuildJob, asicVars, poolVars, TypeInv, InfoInv, JobTypes, InfoType
  <2> QED BY <2>1, <1>0, <1>4 DEF WindowInv, IdsInv, NumInv, FoundInv, NextId
<1>5. CASE role = "master" /\ UNCHANGED slaveVars /\ (SendJob \/ StoreSentJob)
  BY <1>0, <1>5, WindowSend, WindowStore
<1>6. CASE role = "master" /\ UNCHANGED slaveVars
           /\ (TriggerJobCreation \/ CreateJobTimer \/ ChangePeriod \/ \E p \in Pools : NoWork(p))
  BY <1>1, <1>6
  DEF TriggerJobCreation, CreateJobTimer, ChangePeriod, NoWork, Signal, asicVars, poolVars,
      slaveVars
<1>7. CASE UNCHANGED <<jobVars, asicVars, slaveVars>>
  BY <1>1, <1>7 DEF jobVars, asicVars, slaveVars, taskVars, poolVars
<1> QED
  BY <1>2, <1>3, <1>4, <1>5, <1>6, <1>7
  DEF Next, MasterNext, TaskNext, TimingNext, boardVars, masterVars

\* NonceFindsItsJob for any number of ids, pools and jobs: on a master the
\* last ASIC_IDS jobs, on a slave the last one.
THEOREM NoncesResolve == Spec => []NonceFindsItsJob
<1>1. Init => WindowInv
  BY DEF Init, AsicInit, JobInit, WindowInv, IdsInv, NumInv, FoundInv
<1>2. TypeInv /\ WindowInv => NonceFindsItsJob
  <2> SUFFICES ASSUME TypeInv, WindowInv, NEW w \in Wanted
               PROVE  Found(w) = w.job \/ (Unstored /\ w.id = chip.id)
    BY DEF NonceFindsItsJob
  <2>1. CASE role = "master"
    <3>1. PICK k \in 1 .. Len(issued) : w = issued[k]
      BY <2>1 DEF Wanted, Range, TypeInv, JobTypes, AsicType
    <3> QED
      BY <2>1, <3>1 DEF Wanted, WindowInv, FoundInv, Found, Unstored, chip, Last
  <2>2. CASE role # "master"
    <3>1. role = "slave" /\ w = chip /\ w \in Range(issued)
      BY <2>2 DEF Wanted, TypeInv, JobTypes
    <3>2. issued # <<>>
      BY <3>1 DEF Range
    <3> QED
      BY <2>2, <3>1, <3>2 DEF WindowInv, Found, Unstored
  <2> QED BY <2>1, <2>2
<1> QED BY <1>1, <1>2, TypeInit, TypeStep, WindowStep, PTL DEF Spec
=============================================================================
