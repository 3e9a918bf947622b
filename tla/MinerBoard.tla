------------------------------ MODULE MinerBoard ------------------------------
(***************************************************************************)
(* A board with its ASICs, in the role it has been configured for: as a    *)
(* master (or standalone) it makes its jobs itself, as a slave it gets     *)
(* them from the master.  Both put them into the same table, by which the  *)
(* nonces of the chips are judged.  On a slave create_jobs_task runs too,  *)
(* but without a valid pool job it does nothing and is left out, and so is *)
(* auto_timing, which is not started there.                                *)
(***************************************************************************)
EXTENDS JobCreation, SlaveWork

VARIABLE role

boardVars == <<role, masterVars, slaveVars>>

Init ==
  /\ role \in {"master", "slave"}
  /\ TimingInit /\ AsicInit /\ JobInit /\ SlaveInit

Next ==
  /\ UNCHANGED role
  /\ \/ role = "master" /\ MasterNext /\ UNCHANGED slaveVars
     \/ role = "slave" /\ SlaveNext /\ UNCHANGED <<jobVars, timingVars>>

Spec == Init /\ [][Next]_boardVars

LiveSpec ==
  /\ Spec
  /\ role = "master" => MasterFairness
  /\ role = "slave" => SlaveFairness

-----------------------------------------------------------------------------
(* Properties.                                                             *)

AllEnonces == UNION {Enonces[p] : p \in Pools}
MasterJob ==
  [pool : Pools, num : Nat \ {0}, en : AllEnonces, due : AllEnonces, en2 : 0 .. EN2_MOD - 1]
SlaveJob == [pool : Pools, num : 1 .. MaxWork]
ASSUME NoJobAssumption == NoJob \notin MasterJob \cup SlaveJob

Job == IF role = "master" THEN MasterJob ELSE SlaveJob

AsicType ==
  /\ table \in [AsicIds -> Job \cup {NoJob}]
  /\ issued \in Seq([job : Job, id : AsicIds]) /\ Len(issued) <= ASIC_IDS
InfoType ==
  /\ {current, sent, abandoned} \subseteq [Pools -> Nat]
  /\ {due, enonce, nextEnonce, announced} \subseteq [Pools -> AllEnonces \cup {NoEnonce}]
TaskType ==
  /\ triggering \in BOOLEAN
  /\ jobPc \in {"wait", "awake", "built", "sent"}
  /\ next \in Job \cup {NoJob}
  /\ en2 \in 0 .. EN2_MOD - 1
TimingType ==
  /\ rate \in Rates
  /\ timingState \in {"calibrating", "monitoring"}
  /\ interval \in MIN_INTERVAL .. MAX_INTERVAL
  /\ lastInterval \in (MIN_INTERVAL .. MAX_INTERVAL) \cup {BOARD_INTERVAL}
  /\ calResults \in Seq(Rates) /\ Len(calResults) < Len(CAL_INTERVALS)
QueueType ==
  /\ workQueue \in Seq([job : SlaveJob, start : NonceStarts])
  /\ Len(workQueue) <= WORK_QUEUE_SIZE
  /\ {received, queued} \subseteq 0 .. MaxWork
  /\ working \in SlaveJob \cup {NoJob}

JobTypes ==
  /\ role \in {"master", "slave"}
  /\ AsicType /\ InfoType /\ TaskType /\ QueueType

\* Every variable keeps its type; in particular the job interval stays
\* within its bounds and no queue overflows.
TypeOK == JobTypes /\ TimingType

\* The chips have a job that is not in the table yet.
Unstored == IF role = "master" THEN jobPc = "sent" ELSE working # NoJob

\* The works whose nonces must count: of a master the last ASIC_IDS ones
\* that their pool has not given up; of a slave the one it hashes, and no
\* older one.
Wanted ==
  IF role = "master"
  THEN {w \in Range(issued) : w.job.num > abandoned[w.job.pool]}
  ELSE {w \in Range(issued) : w = chip}

\* A nonce is judged by the job it was found for, as long as that job is
\* wanted: in spite of ids that are used again, of tables that are cleaned
\* and of stale jobs stored late.  Excepted is the id of a job that is sent
\* and not stored yet.
NonceFindsItsJob ==
  \A w \in Wanted : Found(w) = w.job \/ (Unstored /\ w.id = chip.id)

Stale(j) == role = "master" /\ j # NoJob /\ j.num <= abandoned[j.pool]

\* create_jobs_task stores its job after it has released the mutex, so a
\* job its pool has given up may enter the table; but never a second one,
\* and cleaning the table again removes it.
AtMostOneStale ==
  \A i, k \in AsicIds :
    Stale(table[i]) /\ Stale(table[k]) /\ table[i].pool = table[k].pool => i = k

\* Every job is built with the extranonce its pool means for it: an
\* announced switch neither comes too early nor is lost nor outlives the
\* connection it was announced on.
ExtranonceOfItsJob ==
  role = "master" =>
    /\ \A w \in Range(issued) : w.job.en = w.job.due
    /\ \A i \in AsicIds : table[i] # NoJob => table[i].en = table[i].due

HashedFor(p, num) == issued # <<>> /\ chip.job.pool = p /\ chip.job.num >= num

\* A new job is hashed unless it is replaced first, although the signal for
\* it may be lost, a change of the interval may use it up, or the packet
\* may have to wait in the queue.
NewWorkIsHashed ==
  /\ \A p \in Pools, n \in 1 .. 2 :
       current[p] = n ~> current[p] # n \/ HashedFor(p, n)
  /\ \A n \in 1 .. MaxWork : queued = n ~> issued # <<>> /\ chip.job.num >= n

\* The interval follows the pool's rejection rate.
TimingFollowsPool == role = "master" => MovesAsPoolDemands
=============================================================================
