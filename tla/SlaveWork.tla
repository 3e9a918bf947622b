------------------------------ MODULE SlaveWork ------------------------------
(***************************************************************************)
(* Work processing on a slave (cluster_slave.cpp): packets that on_work    *)
(* has accepted wait in a queue, and slave_work_task gives one after the   *)
(* other to the ASICs.  The packets of a slave are numbered as they        *)
(* arrive.  The test for repeated work never applies: the master sets      *)
(* clean_jobs in every packet (cluster_master.cpp:481).                    *)
(***************************************************************************)
EXTENDS AsicJobs

CONSTANTS
  WORK_QUEUE_SIZE,  \* length of s_work_queue
  NonceStarts,      \* the values of nonce_start a slave is given
  MaxWork           \* bound on the packets a slave receives

ASSUME SlaveAssumption ==
  /\ WORK_QUEUE_SIZE \in Nat \ {0}
  /\ NonceStarts \subseteq Nat
  /\ MaxWork \in Nat

VARIABLES
  workQueue,  \* s_work_queue
  received,   \* number of packets received
  queued,     \* number of the last packet that entered the queue
  working     \* the work slave_work_task has sent and not stored yet

slaveVars == <<workQueue, received, queued, working>>

SlaveInit ==
  /\ workQueue = <<>>
  /\ received = 0
  /\ queued = 0
  /\ working = NoJob

\* on_work of a registered slave, for a packet of its own: a full queue
\* drops the new packet.
OnWork(p, start) ==
  /\ received < MaxWork
  /\ received' = received + 1
  /\ IF Len(workQueue) < WORK_QUEUE_SIZE
     THEN /\ workQueue' = Append(workQueue, [job |-> [pool |-> p, num |-> received + 1],
                                             start |-> start])
          /\ queued' = received + 1
     ELSE UNCHANGED <<workQueue, queued>>
  /\ UNCHANGED <<working, asicVars>>

\* slave_work_task: the ASIC job id comes from nonce_start, which is a
\* slave's share of the nonces and does not count its jobs.
SendClusterWork ==
  /\ working = NoJob
  /\ workQueue # <<>>
  /\ workQueue' = Tail(workQueue)
  /\ working' = Head(workQueue).job
  /\ SendWork(Head(workQueue).job, AsicId(Head(workQueue).start))
  /\ UNCHANGED <<received, queued, table>>

StoreClusterWork ==
  /\ working # NoJob
  /\ table' = StoreJob(working, chip.id)
  /\ working' = NoJob
  /\ UNCHANGED <<workQueue, received, queued, issued>>

WorkTask == SendClusterWork \/ StoreClusterWork

SlaveNext == WorkTask \/ \E p \in Pools, start \in NonceStarts : OnWork(p, start)

SlaveFairness == WF_<<slaveVars, asicVars>>(WorkTask)
=============================================================================
