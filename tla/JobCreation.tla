----------------------------- MODULE JobCreation -----------------------------
(***************************************************************************)
(* Job creation on a master or standalone board (create_jobs_task.cpp):    *)
(* the MiningInfo of each pool, which stratum messages change, and the     *)
(* task that a timer or a new job wakes to build the next ASIC job from    *)
(* it.  The distribution to slaves at the end of the loop is in            *)
(* WorkDistribution; merkle roots, version mask and difficulty, which      *)
(* follow the rules of the extranonce or are copied, are left out.         *)
(*                                                                         *)
(* A pool numbers its jobs.  An ASIC job carries the pool's job, the       *)
(* extranonce it was built with, the one the pool means with it (due), and *)
(* the value of extranonce_2, which makes it unique.                       *)
(***************************************************************************)
EXTENDS AsicJobs, AutoTiming

CONSTANTS
  Enonces,      \* pool -> the extranonces it may assign
  NoEnonce,     \* no extranonce_str
  EN2_MOD,      \* extranonce_2 wraps here (2^32)
  BOARD_INTERVAL, \* the job interval in the board's settings
  MaxNotifies   \* pool -> bound on its jobs

ASSUME JobAssumption ==
  /\ \A p \in Pools : NoEnonce \notin Enonces[p] /\ MaxNotifies[p] \in Nat
  /\ EN2_MOD \in Nat \ {0} /\ EN2_MOD % ASIC_IDS = 0
  /\ BOARD_INTERVAL \in Nat

VARIABLES
  current,      \* pool -> number of current_job, 0 if its ntime is 0
  due,          \* pool -> the extranonce the pool means for it
  enonce,       \* pool -> extranonce_str
  nextEnonce,   \* pool -> next_extranonce_str
  announced,    \* pool -> the extranonce it assigned last, on this connection
  sent,         \* pool -> number of jobs it has sent
  abandoned,    \* history: pool -> the last of its jobs that was given up
  triggering,   \* a mining.notify has to signal job_cond yet
  jobPc,        \* where create_jobs_task is
  next,         \* next_job
  en2,          \* extranonce_2
  lastInterval  \* lastJobInterval

infoVars == <<current, due, enonce, nextEnonce>>
poolVars == <<announced, sent, abandoned>>
taskVars == <<jobPc, next, en2, lastInterval>>
jobVars == <<infoVars, poolVars, triggering, taskVars>>
masterVars == <<jobVars, asicVars, timingVars>>

JobInit ==
  /\ current = [p \in Pools |-> 0]
  /\ due = [p \in Pools |-> NoEnonce]
  /\ enonce = [p \in Pools |-> NoEnonce]
  /\ nextEnonce = [p \in Pools |-> NoEnonce]
  /\ announced = [p \in Pools |-> NoEnonce]
  /\ sent = [p \in Pools |-> 0]
  /\ abandoned = [p \in Pools |-> 0]
  /\ triggering = FALSE
  /\ jobPc = "wait"
  /\ next = NoJob
  /\ en2 = 0
  /\ lastInterval = BOARD_INTERVAL

-----------------------------------------------------------------------------
(* The stratum tasks.  The manager's mutex lets one message be handled at  *)
(* a time, up to the signal that ends the handling of a mining.notify.     *)

\* The response to mining.subscribe, the first message of a connection
\* (create_job_set_enonce).
SetEnonce(p, e) ==
  /\ ~triggering
  /\ enonce[p] = NoEnonce
  /\ enonce' = [enonce EXCEPT ![p] = e]
  /\ announced' = [announced EXCEPT ![p] = e]
  /\ UNCHANGED <<current, due, nextEnonce, sent, abandoned, triggering, taskVars,
                 asicVars, timingVars>>

\* mining.set_extranonce, for the jobs that follow (set_next_enonce).
SetNextEnonce(p, e) ==
  /\ ~triggering
  /\ enonce[p] # NoEnonce /\ announced[p] # e
  /\ nextEnonce' = [nextEnonce EXCEPT ![p] = e]
  /\ announced' = [announced EXCEPT ![p] = e]
  /\ UNCHANGED <<current, due, enonce, sent, abandoned, triggering, taskVars,
                 asicVars, timingVars>>

\* create_job_mining_notify.  The first job of a connection is always taken
\* to abandon the ones before it.
MiningNotify(p, abandonWork) ==
  /\ ~triggering
  /\ enonce[p] # NoEnonce /\ sent[p] < MaxNotifies[p]
  /\ current[p] = 0 => abandonWork
  /\ table' = IF abandonWork THEN CleanJobs(p) ELSE table
  /\ abandoned' = [abandoned EXCEPT ![p] = IF abandonWork THEN sent[p] ELSE @]
  /\ enonce' = [enonce EXCEPT ![p] = IF nextEnonce[p] # NoEnonce THEN nextEnonce[p] ELSE @]
  /\ nextEnonce' = [nextEnonce EXCEPT ![p] = NoEnonce]
  /\ sent' = [sent EXCEPT ![p] = @ + 1]
  /\ current' = [current EXCEPT ![p] = sent[p] + 1]
  /\ due' = [due EXCEPT ![p] = announced[p]]
  /\ triggering' = TRUE
  /\ UNCHANGED <<announced, taskVars, issued, timingVars>>

\* create_job_invalidate, when the connection to the pool is lost.
PendingKept(p) == nextEnonce              \* mutant: the pending switch survives
PendingDropped(p) == [nextEnonce EXCEPT ![p] = NoEnonce]

Invalidate(p) ==
  /\ ~triggering
  /\ enonce[p] # NoEnonce
  /\ current' = [current EXCEPT ![p] = 0]
  /\ due' = [due EXCEPT ![p] = NoEnonce]
  /\ enonce' = [enonce EXCEPT ![p] = NoEnonce]
  /\ nextEnonce' = PendingDropped(p)
  /\ table' = CleanJobs(p)
  /\ abandoned' = [abandoned EXCEPT ![p] = sent[p]]
  /\ announced' = [announced EXCEPT ![p] = NoEnonce]
  /\ UNCHANGED <<sent, triggering, taskVars, issued, timingVars>>

\* pthread_cond_signal wakes the task if it waits and is lost otherwise.
Signal == jobPc' = IF jobPc = "wait" THEN "awake" ELSE jobPc

TriggerJobCreation ==
  /\ triggering
  /\ triggering' = FALSE
  /\ Signal
  /\ UNCHANGED <<infoVars, poolVars, next, en2, lastInterval, asicVars, timingVars>>

-----------------------------------------------------------------------------
(* create_jobs_task and its timer.                                         *)

\* The timer is periodic.
TimerStopped == FALSE        \* mutant
TimerRuns == TRUE

CreateJobTimer ==
  /\ TimerRuns /\ jobPc = "wait"
  /\ Signal
  /\ UNCHANGED <<infoVars, poolVars, triggering, next, en2, lastInterval,
                 asicVars, timingVars>>

\* A new interval restarts the timer, and the task waits again without
\* making a job, even if a new job of the pool woke it.
ChangePeriod ==
  /\ jobPc = "awake" /\ lastInterval # interval
  /\ lastInterval' = interval
  /\ jobPc' = "wait"
  /\ UNCHANGED <<infoVars, poolVars, triggering, next, en2, asicVars, timingVars>>

\* The pool has no valid job.
NoWork(p) ==
  /\ jobPc = "awake" /\ lastInterval = interval
  /\ current[p] = 0
  /\ jobPc' = "wait"
  /\ UNCHANGED <<infoVars, poolVars, triggering, next, en2, lastInterval,
                 asicVars, timingVars>>

\* The job is built from the pool's MiningInfo under its mutex.  The pool is
\* what getNextActivePool returned: any.
BuildJob(p) ==
  /\ jobPc = "awake" /\ lastInterval = interval
  /\ current[p] # 0
  /\ next' = [pool |-> p, num |-> current[p], en |-> enonce[p], due |-> due[p], en2 |-> en2]
  /\ jobPc' = "built"
  /\ UNCHANGED <<infoVars, poolVars, triggering, en2, lastInterval, asicVars, timingVars>>

SendJob ==
  /\ jobPc = "built"
  /\ SendWork(next, AsicId(en2))
  /\ jobPc' = "sent"
  /\ UNCHANGED <<infoVars, poolVars, triggering, next, en2, lastInterval, table,
                 timingVars>>

\* Only now, without the mutex, the job enters the table.
StoreSentJob ==
  /\ jobPc = "sent"
  /\ table' = StoreJob(next, AsicId(en2))
  /\ next' = NoJob
  /\ en2' = (en2 + 1) % EN2_MOD
  /\ jobPc' = "wait"
  /\ UNCHANGED <<infoVars, poolVars, triggering, lastInterval, issued, timingVars>>

TaskNext ==
  ChangePeriod \/ SendJob \/ StoreSentJob \/ \E p \in Pools : NoWork(p) \/ BuildJob(p)

StratumNext ==
  \E p \in Pools :
    \/ \E e \in Enonces[p] : SetEnonce(p, e) \/ SetNextEnonce(p, e)
    \/ \E ab \in BOOLEAN : MiningNotify(p, ab)
    \/ Invalidate(p)

TimingNext == TimingTick \/ \E r \in Rates : PoolRate(r)

MasterNext ==
  \/ StratumNext \/ TriggerJobCreation \/ CreateJobTimer \/ TaskNext
  \/ TimingNext /\ UNCHANGED <<jobVars, asicVars>>

\* The task, the timer, the stratum task that signals and auto_timing_task
\* are scheduled; every pool is picked again and again; and the task wakes
\* up between the changes of the interval, which are 90 s apart or more.
MasterFairness ==
  /\ WF_masterVars(TriggerJobCreation) /\ WF_masterVars(CreateJobTimer)
  /\ WF_masterVars(TaskNext)
  /\ \A p \in Pools : SF_masterVars(BuildJob(p))
  /\ WF_masterVars(TimingTick /\ UNCHANGED <<jobVars, asicVars>>)
  /\ []<><<TimingTick>>_interval => []<><<jobPc = "awake" /\ lastInterval = interval>>_jobPc
=============================================================================
