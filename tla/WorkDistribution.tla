-------------------------- MODULE WorkDistribution --------------------------
(***************************************************************************)
(* How the master of the cluster hands out work: distribute_work and the   *)
(* job map of cluster_master.cpp, and its three callers in                 *)
(* create_jobs_task.cpp (a new pool job, the job-creation loop, and the    *)
(* retrigger by the receive task and the cluster task).                    *)
(*                                                                         *)
(* The registry is the abstract lease table of SlaveRegistry, which        *)
(* ClusterMembership implements.  The j-th job that pool p announces is    *)
(* the number j; HexId[p][j] is the value of its job id read as a hex      *)
(* number, 0 when it does not start with a hex digit.                      *)
(***************************************************************************)
EXTENDS JobMap, FiniteSets, Sequences

CONSTANTS
  Devices,        \* the slave devices
  NoDevice,       \* the content of a free slot
  MAX_SLAVES,     \* CLUSTER_MAX_SLAVES
  Pools,          \* the pools in use, a subset of {0, 1}
  HexId,          \* pool -> sequence of the values of its job ids
  ULONG_MAX,      \* 2^32 - 1: the largest uint32_t, and strtoul's overflow
  FALLBACK_START, \* 0x80000000, initial s_job_id_fallback
  EN2_LIMIT,      \* 16^(2 * extranonce_2_len): what extranonce2 can hold
  MaxLoops,       \* bound: loops of create_jobs_task
  MaxRetriggers,  \* bound: ticks handed to retriggers
  NoWork          \* a slave that has received no work yet

Slots == 1 .. MAX_SLAVES
Tasks == {"rx", "cluster"}   \* the callers of the retrigger
UInt33(n) == n % (2 * (ULONG_MAX + 1))     \* mutant: one bit too many
UInt32(n) == n % (ULONG_MAX + 1)

ASSUME DistributionAssumption ==
  /\ NoDevice \notin Devices
  /\ MAX_SLAVES \in Nat \ {0}
  /\ JOB_MAP_SIZE >= MAX_SLAVES
  /\ Pools \subseteq {0, 1}
  /\ HexId \in [Pools -> Seq(Nat)]
  /\ ULONG_MAX \in Nat
  /\ ULONG_MAX > 2 * MAX_SLAVES
  /\ FALLBACK_START \in 0 .. ULONG_MAX
  /\ EN2_LIMIT \in Nat \ {0}
  /\ MaxLoops \in Nat
  /\ MaxRetriggers \in Nat

VARIABLES
  lease,     \* slot -> device, NoDevice when inactive (s_slaves)
  job,       \* pool -> its current job, 0: none or invalidated
  notified,  \* pool -> jobs announced so far
  creating,  \* pool create_jobs_task made a job for and now distributes, or -1
  en2Tick,   \* extranonce_2 of create_jobs_task
  reTick,    \* s_retrigger_en2_tick
  retrig,    \* task -> progress of its retrigger
  jobMap,    \* s_job_map
  mapIndex,  \* s_job_map_index
  fallback,  \* s_job_id_fallback
  held       \* device -> the packet it hashes, or NoWork

masterVars == <<job, notified, creating, en2Tick, reTick, retrig>>
mapVars == <<jobMap, mapIndex, fallback>>
vars == <<lease, masterVars, mapVars, held>>

Registry == INSTANCE SlaveRegistry WITH NumSlots <- MAX_SLAVES

Active == {i \in Slots : lease[i] # NoDevice}

-----------------------------------------------------------------------------
(* The numbers in a work packet.                                           *)

\* strtoul of a hex job id: 32 bits wide on this CPU, saturating.
StrToUl(h) == IF h > ULONG_MAX THEN ULONG_MAX ELSE h

\* The position of an active slot among the workers; the master is 0.
IndexIsSlot(i) == i          \* mutant: holes in the registry are counted
WorkerIndex(i) == Cardinality({j \in Active : j <= i})

\* base_job_id: the pool's id, or the next fallback number when that is 0
\* (taken once per slave).
BaseJobId(p, j, i) ==
  LET base == StrToUl(HexId[p][j])
  IN IF base = 0 THEN UInt32(fallback + WorkerIndex(i) - 1) ELSE base

ClusterJobId(p, j, tick, i) ==
  UInt32(BaseJobId(p, j, i) + WorkerIndex(i) + tick * MAX_SLAVES)

\* The extranonce2 printed for a job id: snprintf cuts a number that is too
\* long for the field after its leading digits.
Leading[n \in Nat] == IF n < EN2_LIMIT THEN n ELSE Leading[n \div 16]
Extranonce2(id) == IF id < EN2_LIMIT THEN id ELSE Leading[id]

\* The nonce range of worker k of total.
NonceStart(k, total) == (ULONG_MAX \div total) * k
NonceEnd(k, total) ==
  IF k < total - 1 THEN (ULONG_MAX \div total) * (k + 1) - 1 ELSE ULONG_MAX

\* What slot i is sent for job j of pool p.
Packet(p, j, tick, i) ==
  LET id == ClusterJobId(p, j, tick, i)
      total == 1 + Cardinality(Active)
  IN [id |-> id, pool |-> p, job |-> j, en2 |-> Extranonce2(id),
      from |-> NonceStart(WorkerIndex(i), total),
      to |-> NonceEnd(WorkerIndex(i), total)]

\* What share submission needs of it.
MapEntry(w) == [id |-> w.id, pool |-> w.pool, job |-> w.job, en2 |-> w.en2]

-----------------------------------------------------------------------------
(* cluster_master_distribute_work, under both mutexes.  The allocation of  *)
(* the coinbase succeeds for the slots in built; the packets of the slots  *)
(* in got reach their slave and its work queue.                            *)

Distribute(p, j, tick, built, got) ==
  LET Nth(i) == mapIndex + Cardinality({k \in built : k < i})
  IN /\ built \subseteq Active
     /\ got \subseteq built
     /\ jobMap' = [c \in MapCells |->
          IF \E i \in built : CellOf(Nth(i)) = c
          THEN MapEntry(Packet(p, j, tick, CHOOSE i \in built : CellOf(Nth(i)) = c))
          ELSE jobMap[c]]
     /\ mapIndex' = mapIndex + Cardinality(built)
     /\ fallback' = IF StrToUl(HexId[p][j]) = 0
                    THEN UInt32(fallback + Cardinality(Active)) ELSE fallback
     /\ held' = [d \in Devices |->
          IF \E i \in got : lease[i] = d
          THEN LET i == CHOOSE i \in got : lease[i] = d
               IN [packet |-> Packet(p, j, tick, i), stored |-> Nth(i)]
          ELSE held[d]]

\* distribute_work of pool p's current job: nothing without a job
\* (ntime = 0 or no extranonce) or without active slaves.
DistributeCurrent(p, tick, built, got) ==
  IF job[p] # 0 THEN Distribute(p, job[p], tick, built, got)
                ELSE built = {} /\ got = {} /\ UNCHANGED <<mapVars, held>>

Idle == [step |-> "idle", tick |-> 0]

\* current_stratum_job_mutex: a retrigger keeps it over both pools; every
\* other holder is one step.
JobMutexFree == \A t \in Tasks : retrig[t].step # "pool1"

Init ==
  /\ Registry!LeaseInit
  /\ job = [p \in Pools |-> 0]
  /\ notified = [p \in Pools |-> 0]
  /\ creating = -1
  /\ en2Tick = 0
  /\ reTick = 1
  /\ retrig = [t \in Tasks |-> Idle]
  /\ jobMap = [c \in MapCells |-> [id |-> NoId]]
  /\ mapIndex = 0
  /\ fallback = FALLBACK_START
  /\ held = [d \in Devices |-> NoWork]

\* Registrations and evictions between distributions.
Membership ==
  /\ Registry!LeaseNext
  /\ UNCHANGED <<masterVars, mapVars, held>>

\* create_job_mining_notify: the pool's next job replaces the current one
\* and is distributed with tick 0.
MiningNotify(p, built, got) ==
  /\ JobMutexFree
  /\ notified[p] + 1 \in DOMAIN HexId[p]
  /\ notified' = [notified EXCEPT ![p] = @ + 1]
  /\ job' = [job EXCEPT ![p] = notified'[p]]
  /\ Distribute(p, notified'[p], 0, built, got)
  /\ UNCHANGED <<lease, creating, en2Tick, reTick, retrig>>

\* create_job_invalidate.
Invalidate(p) ==
  /\ JobMutexFree
  /\ job[p] # 0
  /\ job' = [job EXCEPT ![p] = 0]
  /\ UNCHANGED <<lease, notified, creating, en2Tick, reTick, retrig, mapVars, held>>

\* create_jobs_task, up to storeJob: the master's own ASIC job for the pool
\* that getNextActivePool chose; the mutex is released afterwards.
CreateJob(p) ==
  /\ creating = -1
  /\ en2Tick < MaxLoops
  /\ JobMutexFree
  /\ job[p] # 0
  /\ creating' = p
  /\ UNCHANGED <<lease, job, notified, en2Tick, reTick, retrig, mapVars, held>>

\* create_jobs_task, the rest of the loop: whatever job that pool has now
\* is distributed with extranonce_2 as tick.
CreateDistribute(built, got) ==
  /\ creating # -1
  /\ JobMutexFree
  /\ DistributeCurrent(creating, en2Tick, built, got)
  /\ en2Tick' = en2Tick + 1
  /\ creating' = -1
  /\ UNCHANGED <<lease, job, notified, reTick, retrig>>

\* cluster_retrigger_work_distribution takes its tick from a static counter
\* without a lock, in two steps that another task may interrupt ...
RetriggerReadTick(t) ==
  /\ retrig[t].step = "idle"
  /\ reTick <= MaxRetriggers
  /\ retrig' = [retrig EXCEPT ![t] = [step |-> "write", tick |-> reTick]]
  /\ UNCHANGED <<lease, job, notified, creating, en2Tick, reTick, mapVars, held>>

RetriggerWriteTick(t) ==
  /\ retrig[t].step = "write"
  /\ reTick' = retrig[t].tick + 1
  /\ retrig' = [retrig EXCEPT ![t].step = "pool0"]
  /\ UNCHANGED <<lease, job, notified, creating, en2Tick, mapVars, held>>

\* ... and distributes the jobs of pool 0, then of pool 1, with that tick.
RetriggerPool(t, p, built, got) ==
  /\ \/ p = 0 /\ retrig[t].step = "pool0" /\ JobMutexFree
     \/ p = 1 /\ retrig[t].step = "pool1"
  /\ IF p \in Pools THEN DistributeCurrent(p, retrig[t].tick, built, got)
                    ELSE built = {} /\ got = {} /\ UNCHANGED <<mapVars, held>>
  /\ retrig' = [retrig EXCEPT ![t] = IF p = 0 THEN [@ EXCEPT !.step = "pool1"] ELSE Idle]
  /\ UNCHANGED <<lease, job, notified, creating, en2Tick, reTick>>

Next ==
  \/ Membership
  \/ \E p \in Pools : Invalidate(p) \/ CreateJob(p)
  \/ \E t \in Tasks : RetriggerReadTick(t) \/ RetriggerWriteTick(t)
  \/ \E built \in SUBSET Active : \E got \in SUBSET built :
       \/ \E p \in Pools : MiningNotify(p, built, got)
       \/ CreateDistribute(built, got)
       \/ \E t \in Tasks, p \in {0, 1} : RetriggerPool(t, p, built, got)

Spec == Init /\ [][Next]_vars

-----------------------------------------------------------------------------
(* When the ids of different jobs cannot be mixed up.                      *)

\* The ids job j of pool p can get, from any slot and with any tick.
JobIds(p, j) ==
  {UInt32(StrToUl(HexId[p][j]) + k + tick * MAX_SLAVES) :
     k \in Slots, tick \in 0 .. MaxLoops \cup 0 .. MaxRetriggers}

\* The pools announce ids that are not 0 and so far apart that no two jobs
\* can get the same cluster job id.  The code does not check this: it is
\* how pools number their jobs.
JobsFarApart ==
  \A p, q \in Pools : \A j \in 1 .. Len(HexId[p]), l \in 1 .. Len(HexId[q]) :
    /\ StrToUl(HexId[p][j]) # 0
    /\ (p # q \/ j # l) => JobIds(p, j) \cap JobIds(q, l) = {}

-----------------------------------------------------------------------------
(* Properties.                                                             *)

LeaseType == lease \in [Slots -> Devices \cup {NoDevice}]
JobType ==
  /\ notified \in [Pools -> Nat]
  /\ job \in [Pools -> Nat]
  /\ \A p \in Pools : job[p] <= notified[p] /\ notified[p] <= Len(HexId[p])
TickType ==
  /\ creating \in Pools \cup {-1}
  /\ en2Tick \in 0 .. MaxLoops
  /\ creating # -1 => en2Tick < MaxLoops
  /\ reTick \in 1 .. (MaxRetriggers + 1)
  /\ retrig \in [Tasks -> [step : {"idle", "write", "pool0", "pool1"}, tick : 0 .. MaxRetriggers]]
MapType ==
  /\ \A c \in MapCells : jobMap[c].id \in 0 .. ULONG_MAX \cup {NoId}
  /\ mapIndex \in Nat
  /\ fallback \in 0 .. ULONG_MAX
\* What a packet must satisfy by itself.
PacketOK(w) ==
  /\ w.id \in 0 .. ULONG_MAX
  /\ w.from \in 1 .. ULONG_MAX
  /\ w.to \in w.from .. ULONG_MAX
HeldType == \A d \in Devices : held[d] # NoWork => PacketOK(held[d].packet)

\* Every variable keeps its type; in particular the job ids and the bounds
\* of the nonce ranges in slaves' hands are 32-bit numbers that have not
\* wrapped around within a range.
TypeOK == LeaseType /\ JobType /\ TickType /\ MapType /\ HeldType

\* Slot k is the next active one after slot i.
Successor(i, k) == i < k /\ \A l \in Active : ~(i < l /\ l < k)

\* The packets of one distribution split the work: whatever slots are
\* active and whichever caller supplies the tick, no two slaves get the same
\* job id or extranonce2, and the nonce ranges of the master and the slaves
\* follow each other without gap or overlap up to the last nonce.
RoundPartitions ==
  \A p \in Pools : job[p] # 0 =>
    \A tick \in {0, en2Tick, reTick} : \A i \in Active :
      LET w == Packet(p, job[p], tick, i)
      IN /\ w.from <= w.to
         /\ \A k \in Active \ {i} :
              LET v == Packet(p, job[p], tick, k)
              IN v.id # w.id /\ v.en2 # w.en2
         /\ \A k \in Active :
              Successor(i, k) => Packet(p, job[p], tick, k).from = w.to + 1
         /\ (\A k \in Active : k >= i) =>
              w.from = NonceEnd(0, 1 + Cardinality(Active)) + 1
         /\ (\A k \in Active : k <= i) => w.to = ULONG_MAX

\* A share a slave finds for the packet it hashes can be submitted: as long
\* as that packet is among the last JOB_MAP_SIZE stored, lookup_job_mapping
\* finds its id and answers with its own pool, job and extranonce2.
MapResolves ==
  \A d \in Devices :
    LET w == held[d] IN
      w # NoWork /\ mapIndex - w.stored <= JOB_MAP_SIZE =>
        /\ Matches(jobMap, w.packet.id) # {}
        /\ jobMap[LookupMapping(jobMap, w.packet.id)] = MapEntry(w.packet)
=============================================================================
