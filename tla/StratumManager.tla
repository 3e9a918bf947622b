--------------------------- MODULE StratumManager ---------------------------
(***************************************************************************)
(* The connections to the two pools: one StratumTask per pool, their       *)
(* reconnect timers, and the manager that chooses the pool to mine for,    *)
(* in failover mode (StratumManagerFallback) or with both pools at once    *)
(* (StratumManagerDualPool).  The mode is read at boot.                    *)
(*                                                                         *)
(* A task's flags are plain members that other tasks read and write, some  *)
(* under m_mutex, some not; every access that others can see is a step of  *)
(* its own.  Lines from a pool are reduced to the response to              *)
(* mining.subscribe, which brings the extranonce, mining.notify, and the   *)
(* rest.  Of a job only its validity is kept: an extranonce and a non-zero *)
(* ntime, as create_jobs_task tests them.  Delays are left out, and        *)
(* xTimerStart and xTimerStop take effect at once.                         *)
(***************************************************************************)
EXTENDS Integers

CONSTANTS
  NoPool, NoLine,
  Modes,        \* the pool modes of PoolMode to consider
  Configs,      \* what the user may enter as the settings of a pool
  NoHost,       \* the one of them with an empty host name
  Balances,     \* the shares of the primary in percent, in dual mode
  Preempt,      \* other tasks run between two accesses of a task to its flags
  QuietPools,   \* a pool may send nothing for a whole period of a timer
  MaxChanges,   \* bound on changes of the settings
  MaxPicks      \* bound on pool choices counted, see picks

PRIMARY == 0
SECONDARY == 1
Pools == {PRIMARY, SECONDARY}
Lines == {"subscribed", "notify", "other"}

ASSUME StratumAssumption ==
  /\ NoPool \notin Pools
  /\ NoLine \notin Lines
  /\ Modes \subseteq {"failover", "dual"}
  /\ Balances \subseteq 0 .. 100
  /\ Preempt \in BOOLEAN
  /\ QuietPools \in BOOLEAN
  /\ MaxChanges \in Nat
  /\ MaxPicks \in Nat

VARIABLES
  mode,         \* m_poolmode
  pc,           \* pool -> where its task is
  stop,         \* pool -> m_stopFlag
  isConnected,  \* pool -> m_isConnected
  reconnect,    \* pool -> m_reconnect
  validNotify,  \* pool -> m_validNotify
  config,       \* pool -> the manager's StratumConfig
  used,         \* pool -> m_config, the task's copy of it
  line,         \* pool -> the line its task has received
  answered,     \* pool -> the subscribe response of this connection was handled
  timer,        \* pool -> its reconnect timer is active
  expired,      \* the timer whose callback the timer task is in, or NoPool
  selected,     \* m_selected of the fallback manager
  balance,      \* m_balance of the dual-pool manager
  accum,        \* m_error_accum
  extranonce,   \* pool -> MiningInfo has an extranonce_str
  ntime,        \* pool -> ntime of the MiningInfo is not 0
  up,           \* pool -> it can be reached and answers (environment)
  changes,      \* settings changed so far
  picks         \* history: pools chosen since accum was reset, and how often
                \* the secondary among them

flags == <<stop, isConnected, reconnect>>
settings == <<config, balance, changes>>
connection == <<used, line, answered>>
timers == <<timer, expired>>
jobs == <<validNotify, extranonce, ntime>>
choice == <<accum, picks>>
vars == <<mode, pc, flags, settings, connection, timers, selected, jobs, choice, up>>

NoPicks == [all |-> 0, secondary |-> 0]

\* The manager's task has created both tasks, which have started their
\* timers, and has connected the primary, in dual mode both.
Init ==
  /\ mode \in Modes
  /\ pc = [p \in Pools |-> "top"]
  /\ stop = [p \in Pools |-> p = SECONDARY /\ mode = "failover"]
  /\ isConnected = [p \in Pools |-> FALSE]
  /\ reconnect = [p \in Pools |-> FALSE]
  /\ validNotify = [p \in Pools |-> FALSE]
  /\ config \in [Pools -> Configs]
  /\ used = config
  /\ line = [p \in Pools |-> NoLine]
  /\ answered = [p \in Pools |-> FALSE]
  /\ timer = [p \in Pools |-> TRUE]
  /\ expired = NoPool
  /\ selected = PRIMARY
  /\ balance \in Balances
  /\ accum = 0
  /\ extranonce = [p \in Pools |-> FALSE]
  /\ ntime = [p \in Pools |-> FALSE]
  /\ up = [p \in Pools |-> FALSE]
  /\ changes = 0
  /\ picks = NoPicks

-----------------------------------------------------------------------------
(* What the tasks may assume of each other.                                *)

\* The task of p is between two accesses to its flags that belong together:
\* it has copied its settings and not cleared m_reconnect, or a callback has
\* run and m_isConnected does not say so yet.
Between(p) == pc[p] \in {"copied", "called", "cleared"}

\* Likewise the timer task between the expiry of a timer and its callback.
NobodyBetween == Preempt \/ \A q \in Pools : ~Between(q)
Free(p) == Preempt \/ (expired = NoPool /\ \A q \in Pools \ {p} : ~Between(q))
AllFree == NobodyBetween /\ (Preempt \/ expired = NoPool)

\* A connection that was told to stop has seen its next line.
Noticed(p) ==
  QuietPools \/ ~(isConnected[p] /\ stop[p] /\ pc[p] \in {"loop", "check", "dispatch"})

Goto(p, l) == pc' = [pc EXCEPT ![p] = l]

-----------------------------------------------------------------------------
(* StratumTask::task.                                                      *)

CopyConfig(p) ==
  /\ pc[p] = "top" /\ Free(p)
  /\ used' = [used EXCEPT ![p] = config[p]]
  /\ Goto(p, "copied")
  /\ UNCHANGED <<mode, flags, settings, line, answered, timers, selected, jobs, choice, up>>

\* m_reconnect is cleared, and the task waits if it has no host or is stopped.
ClearReconnect(p) ==
  /\ pc[p] = "copied" /\ Free(p)
  /\ reconnect' = [reconnect EXCEPT ![p] = FALSE]
  /\ Goto(p, IF used[p] = NoHost \/ stop[p] THEN "top" ELSE "connecting")
  /\ UNCHANGED <<mode, stop, isConnected, settings, connection, timers, selected,
                 jobs, choice, up>>

\* No Wi-Fi, no address, or no connection.
ConnectFails(p) ==
  /\ pc[p] = "connecting" /\ Free(p)
  /\ ~up[p]
  /\ Goto(p, "top")
  /\ UNCHANGED <<mode, flags, settings, connection, timers, selected, jobs, choice, up>>

ConnectSucceeds(p) ==
  /\ pc[p] = "connecting" /\ Free(p)
  /\ up[p]
  /\ Goto(p, "loop")
  /\ UNCHANGED <<mode, flags, settings, connection, timers, selected, jobs, choice, up>>

\* stratumLoop ends: a setup command, receiving or parsing a line failed, or
\* the socket is not connected any more.
LoopEnds(p) ==
  /\ pc[p] = "loop" /\ Free(p)
  /\ ~up[p]
  /\ Goto(p, "closing")
  /\ UNCHANGED <<mode, flags, settings, connection, timers, selected, jobs, choice, up>>

\* m_reconnect is looked at when a line has arrived.
ReconnectSeen(p) ==
  /\ pc[p] = "loop" /\ Free(p)
  /\ up[p] /\ reconnect[p]
  /\ Goto(p, "closing")
  /\ UNCHANGED <<mode, flags, settings, connection, timers, selected, jobs, choice, up>>

\* The pool answers mining.subscribe before it sends jobs, and once.
MaySend(p, l) ==
  /\ up[p]
  /\ l = "subscribed" => ~answered[p]
  /\ l = "notify" => answered[p]

\* connectedCallback of the fallback manager, under m_mutex; that of the
\* dual-pool manager changes nothing modelled here.
SecondaryKept(p) ==          \* mutant: the primary does not take over again
  /\ selected' = IF p = SECONDARY /\ ~isConnected[PRIMARY] THEN SECONDARY ELSE selected
  /\ stop' = [stop EXCEPT ![SECONDARY] = p = PRIMARY \/ isConnected[PRIMARY]]
  /\ timer' = [timer EXCEPT ![SECONDARY] = ~stop'[SECONDARY] /\ @]
FlagIgnored(p) ==            \* mutant: the secondary takes over in any case
  IF p = PRIMARY
  THEN /\ selected' = PRIMARY
       /\ stop' = [stop EXCEPT ![SECONDARY] = TRUE]
       /\ timer' = [timer EXCEPT ![SECONDARY] = FALSE]
  ELSE /\ selected' = SECONDARY
       /\ UNCHANGED <<stop, timer>>
ConnectedFailover(p) ==
  IF p = SECONDARY /\ ~isConnected[PRIMARY]
  THEN /\ selected' = SECONDARY
       /\ UNCHANGED <<stop, timer>>
  ELSE /\ selected' = IF p = PRIMARY THEN PRIMARY ELSE selected
       /\ stop' = [stop EXCEPT ![SECONDARY] = TRUE]
       /\ timer' = [timer EXCEPT ![SECONDARY] = FALSE]

FirstLine(p, l) ==
  /\ pc[p] = "loop" /\ Free(p)
  /\ MaySend(p, l) /\ ~reconnect[p] /\ ~isConnected[p]
  /\ line' = [line EXCEPT ![p] = l]
  /\ IF mode = "failover" THEN ConnectedFailover(p)
                          ELSE UNCHANGED <<selected, stop, timer>>
  /\ Goto(p, "called")
  /\ UNCHANGED <<mode, isConnected, reconnect, settings, used, answered, expired,
                 jobs, choice, up>>

\* Only after the callback the flag says that the pool is connected.
SetConnected(p) ==
  /\ pc[p] = "called" /\ Free(p)
  /\ isConnected' = [isConnected EXCEPT ![p] = TRUE]
  /\ Goto(p, "check")
  /\ UNCHANGED <<mode, stop, reconnect, settings, connection, timers, selected,
                 jobs, choice, up>>

NextLine(p, l) ==
  /\ pc[p] = "loop" /\ Free(p)
  /\ MaySend(p, l) /\ ~reconnect[p] /\ isConnected[p]
  /\ line' = [line EXCEPT ![p] = l]
  /\ Goto(p, "check")
  /\ UNCHANGED <<mode, flags, settings, used, answered, timers, selected, jobs, choice, up>>

\* A stopped task leaves the loop without dispatching the line.
CheckStop(p) ==
  /\ pc[p] = "check" /\ Free(p)
  /\ Goto(p, IF stop[p] THEN "closing" ELSE "dispatch")
  /\ UNCHANGED <<mode, flags, settings, connection, timers, selected, jobs, choice, up>>

\* StratumManager::dispatch, under m_mutex: lines of a pool that is not
\* accepted are dropped.
AcceptsNotifyFrom(p) == mode = "dual" \/ p = selected

Dispatch(p) ==
  /\ pc[p] = "dispatch" /\ Free(p)
  /\ answered' = [answered EXCEPT ![p] = @ \/ line[p] = "subscribed"]
  /\ extranonce' = [extranonce EXCEPT
       ![p] = @ \/ (AcceptsNotifyFrom(p) /\ line[p] = "subscribed")]
  /\ ntime' = [ntime EXCEPT ![p] = @ \/ (AcceptsNotifyFrom(p) /\ line[p] = "notify")]
  /\ validNotify' = [validNotify EXCEPT
       ![p] = @ \/ (AcceptsNotifyFrom(p) /\ line[p] = "notify")]
  /\ line' = [line EXCEPT ![p] = NoLine]
  /\ Goto(p, "loop")
  /\ UNCHANGED <<mode, flags, settings, used, timers, selected, choice, up>>

\* disconnectedCallback, under m_mutex: the pool's job and extranonce are
\* invalidated; without the primary the secondary may try, in dual mode the
\* pool itself tries again.
InvalidatedLate(f, p) == f                \* mutant: the job stays valid
Invalidated(f, p) == [f EXCEPT ![p] = FALSE]

TimerOfPool(p) == {p}                     \* mutant
TimerToStart(p) ==
  IF mode = "dual" THEN {p} ELSE IF p = PRIMARY THEN {SECONDARY} ELSE {}

DisconnectedCallback(p) ==
  /\ pc[p] = "closing" /\ Free(p)
  /\ extranonce' = Invalidated(extranonce, p)
  /\ ntime' = Invalidated(ntime, p)
  /\ validNotify' = Invalidated(validNotify, p)
  /\ timer' = [q \in Pools |-> timer[q] \/ q \in TimerToStart(p)]
  /\ line' = [line EXCEPT ![p] = NoLine]
  /\ answered' = [answered EXCEPT ![p] = FALSE]
  /\ Goto(p, "cleared")
  /\ UNCHANGED <<mode, flags, settings, used, expired, selected, choice, up>>

ClearConnected(p) ==
  /\ pc[p] = "cleared" /\ Free(p)
  /\ isConnected' = [isConnected EXCEPT ![p] = FALSE]
  /\ Goto(p, "top")
  /\ UNCHANGED <<mode, stop, reconnect, settings, connection, timers, selected,
                 jobs, choice, up>>

-----------------------------------------------------------------------------
(* The timer task, the settings page, create_jobs_task and the pools.      *)

\* A reconnect timer is periodic; its callback then waits for m_mutex.
TimerExpires(p) ==
  /\ timer[p] /\ expired = NoPool
  /\ NobodyBetween /\ Noticed(p)
  /\ expired' = p
  /\ UNCHANGED <<mode, pc, flags, settings, connection, timer, selected, jobs, choice, up>>

\* reconnectTimerCallback: connect(), or disconnect() a secondary that is
\* not wanted.
ReconnectTimerCallback ==
  /\ expired # NoPool
  /\ stop' = [stop EXCEPT ![expired] =
       mode = "failover" /\ expired = SECONDARY /\ isConnected[PRIMARY]]
  /\ expired' = NoPool
  /\ UNCHANGED <<mode, pc, isConnected, reconnect, settings, connection, timer,
                 selected, jobs, choice, up>>

\* loadSettings, under m_mutex: connections whose settings have changed are
\* asked to reconnect; in dual mode a new balance reconnects both.
NeedsPrimary(p, c, b) == p = PRIMARY /\ c[p] # config[p]    \* mutant
NeedsReconnect(p, c, b) == c[p] # config[p] \/ b # balance
AccumKept(b) == accum                                       \* mutant
AccumAfter(b) == IF b = balance THEN accum ELSE 0

LoadSettings(c, b) ==
  /\ changes < MaxChanges /\ AllFree
  /\ mode = "failover" => b = balance
  /\ config' = c
  /\ balance' = b
  /\ reconnect' = [p \in Pools |-> reconnect[p] \/ NeedsReconnect(p, c, b)]
  /\ accum' = AccumAfter(b)
  /\ picks' = IF b = balance THEN picks ELSE NoPicks
  /\ changes' = changes + 1
  /\ UNCHANGED <<mode, pc, stop, isConnected, connection, timers, selected, jobs, up>>

\* getNextActivePool of the dual-pool manager, called for every job.  That of
\* the fallback manager is selected.
TurnOfSecondaryLate == accum + (100 - balance) > 100       \* mutant
TurnOfSecondary == accum + (100 - balance) >= 100

PickDithered ==
  /\ mode = "dual" /\ AllFree
  /\ \A p \in Pools : validNotify[p]
  /\ picks.all < MaxPicks
  /\ accum' = accum + (100 - balance) - (IF TurnOfSecondary THEN 100 ELSE 0)
  /\ picks' = [all |-> picks.all + 1,
               secondary |-> picks.secondary + (IF TurnOfSecondary THEN 1 ELSE 0)]
  /\ UNCHANGED <<mode, pc, flags, settings, connection, timers, selected, jobs, up>>

PickOnly ==
  /\ mode = "dual" /\ AllFree
  /\ \E p \in Pools : ~validNotify[p]
  /\ accum' = 0
  /\ picks' = NoPicks
  /\ UNCHANGED <<mode, pc, flags, settings, connection, timers, selected, jobs, up>>

PoolChanges(p) ==
  /\ AllFree
  /\ up' = [up EXCEPT ![p] = ~@]
  /\ UNCHANGED <<mode, pc, flags, settings, connection, timers, selected, jobs, choice>>

-----------------------------------------------------------------------------

TaskStep(p) ==
  \/ CopyConfig(p) \/ ClearReconnect(p)
  \/ ConnectFails(p) \/ ConnectSucceeds(p)
  \/ LoopEnds(p) \/ ReconnectSeen(p)
  \/ \E l \in Lines : FirstLine(p, l) \/ NextLine(p, l)
  \/ SetConnected(p) \/ CheckStop(p) \/ Dispatch(p)
  \/ DisconnectedCallback(p) \/ ClearConnected(p)

Next ==
  \/ \E p \in Pools : TaskStep(p) \/ TimerExpires(p) \/ PoolChanges(p)
  \/ ReconnectTimerCallback
  \/ \E c \in [Pools -> Configs], b \in Balances : LoadSettings(c, b)
  \/ PickDithered \/ PickOnly

Spec == Init /\ [][Next]_vars

\* FreeRTOS runs every task, and active timers expire.
Fairness ==
  /\ \A p \in Pools : SF_vars(TaskStep(p)) /\ SF_vars(TimerExpires(p))
  /\ SF_vars(ReconnectTimerCallback)

LiveSpec == Spec /\ Fairness

-----------------------------------------------------------------------------
(* Properties.                                                             *)

PCs == {"top", "copied", "connecting", "loop", "called", "check", "dispatch",
        "closing", "cleared"}

\* Every variable keeps its type; the error accumulator of the dual-pool
\* choice stays below 100.
TypeOK ==
  /\ mode \in Modes
  /\ pc \in [Pools -> PCs]
  /\ stop \in [Pools -> BOOLEAN]
  /\ isConnected \in [Pools -> BOOLEAN]
  /\ reconnect \in [Pools -> BOOLEAN]
  /\ validNotify \in [Pools -> BOOLEAN]
  /\ config \in [Pools -> Configs] /\ used \in [Pools -> Configs]
  /\ line \in [Pools -> Lines \cup {NoLine}]
  /\ answered \in [Pools -> BOOLEAN]
  /\ timer \in [Pools -> BOOLEAN]
  /\ expired \in Pools \cup {NoPool}
  /\ selected \in Pools
  /\ balance \in Balances
  /\ accum \in 0 .. 99
  /\ extranonce \in [Pools -> BOOLEAN]
  /\ ntime \in [Pools -> BOOLEAN]
  /\ up \in [Pools -> BOOLEAN]
  /\ changes \in 0 .. MaxChanges
  /\ picks \in [all : 0 .. MaxPicks, secondary : Nat]

\* A pool whose job create_jobs_task would hash has the extranonce of its
\* present connection (the task takes strlen of it without a test) and is
\* connected, however lines were dropped while the other pool was selected.
ValidJobIsUsable ==
  \A p \in Pools : ntime[p] => extranonce[p] /\ isConnected[p]

\* A connection is made with the settings the user saved last, or has been
\* asked to reconnect.
ConfigInUse ==
  \A p \in Pools :
    pc[p] \notin {"top", "copied"} => used[p] = config[p] \/ reconnect[p]

\* With the primary connected the manager does not stay with the secondary
\* (connectedCallback: "Primary is up, Secondary should go away"), and without it
\* the secondary's timer runs, so that the secondary is tried.
PrimaryDecides ==
  mode = "failover" /\ ~Between(PRIMARY) =>
    /\ isConnected[PRIMARY] => selected = PRIMARY
    /\ ~isConnected[PRIMARY] => timer[SECONDARY]

\* Over any number of jobs since the last reset the secondary has got its
\* share in percent, exact but for less than one job.
DitherRatio ==
  LET owed == picks.all * (100 - balance) - picks.secondary * 100
  IN 0 <= owed /\ owed < 100

HasHost(p) == config[p] # NoHost

\* If the primary stays away and the secondary can be reached for good, the
\* manager ends up mining for the secondary, connected.
FailsOver ==
  (mode = "failover" /\ <>[](~up[PRIMARY] /\ up[SECONDARY] /\ HasHost(SECONDARY)))
    => <>[](selected = SECONDARY /\ isConnected[SECONDARY])

\* A primary that can be reached for good ends up connected and, in failover
\* mode, selected.
PrimaryReturns ==
  <>[](up[PRIMARY] /\ HasHost(PRIMARY))
    => <>[](isConnected[PRIMARY] /\ (mode = "failover" => selected = PRIMARY))
=============================================================================
