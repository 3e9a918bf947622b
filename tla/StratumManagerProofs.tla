------------------------ MODULE StratumManagerProofs ------------------------
(***************************************************************************)
(* Types, usable jobs and the dual-pool ratio in every interleaving of the *)
(* tasks; the settings in use and the choice of the pool if no task runs   *)
(* between two accesses of another one to its flags.                       *)
(***************************************************************************)
EXTENDS StratumManager, TLAPS

\* The connection of p.  Only a connected pool has had its subscribe response
\* handled or has a valid job; a job is only received after the response; and
\* if the pool is accepted now, the response was accepted too.  The last part
\* is why ValidJobIsUsable is not inductive alone: the manager may have
\* dropped the response of a pool and must not take a job of it later in the
\* same connection.
SessionInv ==
  \A p \in Pools :
    /\ ~isConnected[p] => ~answered[p] /\ ~ntime[p]
    /\ pc[p] = "cleared" => ~answered[p] /\ ~ntime[p]
    /\ pc[p] \in {"check", "dispatch"} => isConnected[p]
    /\ line[p] = "notify" => answered[p]
    /\ AcceptsNotifyFrom(p) /\ answered[p] => extranonce[p]
    /\ ntime[p] => extranonce[p]

\* Without preemption: a task that is past its copy has the settings in use,
\* or m_reconnect is set.
ConfigInv ==
  \A p \in Pools :
    /\ pc[p] = "copied" => used[p] = config[p]
    /\ pc[p] \notin {"top", "copied"} => used[p] = config[p] \/ reconnect[p]

\* Without preemption: PrimaryDecides, and what it needs of the moments
\* between a callback of the primary and its flag.
DecideInv ==
  mode = "failover" =>
    /\ isConnected[PRIMARY] \/ pc[PRIMARY] = "called" => selected = PRIMARY
    /\ ~isConnected[PRIMARY] /\ pc[PRIMARY] # "called" => timer[SECONDARY]
    /\ pc[PRIMARY] = "cleared" => timer[SECONDARY]

-----------------------------------------------------------------------------

LEMMA PoolFacts ==
  /\ Pools = {0, 1} /\ PRIMARY = 0 /\ SECONDARY = 1
  /\ NoPool \notin Pools
BY StratumAssumption DEF Pools, PRIMARY, SECONDARY

LEMMA TypeInit == Init => TypeOK
BY StratumAssumption DEF Init, TypeOK, PCs, NoPicks, Pools, PRIMARY, SECONDARY

\* The steps of the connection tasks.
LEMMA TypeTask ==
  ASSUME TypeOK, NEW p \in Pools, TaskStep(p)
  PROVE  TypeOK'
<1> USE DEF TypeOK, PCs, Goto
<1>1. CASE CopyConfig(p)
  BY <1>1 DEF CopyConfig, flags, settings, timers, jobs, choice
<1>2. CASE ClearReconnect(p)
  BY <1>2 DEF ClearReconnect, settings, connection, timers, jobs, choice
<1>3. CASE ConnectFails(p) \/ ConnectSucceeds(p) \/ LoopEnds(p) \/ ReconnectSeen(p)
           \/ CheckStop(p)
  BY <1>3 DEF ConnectFails, ConnectSucceeds, LoopEnds, ReconnectSeen, CheckStop,
              flags, settings, connection, timers, jobs, choice
<1>4. ASSUME NEW l \in Lines, FirstLine(p, l)
      PROVE  TypeOK'
  <2>1. selected' \in Pools /\ stop' \in [Pools -> BOOLEAN] /\ timer' \in [Pools -> BOOLEAN]
    BY <1>4, PoolFacts DEF FirstLine, ConnectedFailover
  <2> QED
    BY <1>4, <2>1 DEF FirstLine, settings, jobs, choice
<1>5. ASSUME NEW l \in Lines, NextLine(p, l)
      PROVE  TypeOK'
  BY <1>5 DEF NextLine, flags, settings, timers, jobs, choice
<1>6. CASE SetConnected(p) \/ ClearConnected(p)
  BY <1>6 DEF SetConnected, ClearConnected, settings, connection, timers, jobs, choice
<1>7. CASE Dispatch(p)
  BY <1>7 DEF Dispatch, AcceptsNotifyFrom, flags, settings, timers, choice
<1>8. CASE DisconnectedCallback(p)
  BY <1>8 DEF DisconnectedCallback, Invalidated, TimerToStart, flags, settings, choice
<1> QED
  BY <1>1, <1>2, <1>3, <1>4, <1>5, <1>6, <1>7, <1>8 DEF TaskStep

\* The timer task, the settings page, the choice of a pool, the pools.
LEMMA TypeOthers ==
  ASSUME TypeOK,
         \/ \E p \in Pools : TimerExpires(p) \/ PoolChanges(p)
         \/ ReconnectTimerCallback
         \/ \E c \in [Pools -> Configs], b \in Balances : LoadSettings(c, b)
         \/ PickDithered \/ PickOnly
  PROVE  TypeOK'
<1> USE DEF TypeOK
<1>1. ASSUME NEW p \in Pools, TimerExpires(p) \/ PoolChanges(p)
      PROVE  TypeOK'
  BY <1>1 DEF TimerExpires, PoolChanges, flags, settings, connection, timers, jobs, choice
<1>2. CASE ReconnectTimerCallback
  BY <1>2 DEF ReconnectTimerCallback, settings, connection, jobs, choice
<1>3. ASSUME NEW c \in [Pools -> Configs], NEW b \in Balances, LoadSettings(c, b)
      PROVE  TypeOK'
  BY <1>3, StratumAssumption
     DEF LoadSettings, NeedsReconnect, AccumAfter, NoPicks, connection, timers, jobs
<1>4. CASE PickDithered
  <2>1. balance \in 0 .. 100
    BY StratumAssumption
  <2>2. accum' \in 0 .. 99
    BY <1>4, <2>1 DEF PickDithered, TurnOfSecondary
  <2>3. picks' \in [all : 0 .. MaxPicks, secondary : Nat]
    BY <1>4, StratumAssumption DEF PickDithered
  <2> QED
    BY <1>4, <2>2, <2>3 DEF PickDithered, flags, settings, connection, timers, jobs
<1>5. CASE PickOnly
  BY <1>5, StratumAssumption DEF PickOnly, NoPicks, flags, settings, connection, timers, jobs
<1> QED
  BY <1>1, <1>2, <1>3, <1>4, <1>5

LEMMA TypeNext == TypeOK /\ [Next]_vars => TypeOK'
<1> SUFFICES ASSUME TypeOK, [Next]_vars
             PROVE  TypeOK'
  OBVIOUS
<1>1. CASE UNCHANGED vars
  BY <1>1 DEF TypeOK, vars, flags, settings, connection, timers, jobs, choice
<1> QED
  BY <1>1, TypeTask, TypeOthers DEF Next

\* Every flag, timer and counter of the connections keeps its type for any
\* settings and any interleaving; the error accumulator stays below 100, so
\* the dual-pool choice never owes the secondary more than one job.
THEOREM StratumTypes == Spec => []TypeOK
BY TypeInit, TypeNext, PTL DEF Spec

-----------------------------------------------------------------------------
(* Jobs.                                                                   *)

LEMMA SessionInit == Init => SessionInv
BY StratumAssumption DEF Init, SessionInv, Pools, Lines

\* A step that changes nothing of the connection but where its task is keeps
\* the invariant, unless the task arrives where it says more.
LEMMA SessionFrame ==
  ASSUME TypeOK, SessionInv, NEW p \in Pools, NEW l \in PCs \ {"cleared", "check", "dispatch"},
         Goto(p, l), UNCHANGED <<mode, isConnected, line, answered, selected, jobs>>
  PROVE  SessionInv'
BY DEF SessionInv, TypeOK, PCs, Goto, AcceptsNotifyFrom, jobs

LEMMA SessionTask ==
  ASSUME TypeOK, SessionInv, NEW p \in Pools, TaskStep(p)
  PROVE  SessionInv'
<1>1. CASE CopyConfig(p)
  BY <1>1, SessionFrame DEF CopyConfig, flags, PCs
<1>2. CASE ClearReconnect(p)
  BY <1>2, SessionFrame DEF ClearReconnect, connection, PCs
<1>3. CASE ConnectFails(p) \/ ConnectSucceeds(p) \/ LoopEnds(p) \/ ReconnectSeen(p)
  BY <1>3, SessionFrame DEF ConnectFails, ConnectSucceeds, LoopEnds, ReconnectSeen,
                            flags, connection, PCs
<1>4. ASSUME NEW l \in Lines, FirstLine(p, l)
      PROVE  SessionInv'
  <2>1. ~answered[p] /\ ~ntime[p] /\ l # "notify"
    BY <1>4 DEF FirstLine, MaySend, SessionInv
  <2>2. selected' = selected \/ selected' = p
    BY <1>4 DEF FirstLine, ConnectedFailover, Pools
  <2> QED
    BY <1>4, <2>1, <2>2 DEF FirstLine, SessionInv, TypeOK, PCs, Goto, AcceptsNotifyFrom, jobs
<1>5. ASSUME NEW l \in Lines, NextLine(p, l)
      PROVE  SessionInv'
  BY <1>5 DEF NextLine, MaySend, SessionInv, TypeOK, PCs, Goto, AcceptsNotifyFrom, flags, jobs
<1>6. CASE SetConnected(p)
  BY <1>6 DEF SetConnected, SessionInv, TypeOK, PCs, Goto, AcceptsNotifyFrom, connection, jobs
<1>7. CASE CheckStop(p)
  BY <1>7 DEF CheckStop, SessionInv, TypeOK, PCs, Goto, AcceptsNotifyFrom, flags, connection, jobs
<1>8. CASE Dispatch(p)
  BY <1>8, StratumAssumption
     DEF Dispatch, SessionInv, TypeOK, PCs, Goto, AcceptsNotifyFrom, flags, Lines
<1>9. CASE DisconnectedCallback(p)
  BY <1>9, StratumAssumption
     DEF DisconnectedCallback, Invalidated, SessionInv, TypeOK, PCs, Goto,
         AcceptsNotifyFrom, flags, Lines
<1>10. CASE ClearConnected(p)
  BY <1>10 DEF ClearConnected, SessionInv, TypeOK, PCs, Goto, AcceptsNotifyFrom, connection, jobs
<1> QED
  BY <1>1, <1>2, <1>3, <1>4, <1>5, <1>6, <1>7, <1>8, <1>9, <1>10 DEF TaskStep

LEMMA SessionNext == TypeOK /\ SessionInv /\ [Next]_vars => SessionInv'
<1> SUFFICES ASSUME TypeOK, SessionInv, [Next]_vars
             PROVE  SessionInv'
  OBVIOUS
<1>1. ASSUME NEW p \in Pools, TaskStep(p)
      PROVE  SessionInv'
  BY <1>1, SessionTask
<1>2. ASSUME UNCHANGED <<mode, pc, isConnected, line, answered, selected, jobs>>
      PROVE  SessionInv'
  BY <1>2 DEF SessionInv, AcceptsNotifyFrom, jobs
<1> QED
  BY <1>1, <1>2 DEF Next, TimerExpires, PoolChanges, ReconnectTimerCallback, LoadSettings,
     PickDithered, PickOnly, vars, flags, connection

\* In every interleaving of both connection tasks, the timer task and the
\* settings page, a pool whose job create_jobs_task would hash is connected
\* and has the extranonce of that connection.
THEOREM JobsUsable == Spec => []ValidJobIsUsable
<1>1. SessionInv => ValidJobIsUsable
  BY DEF SessionInv, ValidJobIsUsable
<1> QED
  BY <1>1, SessionInit, SessionNext, StratumTypes, PTL DEF Spec

-----------------------------------------------------------------------------
(* The dual-pool choice.                                                   *)

\* The accumulator is exactly what the secondary is owed.
RatioInv == accum = picks.all * (100 - balance) - picks.secondary * 100

LEMMA RatioNext == TypeOK /\ RatioInv /\ [Next]_vars => RatioInv'
<1> SUFFICES ASSUME TypeOK, RatioInv, [Next]_vars
             PROVE  RatioInv'
  OBVIOUS
<1>1. CASE PickDithered
  <2> DEFINE pct == 100 - balance
             turn == IF TurnOfSecondary THEN 1 ELSE 0
  <2>1. pct \in Int /\ turn \in Int /\ picks.all \in Int /\ picks.secondary \in Int
    BY StratumAssumption DEF TypeOK
  <2>2. accum' = accum + pct - turn * 100
    BY <1>1 DEF PickDithered
  <2>3. picks'.all = picks.all + 1 /\ picks'.secondary = picks.secondary + turn
        /\ balance' = balance
    BY <1>1 DEF PickDithered, settings
  <2>4. accum = picks.all * pct - picks.secondary * 100
    BY DEF RatioInv
  <2> HIDE DEF pct, turn
  <2>5. (picks.all + 1) * pct = picks.all * pct + pct
    BY <2>1
  <2>6. picks.all * pct \in Int
    BY <2>1
  <2>7. accum' = (picks.all + 1) * pct - (picks.secondary + turn) * 100
    BY <2>1, <2>2, <2>4, <2>5, <2>6
  <2> QED
    BY <2>3, <2>7 DEF RatioInv, pct
<1>2. CASE PickOnly
  BY <1>2, StratumAssumption DEF PickOnly, NoPicks, RatioInv, TypeOK, settings
<1>3. ASSUME NEW c \in [Pools -> Configs], NEW b \in Balances, LoadSettings(c, b)
      PROVE  RatioInv'
  BY <1>3, StratumAssumption DEF LoadSettings, AccumAfter, NoPicks, RatioInv, TypeOK
<1>4. ASSUME UNCHANGED <<balance, choice>>
      PROVE  RatioInv'
  BY <1>4 DEF RatioInv, choice
<1> QED
  BY <1>1, <1>2, <1>3, <1>4 DEF Next, TaskStep, CopyConfig, ClearReconnect, ConnectFails,
     ConnectSucceeds, LoopEnds, ReconnectSeen, FirstLine, SetConnected, NextLine, CheckStop,
     Dispatch, DisconnectedCallback, ClearConnected, TimerExpires, ReconnectTimerCallback,
     PoolChanges, vars, settings

\* The secondary gets its percentage of the jobs, exact but for less than one
\* job, over any number of jobs between two resets and for any balance.
THEOREM RatioKept == Spec => []DitherRatio
<1>1. Init => RatioInv
  BY StratumAssumption DEF Init, RatioInv, NoPicks
<1>2. TypeOK /\ RatioInv => DitherRatio
  BY DEF TypeOK, RatioInv, DitherRatio
<1> QED
  BY <1>1, <1>2, RatioNext, StratumTypes, PTL DEF Spec

-----------------------------------------------------------------------------
(* Without preemption.                                                     *)

LEMMA ConfigNext ==
  ~Preempt /\ TypeOK /\ ConfigInv /\ [Next]_vars => ConfigInv'
<1> SUFFICES ASSUME ~Preempt, TypeOK, ConfigInv, [Next]_vars
             PROVE  ConfigInv'
  OBVIOUS
<1>1. ASSUME NEW p \in Pools, CopyConfig(p)
      PROVE  ConfigInv'
  BY <1>1 DEF CopyConfig, ConfigInv, TypeOK, Goto, flags, settings
<1>2. ASSUME NEW p \in Pools, ClearReconnect(p)
      PROVE  ConfigInv'
  BY <1>2 DEF ClearReconnect, ConfigInv, TypeOK, Goto, connection, settings
<1>3. ASSUME NEW c \in [Pools -> Configs], NEW b \in Balances, LoadSettings(c, b)
      PROVE  ConfigInv'
  BY <1>3 DEF LoadSettings, NeedsReconnect, AllFree, NobodyBetween, Between, ConfigInv,
              TypeOK, connection
<1>4. ASSUME NEW p \in Pools, pc[p] \notin {"top", "copied"} \/ pc' = pc,
             NEW l \in PCs \ {"copied"}, pc' = pc \/ Goto(p, l),
             UNCHANGED <<used, config, reconnect>>
      PROVE  ConfigInv'
  BY <1>4 DEF ConfigInv, TypeOK, Goto
<1>5. ASSUME NEW p \in Pools, TaskStep(p)
      PROVE  ConfigInv'
  <2>1. CASE CopyConfig(p) \/ ClearReconnect(p)
    BY <2>1, <1>1, <1>2
  <2>2. CASE ConnectFails(p) \/ ConnectSucceeds(p) \/ LoopEnds(p) \/ ReconnectSeen(p)
             \/ CheckStop(p)
    BY <2>2, <1>4 DEF ConnectFails, ConnectSucceeds, LoopEnds, ReconnectSeen, CheckStop,
                      flags, settings, connection, PCs
  <2>3. ASSUME NEW l \in Lines, FirstLine(p, l) \/ NextLine(p, l)
        PROVE  ConfigInv'
    BY <2>3, <1>4 DEF FirstLine, NextLine, flags, settings, PCs
  <2>4. CASE SetConnected(p) \/ Dispatch(p) \/ DisconnectedCallback(p) \/ ClearConnected(p)
    BY <2>4, <1>4 DEF SetConnected, Dispatch, DisconnectedCallback, ClearConnected,
                      flags, settings, connection, PCs
  <2> QED
    BY <1>5, <2>1, <2>2, <2>3, <2>4 DEF TaskStep
<1>6. ASSUME UNCHANGED <<pc, used, config, reconnect>>
      PROVE  ConfigInv'
  BY <1>6 DEF ConfigInv
<1> QED
  BY <1>3, <1>5, <1>6 DEF Next, TimerExpires, PoolChanges, ReconnectTimerCallback,
     PickDithered, PickOnly, vars, flags, connection, settings

\* If no task runs between the copy of the settings and the clearing of
\* m_reconnect, a connection is never kept with settings the user has replaced.
THEOREM SettingsTakeEffect == ~Preempt => (Spec => []ConfigInUse)
<1> SUFFICES ASSUME ~Preempt
             PROVE  Spec => []ConfigInUse
  OBVIOUS
<1>1. Init => ConfigInv
  BY DEF Init, ConfigInv
<1>2. TypeOK /\ ConfigInv /\ [Next]_vars => ConfigInv'
  BY ConfigNext
<1>3. ConfigInv => ConfigInUse
  BY DEF ConfigInv, ConfigInUse
<1> QED
  BY <1>1, <1>2, <1>3, StratumTypes, PTL DEF Spec

LEMMA DecideNext ==
  ~Preempt /\ TypeOK /\ SessionInv /\ DecideInv /\ [Next]_vars => DecideInv'
<1> SUFFICES ASSUME ~Preempt, TypeOK, SessionInv, DecideInv, [Next]_vars
             PROVE  DecideInv'
  OBVIOUS
<1> USE PoolFacts
<1>1. ASSUME NEW p \in Pools, NEW l \in Lines, FirstLine(p, l)
      PROVE  DecideInv'
  <2>1. CASE p = PRIMARY
    BY <1>1, <2>1 DEF FirstLine, ConnectedFailover, DecideInv, TypeOK, Goto
  <2>2. CASE p = SECONDARY
    <3>1. ~Between(PRIMARY)
      BY <1>1, <2>2 DEF FirstLine, Free
    <3>2. pc'[PRIMARY] = pc[PRIMARY] /\ isConnected' = isConnected /\ mode' = mode
      BY <1>1, <2>2 DEF FirstLine, Goto, TypeOK
    <3> QED
      BY <1>1, <2>2, <3>1, <3>2
         DEF FirstLine, ConnectedFailover, DecideInv, TypeOK, Between
  <2> QED
    BY <2>1, <2>2
<1>2. ASSUME NEW p \in Pools, SetConnected(p)
      PROVE  DecideInv'
  BY <1>2 DEF SetConnected, DecideInv, TypeOK, Goto, timers
<1>3. ASSUME NEW p \in Pools, DisconnectedCallback(p)
      PROVE  DecideInv'
  BY <1>3 DEF DisconnectedCallback, TimerToStart, DecideInv, TypeOK, Goto, flags
<1>4. ASSUME NEW p \in Pools, ClearConnected(p)
      PROVE  DecideInv'
  BY <1>4 DEF ClearConnected, DecideInv, TypeOK, Goto, timers
<1>5. ASSUME NEW p \in Pools, NEW l \in PCs \ {"called", "cleared"},
             pc[p] # "called", pc' = pc \/ Goto(p, l),
             UNCHANGED <<mode, isConnected, selected, timer>>
      PROVE  DecideInv'
  BY <1>5 DEF DecideInv, TypeOK, Goto
<1>6. ASSUME NEW p \in Pools, TaskStep(p)
      PROVE  DecideInv'
  <2>1. CASE CopyConfig(p) \/ ClearReconnect(p) \/ ConnectFails(p) \/ ConnectSucceeds(p)
    BY <2>1, <1>5 DEF CopyConfig, ClearReconnect, ConnectFails, ConnectSucceeds,
                      flags, timers, PCs
  <2>2. CASE LoopEnds(p) \/ ReconnectSeen(p) \/ CheckStop(p) \/ Dispatch(p)
    BY <2>2, <1>5 DEF LoopEnds, ReconnectSeen, CheckStop, Dispatch, flags, timers, PCs
  <2>3. ASSUME NEW l \in Lines, NextLine(p, l)
        PROVE  DecideInv'
    BY <2>3, <1>5 DEF NextLine, flags, timers, PCs
  <2> QED
    BY <1>1, <1>2, <1>3, <1>4, <1>6, <2>1, <2>2, <2>3 DEF TaskStep
<1>7. ASSUME UNCHANGED <<mode, pc, isConnected, selected, timer>>
      PROVE  DecideInv'
  BY <1>7 DEF DecideInv
<1> QED
  BY <1>6, <1>7 DEF Next, TimerExpires, PoolChanges, ReconnectTimerCallback, LoadSettings,
     PickDithered, PickOnly, vars, flags, timers

\* If no task runs between a callback and the flag it announces, a connected
\* primary is always the selected pool, and the secondary is being tried
\* whenever the primary is not connected.
THEOREM PrimaryDecidesPromptly == ~Preempt => (Spec => []PrimaryDecides)
<1> SUFFICES ASSUME ~Preempt
             PROVE  Spec => []PrimaryDecides
  OBVIOUS
<1>1. Init => DecideInv
  BY PoolFacts DEF Init, DecideInv
<1>2. TypeOK /\ SessionInv /\ DecideInv /\ [Next]_vars => DecideInv'
  BY DecideNext
<1>3. DecideInv => PrimaryDecides
  BY DEF DecideInv, PrimaryDecides, Between
<1> QED
  BY <1>1, <1>2, <1>3, SessionInit, SessionNext, StratumTypes, PTL DEF Spec
=============================================================================
