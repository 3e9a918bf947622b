--------------------------- MODULE ClusterWatchdog ---------------------------
(***************************************************************************)
(* The safety watchdog of the cluster (cluster_watchdog.cpp): it lowers    *)
(* frequency and core voltage of the master and of the slaves when they    *)
(* are too hot or their supply sags, and raises them again step by step.   *)
(*                                                                         *)
(* A setting is a function from the two dials to their values.  The two    *)
(* sensor values are abstracted to what the code tells apart: "bad" (one   *)
(* is past its threshold), "safe" (both are within the recovery limits)    *)
(* and "between".  safe_since is an age in checks, capped at the value it  *)
(* is compared with (Off is the code's 0), last_recovery_time the checks   *)
(* left until the next step up.  What is only displayed is left out:       *)
(* throttle_count, is_recovering, throttle_reason, throttled_count, and    *)
(* the current setting of a device that is not throttled, which the code   *)
(* overwrites with the setting shown at every check.                       *)
(***************************************************************************)
EXTENDS Integers

CONSTANTS
  Master,       \* this device
  Slots,        \* the slots of the slave registry
  MIN,          \* dial -> WATCHDOG_MIN_FREQUENCY, WATCHDOG_MIN_VOLTAGE
  STEP,         \* dial -> WATCHDOG_FREQ_STEP, WATCHDOG_VOLTAGE_STEP
  STABILITY,    \* WATCHDOG_RECOVERY_STABILITY_MS, in checks
  INTERVAL,     \* WATCHDOG_RECOVERY_INTERVAL_MS, in checks
  User,         \* the setting its user gave every device
  Outcomes,     \* what can become of a command to a slave
  Tears         \* the dials a heartbeat may have written when it is read

Dials == {"freq", "volt"}
Targets == {Master} \cup Slots
Conditions == {"bad", "between", "safe"}
AllOutcomes == {"delivered", "lost", "goneEarly", "gone"}
Off == -1

ASSUME WatchdogAssumption ==
  /\ Master \notin Slots
  /\ MIN \in [Dials -> Nat \ {0}]
  /\ STEP \in [Dials -> Nat \ {0}]
  /\ User \in [Dials -> Nat]
  /\ \A d \in Dials : User[d] >= MIN[d]
  /\ STABILITY \in Nat \ {0}
  /\ INTERVAL \in Nat \ {0}
  /\ Outcomes \subseteq AllOutcomes
  /\ Tears \subseteq SUBSET Dials

VARIABLES
  enabled,   \* s_wd.enabled: the watchdog task runs
  wd,        \* target -> its watchdog_device_status_t
  live,      \* target -> the setting in the memory of its board
  saved,     \* slot -> the setting in the NVS of its slave
  active,    \* slot -> s_slaves[i].active
  cond,      \* the master's conditions; slot -> those last reported
  rep,       \* slot -> the setting last reported
  unsafeAgo  \* history: slot -> checks since it was last seen unsafe

registryVars == <<active, cond, rep>>
vars == <<enabled, wd, live, saved, registryVars, unsafeAgo>>

Zero == [d \in Dials |-> 0]
NoStatus == [throttled |-> FALSE, recovered |-> FALSE, target |-> Zero,
             current |-> Zero, safe |-> Off, pause |-> 0]

Init ==
  /\ enabled \in BOOLEAN
  /\ wd = [t \in Targets |-> NoStatus]
  /\ live = [t \in Targets |-> User]
  /\ saved = [i \in Slots |-> User]
  /\ active = [i \in Slots |-> FALSE]
  /\ cond = [t \in Targets |-> "safe"]
  /\ rep = [i \in Slots |-> Zero]
  /\ unsafeAgo = [i \in Slots |-> STABILITY]

-----------------------------------------------------------------------------
(* Arithmetic of one check.                                                *)

\* One step down, not below the minimum; a value below it stays.
LoweredPast(s) == [d \in Dials |->        \* mutant: no clamp at the minimum
  IF s[d] <= MIN[d] THEN s[d] ELSE s[d] - STEP[d]]
LoweredCoarsely(s) == [d \in Dials |->    \* mutant: only whole steps
  IF s[d] - STEP[d] < MIN[d] THEN s[d] ELSE s[d] - STEP[d]]
Lowered(s) == [d \in Dials |->
  IF s[d] <= MIN[d] THEN s[d]
  ELSE IF s[d] - STEP[d] < MIN[d] THEN MIN[d] ELSE s[d] - STEP[d]]

\* One step up, not above the goal; a value above it stays.
RaisedBlindly(s, goal) == [d \in Dials |->      \* mutant: overshoots
  IF s[d] >= goal[d] THEN s[d] ELSE s[d] + STEP[d]]
Raised(s, goal) == [d \in Dials |->
  IF s[d] >= goal[d] THEN s[d]
  ELSE IF s[d] + STEP[d] > goal[d] THEN goal[d] ELSE s[d] + STEP[d]]

\* The recovery target after a throttle that follows a recovery.
TargetUnchecked(s) == [d \in Dials |-> s[d] - STEP[d]]    \* mutant: may underflow
LowerTarget(s) == [d \in Dials |->
  IF s[d] > MIN[d] + STEP[d] THEN s[d] - STEP[d] ELSE MIN[d]]

\* Recovery has reached its target.  (The code falls back on the original
\* setting when the target is 0; both are written together, and a target
\* that is 0 was copied from an original that is 0.)
RestoredAbove(w) == \A d \in Dials : w.current[d] > w.target[d]    \* mutant: > for >=
Restored(w) == \A d \in Dials : w.current[d] >= w.target[d]

Later(age, cap) == IF age = Off \/ age >= cap THEN age ELSE age + 1
Aged(w) == [w EXCEPT !.safe = Later(@, STABILITY), !.pause = IF @ = 0 THEN 0 ELSE @ - 1]

\* The first check in bad conditions fixes the recovery target.
Noted(w, shown) ==
  IF w.throttled THEN w
  ELSE [w EXCEPT !.current = shown,
                 !.recovered = FALSE,
                 !.target = IF w.recovered THEN LowerTarget(@) ELSE shown]

\* No longer throttled.
Released(w) == [w EXCEPT !.throttled = FALSE, !.current = Zero, !.safe = Off]

\* mutant: the safe timer runs on
TimerKept(w) == w
TimerStopped(w) == [w EXCEPT !.safe = Off]

-----------------------------------------------------------------------------
(* check_master and the loop body of check_slaves.  The master reads its   *)
(* own sensors and board; of a slave it sees the last heartbeat.           *)

HeartbeatStored(i, c) ==
  /\ cond' = [cond EXCEPT ![i] = c]
  /\ rep' = [rep EXCEPT ![i] = live[i]]

\* The setting seen.  The registry is read without its lock: when the check
\* falls into a heartbeat, the dials in "new" are written already.
Shown(t, new) ==
  IF t = Master THEN live[t]
  ELSE [d \in Dials |-> IF d \in new THEN live[t][d] ELSE rep[t][d]]

\* Target t is seen in conditions c, between two heartbeats or within one.
Reads(t, c, new) ==
  /\ enabled
  /\ t \in Slots => active[t]
  /\ \/ c = cond[t] /\ new = {} /\ UNCHANGED <<cond, rep>>
     \/ t \in Slots /\ new \in Tears /\ HeartbeatStored(t, c)
  /\ unsafeAgo' = [i \in Slots |->
       IF i # t THEN unsafeAgo[i]
       ELSE IF c = "safe" THEN Later(unsafeAgo[i], STABILITY) ELSE 0]
  /\ UNCHANGED enabled

\* Setting s for target t.  The master's own setting is saved and loaded; a
\* slave gets a command and cluster_slave_on_config saves it without loading
\* it.  An unacknowledged command may be lost, and the slave may be evicted
\* before it is looked up.
Command(t, s, how) ==
  IF t = Master
  THEN /\ how = "delivered"
       /\ live' = [live EXCEPT ![t] = s]
       /\ UNCHANGED <<saved, active>>
  ELSE /\ how \in Outcomes
       /\ saved' = IF how # "delivered" THEN saved
                   ELSE [saved EXCEPT ![t] =
                          [d \in Dials |-> IF s[d] > 0 THEN s[d] ELSE @[d]]]
       /\ active' = [active EXCEPT ![t] = how \notin {"goneEarly", "gone"}]
       /\ UNCHANGED live

NoCommand == UNCHANGED <<live, saved, active>>

\* Bad conditions: throttle_master or throttle_slave.
CheckBad(t, how, new) ==
  LET shown == Shown(t, new)
      w == Noted(Aged(wd[t]), shown)
      low == Lowered(w.current)
      sent == how \in {"delivered", "lost"}
  IN /\ Reads(t, "bad", new)
     /\ IF low # w.current \/ how = "goneEarly" THEN Command(t, low, how)
        ELSE how = "delivered" /\ NoCommand
     /\ wd' = [wd EXCEPT ![t] =
          IF w.throttled \/ how # "goneEarly"
          THEN [TimerStopped(w) EXCEPT !.throttled = TRUE,
                                       !.current = IF sent THEN low ELSE @]
          ELSE Released(w)]

\* Conditions that are neither bad nor safe stop the timer of a throttled
\* device.
CheckBetween(t, new) ==
  LET w == Aged(wd[t])
  IN /\ Reads(t, "between", new)
     /\ NoCommand
     /\ wd' = [wd EXCEPT ![t] = IF w.throttled THEN TimerStopped(w) ELSE w]

\* Safe conditions: the timer is started or has not expired, or the last
\* step up was too recent.
Waiting(w) ==
  \/ w.safe = Off
  \/ w.safe < STABILITY
  \/ w.pause > 0
CheckSafeWait(t, new) ==
  LET w == Aged(wd[t])
  IN /\ Reads(t, "safe", new)
     /\ w.throttled => Waiting(w)
     /\ NoCommand
     /\ wd' = [wd EXCEPT ![t] =
          IF w.throttled /\ w.safe = Off THEN [w EXCEPT !.safe = 0] ELSE w]

\* recover_master, recover_slave: one step up ...
CheckRecoverStep(t, how, new) ==
  LET w == Aged(wd[t])
      high == Raised(w.current, w.target)
      sent == how \in {"delivered", "lost"}
  IN /\ Reads(t, "safe", new)
     /\ w.throttled /\ ~Waiting(w)
     /\ ~Restored(w) \/ how = "goneEarly"
     /\ Command(t, high, how)
     /\ wd' = [wd EXCEPT ![t] =
          IF sent THEN [w EXCEPT !.current = high, !.pause = INTERVAL] ELSE w]

\* ... or the end of the recovery.
CheckRecovered(t, new) ==
  LET w == Aged(wd[t])
  IN /\ Reads(t, "safe", new)
     /\ w.throttled /\ ~Waiting(w)
     /\ Restored(w)
     /\ NoCommand
     /\ wd' = [wd EXCEPT ![t] = [Released(w) EXCEPT !.recovered = TRUE, !.pause = 0]]

\* A slot without a slave loses its throttle state, but not its history.
CheckInactive(i) ==
  /\ enabled
  /\ ~active[i]
  /\ wd' = [wd EXCEPT ![i] = Released(Aged(@))]
  /\ UNCHANGED <<enabled, live, saved, registryVars, unsafeAgo>>

-----------------------------------------------------------------------------
(* The surroundings of the watchdog.                                       *)

\* cluster_watchdog_enable, which waits for the end of a check.
Toggle ==
  /\ enabled' = ~enabled
  /\ UNCHANGED <<wd, live, saved, registryVars, unsafeAgo>>

\* Time passes while the watchdog is disabled.
TimePasses ==
  /\ ~enabled
  /\ wd' = [t \in Targets |-> Aged(wd[t])]
  /\ unsafeAgo' = [i \in Slots |-> Later(unsafeAgo[i], STABILITY)]
  /\ UNCHANGED <<enabled, live, saved, registryVars>>

\* The sensors of the master change.
Sense(c) ==
  /\ cond' = [cond EXCEPT ![Master] = c]
  /\ UNCHANGED <<enabled, wd, live, saved, active, rep, unsafeAgo>>

\* A heartbeat of the slave in slot i arrives.
Heartbeat(i, c) ==
  /\ active[i]
  /\ HeartbeatStored(i, c)
  /\ UNCHANGED <<enabled, wd, live, saved, active, unsafeAgo>>

Evict(i) ==
  /\ active[i]
  /\ active' = [active EXCEPT ![i] = FALSE]
  /\ UNCHANGED <<enabled, wd, live, saved, cond, rep, unsafeAgo>>

\* The slot is taken by the device that had it, or by another one.  Only the
\* temperature in the slot is reset: the conditions c in it get no worse, and
\* the setting stays that of the slave before.
NoWorse == [bad |-> Conditions, between |-> {"between", "safe"}, safe |-> {"safe"}]
Register(i, fresh, c) ==
  /\ ~active[i]
  /\ c \in NoWorse[cond[i]]
  /\ active' = [active EXCEPT ![i] = TRUE]
  /\ cond' = [cond EXCEPT ![i] = c]
  /\ live' = IF fresh THEN [live EXCEPT ![i] = User] ELSE live
  /\ saved' = IF fresh THEN [saved EXCEPT ![i] = User] ELSE saved
  /\ UNCHANGED <<enabled, wd, rep, unsafeAgo>>

\* A slave loads its saved setting when it starts, or when its own user
\* saves settings.
SlaveReboot(i) ==
  /\ live' = [live EXCEPT ![i] = saved[i]]
  /\ UNCHANGED <<enabled, wd, saved, registryVars, unsafeAgo>>

\* The master restarts: the flag enabled and its setting are in NVS, all
\* else is new.
MasterReboot ==
  /\ wd' = [t \in Targets |-> NoStatus]
  /\ active' = [i \in Slots |-> FALSE]
  /\ cond' = [t \in Targets |-> IF t = Master THEN cond[t] ELSE "safe"]
  /\ rep' = [i \in Slots |-> Zero]
  /\ UNCHANGED <<enabled, live, saved, unsafeAgo>>

Check(t) ==
  \E new \in SUBSET Dials :
    \/ \E how \in AllOutcomes : CheckBad(t, how, new) \/ CheckRecoverStep(t, how, new)
    \/ CheckBetween(t, new)
    \/ CheckSafeWait(t, new)
    \/ CheckRecovered(t, new)

Next ==
  \/ \E t \in Targets : Check(t)
  \/ \E i \in Slots : CheckInactive(i)
  \/ Toggle
  \/ TimePasses
  \/ \E c \in Conditions : Sense(c)
  \/ \E i \in Slots, c \in Conditions : Heartbeat(i, c)
  \/ \E i \in Slots, fresh \in BOOLEAN, c \in Conditions : Register(i, fresh, c)
  \/ \E i \in Slots : Evict(i) \/ SlaveReboot(i)
  \/ MasterReboot

Spec == Init /\ [][Next]_vars

\* The watchdog task checks every device again and again.  What the
\* surroundings may do during a check is not forced.
FairCheck(t) == Check(t) /\ UNCHANGED registryVars
LiveSpec == Spec /\ \A t \in Targets : WF_vars(FairCheck(t))

-----------------------------------------------------------------------------
(* Properties.                                                             *)

Settings == [Dials -> Nat]
Statuses == [throttled : BOOLEAN, recovered : BOOLEAN, target : Settings,
             current : Settings, safe : Off .. STABILITY,
             pause : 0 .. INTERVAL]
\* Every variable keeps its type.
TypeOK ==
  /\ enabled \in BOOLEAN
  /\ wd \in [Targets -> Statuses]
  /\ live \in [Targets -> Settings]
  /\ saved \in [Slots -> Settings]
  /\ active \in [Slots -> BOOLEAN]
  /\ cond \in [Targets -> Conditions]
  /\ rep \in [Slots -> Settings]
  /\ unsafeAgo \in [Slots -> 0 .. STABILITY]

AtMost(s, bound) == \A d \in Dials : s[d] <= bound[d]

\* Through throttling, recovery, lost commands, evictions, slots that change
\* hands and restarts, the watchdog never saves or runs a setting above the
\* one the user chose.
NeverAboveUser ==
  /\ \A t \in Targets : AtMost(live[t], User)
  /\ \A i \in Slots : AtMost(saved[i], User)

\* Nor does it push one below its minimum.
NeverBelowMin ==
  /\ \A t \in Targets : AtMost(MIN, live[t])
  /\ \A i \in Slots : AtMost(MIN, saved[i])

\* A slave is stepped up only when the watchdog has not seen it in unsafe
\* conditions for the whole stability time, whatever was interrupted by
\* evictions, restarts or switching the watchdog off.
NoEarlyRecovery ==
  [][\A i \in Slots : \A d \in Dials :
       wd[i].throttled /\ wd'[i].current[d] > wd[i].current[d]
         => unsafeAgo'[i] >= STABILITY]_vars

\* When the watchdog stays on and sees a device in one condition for ever.
Steadily(t, c) == enabled /\ cond[t] = c /\ (t \in Slots => active[t])

\* A device that is seen in safe conditions for ever is throttled no longer.
RecoveryCompletes ==
  \A t \in Targets : <>[]Steadily(t, "safe") => <>[]~wd[t].throttled

\* A master in bad conditions for ever ends at the lowest setting.
HotMasterThrottled == <>[]Steadily(Master, "bad") => <>[](live[Master] = MIN)

\* A slave in bad conditions for ever ends at the lowest setting.
HotSlaveThrottled ==
  \A i \in Slots : <>[]Steadily(i, "bad") => <>[](live[i] = MIN)
=============================================================================
