------------------------ MODULE ClusterWatchdogProofs ------------------------
(***************************************************************************)
(* The watchdog keeps every setting between the minimum and the user's.    *)
(***************************************************************************)
EXTENDS ClusterWatchdog, TLAPS

InRange(s) == s \in Settings /\ AtMost(s, User) /\ AtMost(MIN, s)

\* A setting as the registry may hold it: a dial is in the range, or 0 when
\* nothing was reported yet.
SettingOK(s) ==
  /\ s \in Settings
  /\ AtMost(s, User)
  /\ \A d \in Dials : s[d] = 0 \/ MIN[d] <= s[d]

\* A throttled dial whose setting is not known has no recovery target either.
Consistent(w) ==
  /\ SettingOK(w.current)
  /\ \A d \in Dials : w.current[d] = 0 => w.target[d] = 0

StatusOK(w) ==
  /\ w \in Statuses
  /\ AtMost(w.target, User)
  /\ w.throttled => Consistent(w)

StatusInv == wd \in [Targets -> Statuses] /\ \A t \in Targets : StatusOK(wd[t])
DeviceInv ==
  /\ live \in [Targets -> Settings] /\ \A t \in Targets : InRange(live[t])
  /\ saved \in [Slots -> Settings] /\ \A i \in Slots : InRange(saved[i])
ReportInv == rep \in [Slots -> Settings] /\ \A i \in Slots : SettingOK(rep[i])
\* What was throttled, or may be at the next check, is known.
KnownInv ==
  /\ wd[Master].throttled => AtMost(MIN, wd[Master].current)
  /\ \A i \in Slots :
       wd[i].throttled \/ wd[i].recovered \/ cond[i] # "safe" => AtMost(MIN, rep[i])
FlagInv ==
  /\ enabled \in BOOLEAN
  /\ active \in [Slots -> BOOLEAN]
  /\ cond \in [Targets -> Conditions]
  /\ unsafeAgo \in [Slots -> 0 .. STABILITY]

\* The inductive invariant.  The ranges of live and saved alone are not
\* inductive: what is written to them comes from wd, that from rep, and both
\* hold zeros for a slave that has not reported yet.
IInv == StatusInv /\ DeviceInv /\ ReportInv /\ KnownInv /\ FlagInv

-----------------------------------------------------------------------------
(* The arithmetic of one check.                                            *)

LEMMA Constants ==
  /\ Master \in Targets
  /\ Zero \in Settings /\ SettingOK(Zero)
  /\ InRange(User)
  /\ \A d \in Dials : MIN[d] \in Nat /\ STEP[d] \in Nat /\ User[d] \in Nat /\ MIN[d] > 0
BY WatchdogAssumption DEF Targets, Zero, Settings, AtMost, InRange, SettingOK

LEMMA InRangeOK ==
  ASSUME NEW s, InRange(s)
  PROVE  SettingOK(s)
BY DEF InRange, SettingOK, AtMost

LEMMA LoweredOK ==
  ASSUME NEW s, SettingOK(s)
  PROVE  /\ SettingOK(Lowered(s))
         /\ \A d \in Dials : Lowered(s)[d] = 0 => s[d] = 0
         /\ AtMost(MIN, s) => InRange(Lowered(s))
BY Constants DEF Lowered, Settings, AtMost, InRange, SettingOK

LEMMA RaisedOK ==
  ASSUME NEW s, SettingOK(s), NEW goal \in Settings, AtMost(goal, User),
         \A d \in Dials : s[d] = 0 => goal[d] = 0
  PROVE  /\ SettingOK(Raised(s, goal))
         /\ \A d \in Dials : Raised(s, goal)[d] = 0 => goal[d] = 0
         /\ AtMost(MIN, s) => InRange(Raised(s, goal))
BY Constants DEF Raised, Settings, AtMost, InRange, SettingOK

LEMMA TargetAtMost ==
  ASSUME NEW s \in Settings, AtMost(s, User)
  PROVE  LowerTarget(s) \in Settings /\ AtMost(LowerTarget(s), User)
BY Constants DEF LowerTarget, Settings, AtMost, InRange

LEMMA LaterType ==
  ASSUME NEW cap \in Nat, NEW age \in Off .. cap
  PROVE  /\ Later(age, cap) \in Off .. cap
         /\ age \in 0 .. cap => Later(age, cap) \in 0 .. cap
BY DEF Later, Off

LEMMA Ages ==
  /\ {Off, 0} \subseteq Off .. STABILITY
  /\ {0, INTERVAL} \subseteq 0 .. INTERVAL
BY WatchdogAssumption DEF Off

LEMMA AgedOK ==
  ASSUME NEW w, StatusOK(w)
  PROVE  /\ StatusOK(Aged(w))
         /\ Aged(w).throttled = w.throttled
         /\ Aged(w).recovered = w.recovered
         /\ Aged(w).current = w.current
<1>1. w \in Statuses
  BY DEF StatusOK
<1>2. Later(w.safe, STABILITY) \in Off .. STABILITY
  BY <1>1, LaterType, WatchdogAssumption DEF Statuses
<1>3. (IF w.pause = 0 THEN 0 ELSE w.pause - 1) \in 0 .. INTERVAL
  BY <1>1, WatchdogAssumption DEF Statuses
<1>4. Aged(w) \in Statuses
  BY <1>1, <1>2, <1>3 DEF Aged, Statuses
<1>5. /\ Aged(w).throttled = w.throttled
      /\ Aged(w).recovered = w.recovered
      /\ Aged(w).current = w.current
      /\ Aged(w).target = w.target
  BY <1>1 DEF Aged, Statuses
<1> QED
  BY <1>4, <1>5 DEF StatusOK, Consistent

LEMMA ReleasedOK ==
  ASSUME NEW w, StatusOK(w)
  PROVE  /\ StatusOK(Released(w))
         /\ ~Released(w).throttled
         /\ Released(w).recovered = w.recovered
<1>1. w \in Statuses
  BY DEF StatusOK
<1>2. Released(w) \in Statuses
  BY <1>1, Constants, Ages DEF Released, Statuses
<1>3. /\ ~Released(w).throttled
      /\ Released(w).recovered = w.recovered
      /\ Released(w).target = w.target
  BY <1>1 DEF Released, Statuses
<1> QED
  BY <1>2, <1>3 DEF StatusOK

LEMMA TimerOK ==
  ASSUME NEW w, StatusOK(w), NEW age \in {Off, 0}
  PROVE  LET v == [w EXCEPT !.safe = age]
         IN  /\ StatusOK(v)
             /\ v.throttled = w.throttled
             /\ v.recovered = w.recovered
             /\ v.current = w.current
             /\ v.target = w.target
<1> DEFINE v == [w EXCEPT !.safe = age]
<1>1. w \in Statuses
  BY DEF StatusOK
<1>2. v \in Statuses
  BY <1>1, Ages DEF Statuses
<1>3. /\ v.throttled = w.throttled
      /\ v.recovered = w.recovered
      /\ v.current = w.current
      /\ v.target = w.target
  BY <1>1 DEF Statuses
<1> HIDE DEF v
<1>4. StatusOK(v)
  BY <1>2, <1>3 DEF StatusOK, Consistent
<1> QED
  BY <1>3, <1>4 DEF v

-----------------------------------------------------------------------------
(* The parts of a check.                                                   *)

LEMMA ShownOK ==
  ASSUME IInv, NEW t \in Targets, NEW new \in SUBSET Dials
  PROVE  /\ SettingOK(Shown(t, new))
         /\ t = Master \/ wd[t].recovered => AtMost(MIN, Shown(t, new))
<1>1. CASE t = Master
  BY <1>1, InRangeOK DEF IInv, DeviceInv, InRange, Shown
<1>2. CASE t # Master
  <2>1. t \in Slots
    BY <1>2 DEF Targets
  <2>2. SettingOK(rep[t]) /\ InRange(live[t])
    BY <2>1 DEF IInv, ReportInv, DeviceInv
  <2>3. Shown(t, new) = [d \in Dials |-> IF d \in new THEN live[t][d] ELSE rep[t][d]]
    BY <1>2 DEF Shown
  <2>4. SettingOK(Shown(t, new))
    BY <2>2, <2>3 DEF SettingOK, InRange, AtMost, Settings
  <2>5. wd[t].recovered => AtMost(MIN, rep[t])
    BY <2>1 DEF IInv, KnownInv
  <2>6. wd[t].recovered => AtMost(MIN, Shown(t, new))
    BY <2>2, <2>3, <2>5 DEF InRange, AtMost
  <2> QED
    BY <1>2, <2>4, <2>6
<1> QED
  BY <1>1, <1>2

\* After a read the registry holds a report, or nothing happened yet.
LEMMA ReadsOK ==
  ASSUME IInv, NEW t \in Targets, NEW c \in Conditions, NEW new, Reads(t, c, new)
  PROVE  /\ ReportInv'
         /\ cond' \in [Targets -> Conditions]
         /\ \A i \in Slots \ {t} : rep'[i] = rep[i] /\ cond'[i] = cond[i]
         /\ t \in Slots /\ (wd[t].throttled \/ wd[t].recovered \/ c # "safe" \/ cond'[t] # "safe")
              => AtMost(MIN, rep'[t])
<1>1. CASE c = cond[t] /\ UNCHANGED <<cond, rep>>
  BY <1>1 DEF IInv, ReportInv, KnownInv, FlagInv
<1>2. CASE t \in Slots /\ HeartbeatStored(t, c)
  <2>1. InRange(live[t]) /\ live[t] \in Settings
    BY DEF IInv, DeviceInv
  <2>2. SettingOK(live[t]) /\ AtMost(MIN, live[t])
    BY <2>1, InRangeOK DEF InRange
  <2>3. rep' = [rep EXCEPT ![t] = live[t]] /\ cond' = [cond EXCEPT ![t] = c]
    BY <1>2 DEF HeartbeatStored
  <2>4. rep \in [Slots -> Settings] /\ cond \in [Targets -> Conditions]
    BY DEF IInv, ReportInv, FlagInv
  <2>5. ReportInv'
    BY <1>2, <2>1, <2>2, <2>3, <2>4 DEF IInv, ReportInv
  <2>6. \A i \in Slots \ {t} : rep'[i] = rep[i] /\ cond'[i] = cond[i]
    BY <2>3, <2>4 DEF Targets
  <2>7. rep'[t] = live[t]
    BY <1>2, <2>3, <2>4
  <2> QED
    BY <2>2, <2>3, <2>4, <2>5, <2>6, <2>7
<1> QED
  BY <1>1, <1>2 DEF Reads

LEMMA CommandOK ==
  ASSUME IInv, NEW t \in Targets, NEW s, NEW how, Command(t, s, how),
         SettingOK(s), t = Master => AtMost(MIN, s)
  PROVE  DeviceInv' /\ active' \in [Slots -> BOOLEAN]
<1>1. CASE t = Master
  BY <1>1 DEF IInv, DeviceInv, FlagInv, InRange, SettingOK, Command
<1>2. CASE t # Master
  <2> DEFINE new == [d \in Dials |-> IF s[d] > 0 THEN s[d] ELSE saved[t][d]]
  <2>1. t \in Slots
    BY <1>2 DEF Targets
  <2>2. InRange(saved[t])
    BY <2>1 DEF IInv, DeviceInv
  <2>3. InRange(new)
    BY <2>2, Constants DEF InRange, SettingOK, AtMost, Settings
  <2>4. saved' = IF how # "delivered" THEN saved ELSE [saved EXCEPT ![t] = new]
    BY <1>2 DEF Command
  <2>5. live' = live /\ active' \in [Slots -> BOOLEAN]
    BY <1>2 DEF Command, IInv, FlagInv
  <2> HIDE DEF new
  <2> QED
    BY <2>1, <2>3, <2>4, <2>5 DEF IInv, DeviceInv, InRange
<1> QED
  BY <1>1, <1>2

LEMMA NoCommandOK ==
  ASSUME IInv, NoCommand
  PROVE  DeviceInv' /\ active' \in [Slots -> BOOLEAN]
BY DEF NoCommand, IInv, DeviceInv, FlagInv

\* A check that stores an acceptable status for its target.
LEMMA CheckOK ==
  ASSUME IInv, NEW t \in Targets, NEW c \in Conditions, NEW new, Reads(t, c, new),
         NEW w, StatusOK(w), wd' = [wd EXCEPT ![t] = w],
         t = Master /\ w.throttled => AtMost(MIN, w.current),
         w.throttled \/ w.recovered
           => wd[t].throttled \/ wd[t].recovered \/ c # "safe",
         DeviceInv', active' \in [Slots -> BOOLEAN]
  PROVE  IInv'
<1>1. wd'[t] = w /\ \A u \in Targets \ {t} : wd'[u] = wd[u]
  BY DEF IInv, StatusInv
<1>2. StatusInv'
  BY DEF IInv, StatusInv, StatusOK
<1>3. KnownInv'
  <2>1. wd'[Master].throttled => AtMost(MIN, wd'[Master].current)
    BY <1>1, Constants DEF IInv, KnownInv
  <2>2. ASSUME NEW i \in Slots,
               wd'[i].throttled \/ wd'[i].recovered \/ cond'[i] # "safe"
        PROVE  AtMost(MIN, rep'[i])
    <3>1. CASE i = t
      BY <1>1, <2>2, <3>1, ReadsOK
    <3>2. CASE i # t
      <4>1. wd'[i] = wd[i] /\ rep'[i] = rep[i] /\ cond'[i] = cond[i]
        BY <1>1, <3>2, ReadsOK DEF Targets
      <4> QED
        BY <2>2, <4>1 DEF IInv, KnownInv
    <3> QED
      BY <3>1, <3>2
  <2> QED
    BY <2>1, <2>2 DEF KnownInv
<1>4. unsafeAgo' \in [Slots -> 0 .. STABILITY]
  <2>1. \A i \in Slots : Later(unsafeAgo[i], STABILITY) \in 0 .. STABILITY
    BY LaterType, WatchdogAssumption DEF IInv, FlagInv, Off
  <2> QED
    BY <2>1, WatchdogAssumption DEF IInv, FlagInv, Reads
<1>5. enabled' \in BOOLEAN
  BY DEF IInv, FlagInv, Reads
<1> QED
  BY <1>2, <1>3, <1>4, <1>5, ReadsOK DEF IInv, FlagInv

-----------------------------------------------------------------------------
(* Each action keeps the invariant.                                        *)

\* What the first check in bad conditions notes is consistent.
LEMMA NotedOK ==
  ASSUME IInv, NEW t \in Targets, NEW w, StatusOK(w),
         w.throttled = wd[t].throttled, w.recovered = wd[t].recovered,
         w.current = wd[t].current,
         NEW s, SettingOK(s), t = Master \/ wd[t].recovered => AtMost(MIN, s)
  PROVE  LET v == Noted(w, s)
         IN  /\ StatusOK(v) /\ Consistent(v)
             /\ v.throttled = w.throttled
             /\ t = Master => AtMost(MIN, v.current)
<1>1. CASE w.throttled
  <2>1. t = Master => AtMost(MIN, w.current)
    BY <1>1 DEF IInv, KnownInv
  <2> QED
    BY <1>1, <2>1 DEF Noted, StatusOK
<1>2. CASE ~w.throttled
  <2> DEFINE v == Noted(w, s)
             g == IF w.recovered THEN LowerTarget(w.target) ELSE s
  <2>1. w \in Statuses /\ AtMost(w.target, User) /\ w.target \in Settings
    BY DEF StatusOK, Statuses
  <2>2. g \in Settings /\ AtMost(g, User)
    BY <2>1, TargetAtMost DEF SettingOK
  <2>3. \A d \in Dials : s[d] = 0 => g[d] = 0
    <3>1. CASE w.recovered
      BY <3>1, Constants DEF AtMost
    <3> QED
      BY <3>1
  <2>4. v = [w EXCEPT !.current = s, !.recovered = FALSE, !.target = g]
    BY <1>2 DEF Noted
  <2> HIDE DEF v, g
  <2>5. v \in Statuses
    BY <2>1, <2>2, <2>4 DEF Statuses, SettingOK
  <2>6. v.current = s /\ v.target = g /\ v.throttled = w.throttled
    BY <2>1, <2>4 DEF Statuses
  <2>7. StatusOK(v) /\ Consistent(v)
    BY <2>2, <2>3, <2>5, <2>6 DEF StatusOK, Consistent
  <2> QED
    BY <2>6, <2>7 DEF v
<1> QED
  BY <1>1, <1>2

LEMMA CheckBadStep ==
  ASSUME IInv, NEW t \in Targets, NEW how \in AllOutcomes,
         NEW new \in SUBSET Dials, CheckBad(t, how, new)
  PROVE  IInv'
<1> DEFINE shown == Shown(t, new)
           w == Noted(Aged(wd[t]), shown)
           low == Lowered(w.current)
           sent == how \in {"delivered", "lost"}
           stopped == TimerStopped(w)
           current == IF sent THEN low ELSE stopped.current
           taken == [stopped EXCEPT !.throttled = TRUE, !.current = current]
           final == IF w.throttled \/ how # "goneEarly" THEN taken ELSE Released(w)
<1>1. StatusOK(Aged(wd[t])) /\ SettingOK(shown)
  BY AgedOK, ShownOK DEF IInv, StatusInv
<1>2. /\ StatusOK(w) /\ Consistent(w)
      /\ t = Master => AtMost(MIN, w.current)
  BY <1>1, AgedOK, ShownOK, NotedOK DEF IInv, StatusInv
<1>3. /\ SettingOK(low)
      /\ \A d \in Dials : low[d] = 0 => w.current[d] = 0
      /\ t = Master => AtMost(MIN, low)
  BY <1>2, LoweredOK DEF Consistent, InRange
<1>4. /\ Reads(t, "bad", new) /\ "bad" \in Conditions
      /\ IF low # w.current \/ how = "goneEarly" THEN Command(t, low, how)
         ELSE how = "delivered" /\ NoCommand
      /\ wd' = [wd EXCEPT ![t] = final]
  BY DEF CheckBad, Conditions
<1>5. DeviceInv' /\ active' \in [Slots -> BOOLEAN]
  BY <1>3, <1>4, CommandOK, NoCommandOK
<1>6. StatusOK(taken) /\ (t = Master => AtMost(MIN, taken.current))
  <2>1. /\ StatusOK(stopped)
        /\ stopped.current = w.current
        /\ stopped.target = w.target
    BY <1>2, TimerOK DEF TimerStopped
  <2> HIDE DEF low, stopped, w
  <2>2. /\ SettingOK(current)
        /\ \A d \in Dials : current[d] = 0 => stopped.target[d] = 0
        /\ t = Master => AtMost(MIN, current)
    BY <1>2, <1>3, <2>1 DEF Consistent
  <2> HIDE DEF current
  <2>3. stopped \in Statuses
    BY <2>1 DEF StatusOK
  <2>4. taken \in Statuses
    BY <2>2, <2>3 DEF Statuses, SettingOK
  <2>5. taken.current = current /\ taken.target = stopped.target
    BY <2>3 DEF Statuses
  <2> QED
    BY <2>1, <2>2, <2>4, <2>5 DEF StatusOK, Consistent
<1>7. StatusOK(final) /\ (t = Master /\ final.throttled => AtMost(MIN, final.current))
  BY <1>2, <1>6, ReleasedOK
<1> HIDE DEF final
<1> QED
  BY <1>4, <1>5, <1>7, CheckOK

LEMMA CheckBetweenStep ==
  ASSUME IInv, NEW t \in Targets, NEW new, CheckBetween(t, new)
  PROVE  IInv'
<1> DEFINE w == Aged(wd[t])
           final == IF w.throttled THEN TimerStopped(w) ELSE w
<1>1. /\ StatusOK(w)
      /\ w.throttled = wd[t].throttled
      /\ w.current = wd[t].current
  BY AgedOK DEF IInv, StatusInv
<1>2. StatusOK(final) /\ final.throttled = w.throttled /\ final.current = w.current
  BY <1>1, TimerOK DEF TimerStopped
<1>3. /\ Reads(t, "between", new) /\ "between" \in Conditions /\ "between" # "safe"
      /\ NoCommand
      /\ wd' = [wd EXCEPT ![t] = final]
  BY DEF CheckBetween, Conditions
<1>4. t = Master /\ wd[t].throttled => AtMost(MIN, wd[t].current)
  BY DEF IInv, KnownInv
<1> HIDE DEF final
<1> QED
  BY <1>1, <1>2, <1>3, <1>4, NoCommandOK, CheckOK

LEMMA CheckSafeWaitStep ==
  ASSUME IInv, NEW t \in Targets, NEW new, CheckSafeWait(t, new)
  PROVE  IInv'
<1> DEFINE w == Aged(wd[t])
           final == IF w.throttled /\ w.safe = Off THEN [w EXCEPT !.safe = 0] ELSE w
<1>1. /\ StatusOK(w)
      /\ w.throttled = wd[t].throttled
      /\ w.recovered = wd[t].recovered
      /\ w.current = wd[t].current
  BY AgedOK DEF IInv, StatusInv
<1>2. /\ StatusOK(final)
      /\ final.throttled = w.throttled
      /\ final.recovered = w.recovered
      /\ final.current = w.current
  <2> HIDE DEF w
  <2> QED
    BY <1>1, TimerOK
<1>3. /\ Reads(t, "safe", new) /\ "safe" \in Conditions
      /\ NoCommand
      /\ wd' = [wd EXCEPT ![t] = final]
  BY DEF CheckSafeWait, Conditions
<1>4. t = Master /\ wd[t].throttled => AtMost(MIN, wd[t].current)
  BY DEF IInv, KnownInv
<1> HIDE DEF final
<1> QED
  BY <1>1, <1>2, <1>3, <1>4, NoCommandOK, CheckOK

LEMMA CheckRecoverStepStep ==
  ASSUME IInv, NEW t \in Targets, NEW how \in AllOutcomes, NEW new,
         CheckRecoverStep(t, how, new)
  PROVE  IInv'
<1> DEFINE w == Aged(wd[t])
           high == Raised(w.current, w.target)
           sent == how \in {"delivered", "lost"}
           stepped == [w EXCEPT !.current = high, !.pause = INTERVAL]
           final == IF sent THEN stepped ELSE w
<1>1. /\ StatusOK(w)
      /\ w.throttled = wd[t].throttled
      /\ w.current = wd[t].current
  BY AgedOK DEF IInv, StatusInv
<1>2. /\ Reads(t, "safe", new) /\ "safe" \in Conditions
      /\ w.throttled
      /\ Command(t, high, how)
      /\ wd' = [wd EXCEPT ![t] = final]
  BY DEF CheckRecoverStep, Conditions
<1>3. t = Master => AtMost(MIN, w.current)
  BY <1>1, <1>2 DEF IInv, KnownInv
<1>4. /\ w \in Statuses /\ w.target \in Settings
      /\ AtMost(w.target, User) /\ Consistent(w)
  BY <1>1, <1>2 DEF StatusOK, Statuses
<1>5. /\ SettingOK(high)
      /\ \A d \in Dials : high[d] = 0 => w.target[d] = 0
      /\ t = Master => AtMost(MIN, high)
  BY <1>3, <1>4, RaisedOK DEF Consistent, InRange
<1>6. DeviceInv' /\ active' \in [Slots -> BOOLEAN]
  BY <1>2, <1>5, CommandOK
<1>7. StatusOK(stepped) /\ stepped.current = high
  <2> HIDE DEF w, high
  <2>1. stepped \in Statuses
    BY <1>4, <1>5, Ages DEF Statuses, SettingOK
  <2>2. stepped.current = high /\ stepped.target = w.target
    BY <1>4 DEF Statuses
  <2> QED
    BY <1>4, <1>5, <2>1, <2>2 DEF StatusOK, Consistent
<1>8. StatusOK(final) /\ (t = Master => AtMost(MIN, final.current))
  BY <1>1, <1>3, <1>5, <1>7
<1> HIDE DEF final
<1> QED
  BY <1>1, <1>2, <1>6, <1>8, CheckOK

LEMMA CheckRecoveredStep ==
  ASSUME IInv, NEW t \in Targets, NEW new, CheckRecovered(t, new)
  PROVE  IInv'
<1> DEFINE w == Aged(wd[t])
           free == Released(w)
           final == [free EXCEPT !.recovered = TRUE, !.pause = 0]
<1>1. StatusOK(w) /\ w.throttled = wd[t].throttled
  BY AgedOK DEF IInv, StatusInv
<1>2. /\ Reads(t, "safe", new) /\ "safe" \in Conditions
      /\ w.throttled
      /\ NoCommand
      /\ wd' = [wd EXCEPT ![t] = final]
  BY DEF CheckRecovered, Conditions
<1>3. StatusOK(free) /\ ~free.throttled
  BY <1>1, ReleasedOK
<1> HIDE DEF w, free
<1>4. free \in Statuses
  BY <1>3 DEF StatusOK
<1>5. final \in Statuses
  BY <1>4, Ages DEF Statuses
<1>6. ~final.throttled /\ final.target = free.target
  BY <1>3, <1>4 DEF Statuses
<1>7. StatusOK(final)
  BY <1>3, <1>5, <1>6 DEF StatusOK
<1> HIDE DEF final
<1> QED
  BY <1>1, <1>2, <1>6, <1>7, NoCommandOK, CheckOK

LEMMA CheckInactiveStep ==
  ASSUME IInv, NEW i \in Slots, CheckInactive(i)
  PROVE  IInv'
<1> DEFINE final == Released(Aged(wd[i]))
<1>1. i \in Targets /\ i # Master
  BY WatchdogAssumption DEF Targets
<1>2. StatusOK(final) /\ ~final.throttled /\ final.recovered = wd[i].recovered
  BY <1>1, AgedOK, ReleasedOK DEF IInv, StatusInv
<1>3. wd' = [wd EXCEPT ![i] = final] /\ UNCHANGED <<rep, cond>>
  BY DEF CheckInactive, registryVars
<1> HIDE DEF final
<1>4. StatusInv'
  BY <1>1, <1>2, <1>3 DEF IInv, StatusInv, StatusOK
<1>5. KnownInv'
  <2>1. wd'[i] = final /\ \A u \in Targets \ {i} : wd'[u] = wd[u]
    BY <1>1, <1>3 DEF IInv, StatusInv
  <2>2. wd'[Master] = wd[Master]
    BY <1>1, <2>1, Constants
  <2>3. \A j \in Slots : wd'[j].throttled \/ wd'[j].recovered
                           => wd[j].throttled \/ wd[j].recovered
    BY <1>2, <2>1 DEF Targets
  <2> QED
    BY <1>3, <2>2, <2>3 DEF IInv, KnownInv
<1> QED
  BY <1>4, <1>5 DEF IInv, DeviceInv, ReportInv, FlagInv, CheckInactive, registryVars

LEMMA TimePassesStep ==
  ASSUME IInv, TimePasses
  PROVE  IInv'
<1>1. \A t \in Targets : /\ StatusOK(Aged(wd[t]))
                         /\ Aged(wd[t]).throttled = wd[t].throttled
                         /\ Aged(wd[t]).recovered = wd[t].recovered
                         /\ Aged(wd[t]).current = wd[t].current
  BY AgedOK DEF IInv, StatusInv
<1>2. wd' = [t \in Targets |-> Aged(wd[t])]
  BY DEF TimePasses
<1>3. StatusInv'
  BY <1>1, <1>2 DEF StatusInv, StatusOK
<1>4. KnownInv'
  BY <1>1, <1>2, Constants DEF IInv, KnownInv, TimePasses, registryVars, Targets
<1>5. unsafeAgo' \in [Slots -> 0 .. STABILITY]
  <2>1. \A i \in Slots : Later(unsafeAgo[i], STABILITY) \in 0 .. STABILITY
    BY LaterType, WatchdogAssumption DEF IInv, FlagInv, Off
  <2> QED
    BY <2>1 DEF TimePasses
<1> QED
  BY <1>3, <1>4, <1>5 DEF IInv, DeviceInv, ReportInv, FlagInv, TimePasses, registryVars

LEMMA RegisterStep ==
  ASSUME IInv, NEW i \in Slots, NEW fresh \in BOOLEAN, NEW c \in Conditions,
         Register(i, fresh, c)
  PROVE  IInv'
<1>1. i \in Targets /\ InRange(User)
  BY Constants DEF Targets
<1>2. DeviceInv'
  BY <1>1 DEF IInv, DeviceInv, InRange, Register
<1>3. cond' = [cond EXCEPT ![i] = c] /\ (c # "safe" => cond[i] # "safe")
  BY DEF Register, NoWorse
<1>4. KnownInv'
  BY <1>1, <1>3 DEF IInv, KnownInv, FlagInv, Register, Targets
<1> QED
  BY <1>2, <1>3, <1>4 DEF IInv, StatusInv, ReportInv, FlagInv, Register

LEMMA HeartbeatStep ==
  ASSUME IInv, NEW i \in Slots, NEW c \in Conditions, Heartbeat(i, c)
  PROVE  IInv'
<1>1. i \in Targets /\ InRange(live[i]) /\ SettingOK(live[i])
  BY InRangeOK DEF Targets, IInv, DeviceInv
<1>2. rep' = [rep EXCEPT ![i] = live[i]] /\ cond' = [cond EXCEPT ![i] = c]
  BY DEF Heartbeat, HeartbeatStored
<1>3. ReportInv' /\ cond' \in [Targets -> Conditions]
  BY <1>1, <1>2 DEF IInv, ReportInv, FlagInv, SettingOK
<1>4. KnownInv'
  BY <1>1, <1>2 DEF IInv, KnownInv, ReportInv, FlagInv, Heartbeat, InRange, Targets
<1> QED
  BY <1>3, <1>4 DEF IInv, StatusInv, DeviceInv, FlagInv, Heartbeat

LEMMA SenseStep ==
  ASSUME IInv, NEW c \in Conditions, Sense(c)
  PROVE  IInv'
<1>1. \A i \in Slots : cond'[i] = cond[i]
  BY WatchdogAssumption DEF IInv, FlagInv, Sense, Targets
<1>2. KnownInv'
  BY <1>1 DEF IInv, KnownInv, Sense
<1> QED
  BY <1>2 DEF IInv, StatusInv, DeviceInv, ReportInv, FlagInv, Sense

\* What every target holds after a start of the master.
LEMMA NoStatusOK ==
  /\ StatusOK(NoStatus) /\ NoStatus \in Statuses
  /\ ~NoStatus.throttled /\ ~NoStatus.recovered
BY Constants, Ages DEF StatusOK, SettingOK, NoStatus, Statuses, Consistent

LEMMA MasterRebootStep ==
  ASSUME IInv, MasterReboot
  PROVE  IInv'
<1>1. StatusInv'
  BY NoStatusOK DEF StatusInv, MasterReboot
<1>2. ReportInv'
  BY Constants DEF ReportInv, MasterReboot
<1>3. KnownInv'
  BY NoStatusOK, WatchdogAssumption DEF KnownInv, MasterReboot, Targets
<1>4. FlagInv'
  BY DEF IInv, FlagInv, MasterReboot, Conditions, Targets
<1> QED
  BY <1>1, <1>2, <1>3, <1>4 DEF IInv, DeviceInv, MasterReboot

LEMMA SlaveRebootStep ==
  ASSUME IInv, NEW i \in Slots, SlaveReboot(i)
  PROVE  IInv'
<1>1. i \in Targets /\ InRange(saved[i])
  BY DEF Targets, IInv, DeviceInv
<1>2. DeviceInv'
  BY <1>1 DEF IInv, DeviceInv, InRange, SlaveReboot
<1> QED
  BY <1>2 DEF IInv, StatusInv, ReportInv, KnownInv, FlagInv, SlaveReboot, registryVars

LEMMA FlagSteps ==
  ASSUME IInv, Toggle \/ \E i \in Slots : Evict(i)
  PROVE  IInv'
BY DEF IInv, StatusInv, DeviceInv, ReportInv, KnownInv, FlagInv, Toggle, Evict, registryVars

-----------------------------------------------------------------------------
(* The invariant and what follows from it.                                 *)

LEMMA InitIInv == Init => IInv
<1> SUFFICES ASSUME Init PROVE IInv
  OBVIOUS
<1>1. StatusInv /\ KnownInv
  BY NoStatusOK, Constants DEF Init, StatusInv, KnownInv, Targets
<1>2. DeviceInv
  BY Constants DEF Init, DeviceInv, InRange
<1>3. ReportInv
  BY Constants DEF Init, ReportInv
<1>4. FlagInv
  BY WatchdogAssumption DEF Init, FlagInv, Conditions
<1> QED
  BY <1>1, <1>2, <1>3, <1>4 DEF IInv

LEMMA NextIInv == IInv /\ [Next]_vars => IInv'
<1> SUFFICES ASSUME IInv, [Next]_vars PROVE IInv'
  OBVIOUS
<1>1. ASSUME NEW t \in Targets, Check(t)
      PROVE  IInv'
  BY <1>1, CheckBadStep, CheckRecoverStepStep, CheckBetweenStep,
     CheckSafeWaitStep, CheckRecoveredStep DEF Check
<1>2. CASE UNCHANGED vars
  BY <1>2 DEF IInv, StatusInv, DeviceInv, ReportInv, KnownInv, FlagInv, vars, registryVars
<1> QED
  BY <1>1, <1>2, CheckInactiveStep, TimePassesStep, SenseStep, HeartbeatStep,
     RegisterStep, MasterRebootStep, SlaveRebootStep, FlagSteps DEF Next

LEMMA AlwaysIInv == Spec => []IInv
BY InitIInv, NextIInv, PTL DEF Spec

\* All state of the watchdog keeps its type, in particular the settings it
\* sends and saves, which never become negative, for any minima, steps, user
\* setting and number of slaves.
THEOREM WatchdogTypes == Spec => []TypeOK
<1>1. IInv => TypeOK
  BY DEF IInv, StatusInv, DeviceInv, ReportInv, FlagInv, TypeOK
<1> QED
  BY <1>1, AlwaysIInv, PTL

\* Throttling, recovery, lost commands, evictions, slots that change hands,
\* reads that fall into a heartbeat and restarts never save or run a setting
\* above the user's, in whatever order they come.
THEOREM NeverAboveUserAlways == Spec => []NeverAboveUser
<1>1. IInv => NeverAboveUser
  BY DEF IInv, DeviceInv, InRange, NeverAboveUser
<1> QED
  BY <1>1, AlwaysIInv, PTL

\* Nor do they ever bring a device below the watchdog's minimum.
THEOREM NeverBelowMinAlways == Spec => []NeverBelowMin
<1>1. IInv => NeverBelowMin
  BY DEF IInv, DeviceInv, InRange, NeverBelowMin
<1> QED
  BY <1>1, AlwaysIInv, PTL

-----------------------------------------------------------------------------
(* No early step up.  NoEarlyRecovery is not inductive: it needs that the  *)
(* safe timer of a slot is never ahead of the time since the slot was last *)
(* seen unsafe, and that the timer of a slot that is not throttled is off. *)

TimerBehind(w, ago) == (~w.throttled => w.safe = Off) /\ w.safe <= ago
TimerInv == \A i \in Slots : TimerBehind(wd[i], unsafeAgo[i])

SteppedUp(v, w) == v.throttled /\ \E d \in Dials : w.current[d] > v.current[d]

\* What a step may do to the slot i.
SlotStep(i) ==
  /\ TimerBehind(wd'[i], unsafeAgo'[i])
  /\ SteppedUp(wd[i], wd'[i]) => unsafeAgo'[i] >= STABILITY

LEMMA SlotFacts ==
  ASSUME IInv, NEW i \in Slots
  PROVE  /\ i \in Targets /\ i # Master
         /\ wd[i] \in Statuses /\ wd[i].current \in Settings /\ wd[i].safe \in Off .. STABILITY
         /\ unsafeAgo[i] \in 0 .. STABILITY
         /\ wd[i].throttled => SettingOK(wd[i].current)
BY WatchdogAssumption DEF IInv, StatusInv, FlagInv, Targets, Statuses, StatusOK, Consistent

LEMMA AgedFacts ==
  ASSUME NEW w \in Statuses
  PROVE  /\ Aged(w) \in Statuses
         /\ Aged(w).throttled = w.throttled
         /\ Aged(w).current = w.current
         /\ Aged(w).safe = Later(w.safe, STABILITY)
<1>1. Later(w.safe, STABILITY) \in Off .. STABILITY
  BY LaterType, WatchdogAssumption DEF Statuses
<1>2. (IF w.pause = 0 THEN 0 ELSE w.pause - 1) \in 0 .. INTERVAL
  BY WatchdogAssumption DEF Statuses
<1> QED
  BY <1>1, <1>2 DEF Aged, Statuses

LEMMA AgedBehind ==
  ASSUME NEW w \in Statuses, NEW ago \in 0 .. STABILITY, TimerBehind(w, ago)
  PROVE  TimerBehind(Aged(w), Later(ago, STABILITY))
<1>1. w.safe \in Off .. STABILITY /\ STABILITY \in Nat
  BY WatchdogAssumption DEF Statuses
<1>2. /\ Later(w.safe, STABILITY) <= Later(ago, STABILITY)
      /\ w.safe = Off => Later(w.safe, STABILITY) = Off
  BY <1>1 DEF TimerBehind, Later, Off
<1> QED
  BY <1>2, AgedFacts DEF TimerBehind

\* A timer that is off is behind anything.
LEMMA OffBehind ==
  ASSUME NEW w, w.safe = Off, NEW ago \in 0 .. STABILITY
  PROVE  TimerBehind(w, ago)
BY WatchdogAssumption DEF TimerBehind, Off

LEMMA ReleasedBehind ==
  ASSUME NEW w \in Statuses, NEW ago \in 0 .. STABILITY
  PROVE  TimerBehind(Released(w), ago) /\ Released(w).current = Zero
<1>1. Released(w).safe = Off /\ Released(w).current = Zero
  BY DEF Released, Statuses
<1> QED
  BY <1>1, OffBehind

LEMMA ZeroIsNoStep ==
  ASSUME NEW v \in Statuses, NEW w, w.current = Zero
  PROVE  ~SteppedUp(v, w)
BY DEF SteppedUp, Statuses, Settings, Zero

\* What the registry notes of a target that is read.
LEMMA ReadsAgo ==
  ASSUME IInv, NEW i \in Slots, NEW c, NEW new, Reads(i, c, new)
  PROVE  /\ unsafeAgo'[i] = IF c = "safe" THEN Later(unsafeAgo[i], STABILITY) ELSE 0
         /\ unsafeAgo'[i] \in 0 .. STABILITY
<1>1. unsafeAgo'[i] = IF c = "safe" THEN Later(unsafeAgo[i], STABILITY) ELSE 0
  BY DEF Reads
<1>2. Later(unsafeAgo[i], STABILITY) \in 0 .. STABILITY
  BY SlotFacts, LaterType, WatchdogAssumption DEF Off
<1> QED
  BY <1>1, <1>2, WatchdogAssumption

LEMMA BadSlot ==
  ASSUME IInv, TimerInv, NEW i \in Slots, NEW how, NEW new \in SUBSET Dials,
         CheckBad(i, how, new)
  PROVE  SlotStep(i)
<1> DEFINE w == Noted(Aged(wd[i]), Shown(i, new))
           low == Lowered(w.current)
           sent == how \in {"delivered", "lost"}
           taken == [TimerStopped(w) EXCEPT !.throttled = TRUE,
                                            !.current = IF sent THEN low ELSE @]
           final == IF w.throttled \/ how # "goneEarly" THEN taken ELSE Released(w)
<1>1. Reads(i, "bad", new) /\ wd' = [wd EXCEPT ![i] = final]
  BY DEF CheckBad
<1>2. wd'[i] = final /\ unsafeAgo'[i] \in 0 .. STABILITY
  BY <1>1, SlotFacts, ReadsAgo DEF IInv, StatusInv
<1>3. StatusOK(Aged(wd[i])) /\ SettingOK(Shown(i, new)) /\ StatusOK(w)
  BY SlotFacts, AgedOK, ShownOK, NotedOK DEF IInv, StatusInv
<1>4. w \in Statuses
  BY <1>3 DEF StatusOK
<1>5. wd[i].throttled => w = Aged(wd[i])
  BY SlotFacts, AgedFacts DEF Noted
<1>6. wd[i].throttled => w.throttled /\ w.current = wd[i].current
  BY <1>5, SlotFacts, AgedFacts
<1>7. \A d \in Dials : wd[i].throttled => low[d] <= wd[i].current[d]
  BY <1>6, SlotFacts, Constants DEF Lowered, Settings
<1> HIDE DEF w, low
<1>8. taken.safe = Off /\ taken.current = IF sent THEN low ELSE w.current
  BY <1>4 DEF TimerStopped, Statuses
<1> HIDE DEF taken
<1>9. TimerBehind(final, unsafeAgo'[i])
  BY <1>2, <1>4, <1>8, OffBehind, ReleasedBehind
<1>10. ~SteppedUp(wd[i], final)
  <2> SUFFICES ASSUME wd[i].throttled, NEW d \in Dials
               PROVE  ~(final.current[d] > wd[i].current[d])
    BY DEF SteppedUp
  <2>1. final = taken
    BY <1>6
  <2>2. taken.current[d] = low[d] \/ taken.current[d] = wd[i].current[d]
    BY <1>6, <1>8
  <2>3. low[d] \in Int /\ wd[i].current[d] \in Nat
    BY <1>6, SlotFacts, Constants DEF low, Lowered, Settings
  <2> QED
    BY <1>7, <2>1, <2>2, <2>3
<1> QED
  BY <1>2, <1>9, <1>10 DEF SlotStep

LEMMA BetweenSlot ==
  ASSUME IInv, TimerInv, NEW i \in Slots, NEW new, CheckBetween(i, new)
  PROVE  SlotStep(i)
<1> DEFINE w == Aged(wd[i])
           final == IF w.throttled THEN TimerStopped(w) ELSE w
<1>1. Reads(i, "between", new) /\ wd' = [wd EXCEPT ![i] = final]
  BY DEF CheckBetween
<1>2. wd'[i] = final /\ unsafeAgo'[i] \in 0 .. STABILITY
  BY <1>1, SlotFacts, ReadsAgo DEF IInv, StatusInv
<1>3. /\ w \in Statuses /\ w.throttled = wd[i].throttled
      /\ w.current = wd[i].current /\ w.safe = Later(wd[i].safe, STABILITY)
  BY SlotFacts, AgedFacts
<1>4. final.safe = Off
  <2>1. CASE w.throttled
    BY <1>3, <2>1 DEF TimerStopped, Statuses
  <2>2. CASE ~w.throttled
    BY <1>3, <2>2, SlotFacts DEF TimerInv, TimerBehind, Later
  <2> QED
    BY <2>1, <2>2
<1>5. final.current = wd[i].current
  BY <1>3 DEF TimerStopped, Statuses
<1> HIDE DEF final
<1> QED
  BY <1>2, <1>4, <1>5, OffBehind, SlotFacts DEF SlotStep, SteppedUp, Settings

LEMMA SafeWaitSlot ==
  ASSUME IInv, TimerInv, NEW i \in Slots, NEW new, CheckSafeWait(i, new)
  PROVE  SlotStep(i)
<1> DEFINE w == Aged(wd[i])
           final == IF w.throttled /\ w.safe = Off THEN [w EXCEPT !.safe = 0] ELSE w
<1>1. Reads(i, "safe", new) /\ wd' = [wd EXCEPT ![i] = final]
  BY DEF CheckSafeWait
<1>2. /\ wd'[i] = final
      /\ unsafeAgo'[i] = Later(unsafeAgo[i], STABILITY) /\ unsafeAgo'[i] \in 0 .. STABILITY
  BY <1>1, SlotFacts, ReadsAgo DEF IInv, StatusInv
<1>3. w \in Statuses /\ w.current = wd[i].current
  BY SlotFacts, AgedFacts
<1>4. TimerBehind(w, unsafeAgo'[i])
  BY <1>2, SlotFacts, AgedBehind DEF TimerInv
<1> HIDE DEF w
<1>5. TimerBehind(final, unsafeAgo'[i])
  BY <1>2, <1>3, <1>4, WatchdogAssumption DEF TimerBehind, Statuses
<1>6. final.current = wd[i].current
  BY <1>3 DEF Statuses
<1> HIDE DEF final
<1> QED
  BY <1>2, <1>5, <1>6, SlotFacts DEF SlotStep, SteppedUp, Settings

LEMMA RecoverSlot ==
  ASSUME IInv, TimerInv, NEW i \in Slots, NEW how, NEW new, CheckRecoverStep(i, how, new)
  PROVE  SlotStep(i)
<1> DEFINE w == Aged(wd[i])
           high == Raised(w.current, w.target)
           final == IF how \in {"delivered", "lost"}
                    THEN [w EXCEPT !.current = high, !.pause = INTERVAL] ELSE w
<1>1. Reads(i, "safe", new) /\ wd' = [wd EXCEPT ![i] = final] /\ w.throttled /\ ~Waiting(w)
  BY DEF CheckRecoverStep
<1>2. /\ wd'[i] = final
      /\ unsafeAgo'[i] = Later(unsafeAgo[i], STABILITY) /\ unsafeAgo'[i] \in 0 .. STABILITY
  BY <1>1, SlotFacts, ReadsAgo DEF IInv, StatusInv
<1>3. w \in Statuses
  BY SlotFacts, AgedFacts
<1>4. TimerBehind(w, unsafeAgo'[i])
  BY <1>2, SlotFacts, AgedBehind DEF TimerInv
<1> HIDE DEF w, high
<1>5. final.safe = w.safe /\ final.throttled = w.throttled
  BY <1>3 DEF Statuses
<1>6. unsafeAgo'[i] >= STABILITY
  BY <1>1, <1>2, <1>3, <1>4, WatchdogAssumption DEF Waiting, TimerBehind, Statuses, Off
<1> HIDE DEF final
<1> QED
  BY <1>2, <1>4, <1>5, <1>6 DEF SlotStep, TimerBehind

LEMMA RecoveredSlot ==
  ASSUME IInv, TimerInv, NEW i \in Slots, NEW new, CheckRecovered(i, new)
  PROVE  SlotStep(i)
<1> DEFINE free == Released(Aged(wd[i]))
           final == [free EXCEPT !.recovered = TRUE, !.pause = 0]
<1>1. Reads(i, "safe", new) /\ wd' = [wd EXCEPT ![i] = final]
  BY DEF CheckRecovered
<1>2. wd'[i] = final /\ unsafeAgo'[i] \in 0 .. STABILITY
  BY <1>1, SlotFacts, ReadsAgo DEF IInv, StatusInv
<1>3. Aged(wd[i]) \in Statuses
  BY SlotFacts, AgedFacts
<1>4. final.safe = Off /\ final.current = Zero
  BY <1>3 DEF Released, Statuses
<1> HIDE DEF final
<1> QED
  BY <1>2, <1>4, SlotFacts, OffBehind, ZeroIsNoStep DEF SlotStep

LEMMA InactiveSlot ==
  ASSUME IInv, TimerInv, NEW i \in Slots, CheckInactive(i)
  PROVE  SlotStep(i)
<1>1. wd'[i] = Released(Aged(wd[i])) /\ unsafeAgo'[i] = unsafeAgo[i]
  BY SlotFacts DEF CheckInactive, IInv, StatusInv
<1> QED
  BY <1>1, SlotFacts, AgedFacts, ReleasedBehind, ZeroIsNoStep DEF SlotStep

LEMMA TimePassesSlot ==
  ASSUME IInv, TimerInv, NEW i \in Slots, TimePasses
  PROVE  SlotStep(i)
<1>1. wd'[i] = Aged(wd[i]) /\ unsafeAgo'[i] = Later(unsafeAgo[i], STABILITY)
  BY SlotFacts DEF TimePasses
<1>2. TimerBehind(Aged(wd[i]), unsafeAgo'[i]) /\ Aged(wd[i]).current = wd[i].current
  BY <1>1, SlotFacts, AgedBehind, AgedFacts DEF TimerInv
<1> QED
  BY <1>1, <1>2, SlotFacts DEF SlotStep, SteppedUp, Settings

LEMMA MasterRebootSlot ==
  ASSUME IInv, TimerInv, NEW i \in Slots, MasterReboot
  PROVE  SlotStep(i)
<1>1. wd'[i] = NoStatus /\ unsafeAgo'[i] = unsafeAgo[i]
  BY SlotFacts DEF MasterReboot
<1>2. NoStatus.safe = Off /\ NoStatus.current = Zero
  BY DEF NoStatus
<1> QED
  BY <1>1, <1>2, SlotFacts, OffBehind, ZeroIsNoStep DEF SlotStep

LEMMA UnchangedSlot ==
  ASSUME IInv, TimerInv, NEW i \in Slots, wd'[i] = wd[i], unsafeAgo'[i] = unsafeAgo[i]
  PROVE  SlotStep(i)
BY SlotFacts DEF SlotStep, SteppedUp, TimerInv, TimerBehind, Settings

\* A check of another target leaves the slot alone.
LEMMA OtherSlot ==
  ASSUME IInv, TimerInv, NEW i \in Slots, NEW t \in Targets \ {i},
         Check(t) \/ (t \in Slots /\ CheckInactive(t))
  PROVE  SlotStep(i)
<1>1. wd'[i] = wd[i]
  BY SlotFacts DEF Check, CheckBad, CheckRecoverStep, CheckBetween, CheckSafeWait,
     CheckRecovered, CheckInactive, IInv, StatusInv
<1>2. unsafeAgo'[i] = unsafeAgo[i]
  BY DEF Check, CheckBad, CheckRecoverStep, CheckBetween, CheckSafeWait, CheckRecovered,
     CheckInactive, Reads
<1> QED
  BY <1>1, <1>2, UnchangedSlot

LEMMA EverySlotStep ==
  ASSUME IInv, TimerInv, [Next]_vars, NEW i \in Slots
  PROVE  SlotStep(i)
<1>1. ASSUME NEW t \in Targets, Check(t)
      PROVE  SlotStep(i)
  <2>1. CASE t = i
    BY <1>1, <2>1, BadSlot, RecoverSlot, BetweenSlot, SafeWaitSlot, RecoveredSlot DEF Check
  <2> QED
    BY <1>1, <2>1, OtherSlot
<1>2. ASSUME NEW t \in Slots, CheckInactive(t)
      PROVE  SlotStep(i)
  BY <1>2, InactiveSlot, OtherSlot DEF Targets
<1>3. CASE \/ Toggle
           \/ \E c \in Conditions : Sense(c)
           \/ \E j \in Slots, c \in Conditions : Heartbeat(j, c)
           \/ \E j \in Slots, fresh \in BOOLEAN, c \in Conditions : Register(j, fresh, c)
           \/ \E j \in Slots : Evict(j) \/ SlaveReboot(j)
           \/ UNCHANGED vars
  <2>1. UNCHANGED <<wd, unsafeAgo>>
    BY <1>3 DEF Toggle, Sense, Heartbeat, Register, Evict, SlaveReboot, vars
  <2> QED
    BY <2>1, UnchangedSlot
<1> QED
  BY <1>1, <1>2, <1>3, TimePassesSlot, MasterRebootSlot DEF Next

\* The watchdog raises a slave's setting only when it has not seen the slave
\* in unsafe conditions for the whole stability time.
THEOREM NeverEarly == Spec => NoEarlyRecovery
<1> DEFINE A == \A i \in Slots : \A d \in Dials :
                  wd[i].throttled /\ wd'[i].current[d] > wd[i].current[d]
                    => unsafeAgo'[i] >= STABILITY
<1>1. Init => TimerInv
  BY OffBehind, WatchdogAssumption DEF Init, TimerInv, NoStatus, Targets
<1>2. IInv /\ TimerInv /\ [Next]_vars => TimerInv'
  BY EverySlotStep DEF TimerInv, SlotStep
<1>3. IInv /\ TimerInv /\ [Next]_vars => [A]_vars
  BY EverySlotStep DEF SlotStep, SteppedUp
<1> QED
  BY <1>1, <1>2, <1>3, AlwaysIInv, PTL DEF Spec, NoEarlyRecovery
=============================================================================
