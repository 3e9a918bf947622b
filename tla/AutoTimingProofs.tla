--------------------------- MODULE AutoTimingProofs ---------------------------
(***************************************************************************)
(* Proofs about AutoTiming: the loop of complete_calibration finds the     *)
(* first of the best intervals, for any list of intervals and any rates.   *)
(***************************************************************************)
EXTENDS AutoTiming, RingLemmas, SequenceTheorems, TLAPS

USE TimingAssumption

-----------------------------------------------------------------------------
(* The loop of complete_calibration.                                       *)

\* One iteration: the best of the first i steps, given that of the first
\* i - 1.
Iterate(rates, best, i) ==
  IF i = 1 THEN 1 ELSE IF rates[i] < rates[best[i - 1]] THEN i ELSE best[i - 1]

\* best records the first m iterations.
IsRun(rates, best, m) == best = [i \in 1 .. m |-> Iterate(rates, best, i)]

\* The loop can be run for any number of steps.
LEMMA LoopRuns ==
  ASSUME NEW n \in Nat \ {0}, NEW rates
  PROVE  \E best : IsRun(rates, best, n)
<1> DEFINE Stuck == {m \in Nat \ {0} : ~ \E best : IsRun(rates, best, m)}
<1> SUFFICES ASSUME Stuck # {} PROVE FALSE
  OBVIOUS
<1>1. PICK m \in Stuck : \A k \in Stuck : m <= k
  BY LeastNumber
<1>2. m # 1
  <2> DEFINE b == [i \in 1 .. 1 |-> 1]
  <2>1. b = [i \in 1 .. 1 |-> Iterate(rates, b, i)]
    BY DEF Iterate
  <2>2. IsRun(rates, b, 1)
    BY <2>1 DEF IsRun
  <2> QED
    BY <1>1, <2>2
<1>3. m - 1 \in Nat \ {0} /\ m - 1 \notin Stuck
  BY <1>1, <1>2
<1>4. PICK b : IsRun(rates, b, m - 1)
  BY <1>3
<1> DEFINE c == [i \in 1 .. m |-> IF i = m THEN Iterate(rates, b, m) ELSE b[i]]
<1>5. ASSUME NEW i \in 1 .. m
      PROVE  c[i] = Iterate(rates, c, i)
  <2>1. i # 1 => i - 1 \in 1 .. m /\ i - 1 # m
    BY <1>1
  <2>2. i # 1 => c[i - 1] = b[i - 1]
    BY <2>1
  <2>3. Iterate(rates, c, i) = Iterate(rates, b, i)
    BY <2>2 DEF Iterate
  <2>4. i # m => b[i] = Iterate(rates, b, i)
    <3>1. \A k \in 1 .. m - 1 : b[k] = Iterate(rates, b, k)
      BY <1>4, Zenon DEF IsRun
    <3>2. i # m => i \in 1 .. m - 1
      BY <1>3
    <3> QED
      BY <3>1, <3>2
  <2> QED
    BY <2>3, <2>4
<1>6. IsRun(rates, c, m)
  <2>1. c = [i \in 1 .. m |-> c[i]]
    OBVIOUS
  <2>2. [i \in 1 .. m |-> c[i]] = [i \in 1 .. m |-> Iterate(rates, c, i)]
    BY <1>5, Zenon
  <2> QED
    BY <2>1, <2>2, Zenon DEF IsRun
<1> QED
  BY <1>1, <1>6

\* i is the first of the first m steps that had the least rate.
FirstBest(rates, i, m) ==
  /\ i \in 1 .. m
  /\ \A k \in 1 .. m : rates[i] <= rates[k] /\ (k < i => rates[i] < rates[k])

LEMMA LoopFindsFirstBest ==
  ASSUME NEW n \in Nat \ {0}, NEW rates \in [1 .. n -> Nat],
         NEW best, IsRun(rates, best, n)
  PROVE  FirstBest(rates, best[n], n)
<1> DEFINE Wrong == {m \in 1 .. n : ~FirstBest(rates, best[m], m)}
<1> SUFFICES ASSUME Wrong # {} PROVE FALSE
  OBVIOUS
<1>1. PICK m \in Wrong : \A k \in Wrong : m <= k
  <2>1. Wrong \in SUBSET Nat
    OBVIOUS
  <2> QED
    BY <2>1, LeastNumber
<1>2. m \in 1 .. n /\ best[m] = Iterate(rates, best, m)
  BY <1>1 DEF IsRun
<1>3. m # 1
  BY <1>1, <1>2 DEF Iterate, FirstBest
<1>4. m - 1 \in 1 .. n /\ FirstBest(rates, best[m - 1], m - 1)
  BY <1>1, <1>2, <1>3
<1>5. best[m] = IF rates[m] < rates[best[m - 1]] THEN m ELSE best[m - 1]
  BY <1>2, <1>3 DEF Iterate
<1>6. \A k \in 1 .. m : k \in 1 .. m - 1 \/ k = m
  BY <1>2
<1>7. \A k \in 1 .. n : rates[k] \in Nat
  OBVIOUS
<1>8. FirstBest(rates, best[m], m)
  <2> DEFINE b == best[m - 1]
  <2>1. b \in 1 .. m - 1 /\ \A k \in 1 .. m - 1 : rates[b] <= rates[k] /\ (k < b => rates[b] < rates[k])
    BY <1>4 DEF FirstBest
  <2>2. b \in 1 .. n /\ m \in 1 .. n /\ m \in 1 .. m /\ b \in 1 .. m
    BY <1>2, <2>1
  <2> HIDE DEF b
  <2>3. CASE rates[m] < rates[b]
    <3>1. \A k \in 1 .. m - 1 : rates[m] < rates[k]
      BY <1>2, <1>7, <2>1, <2>2, <2>3
    <3>2. best[m] = m
      BY <1>5, <2>3 DEF b
    <3>3. \A k \in 1 .. m : rates[m] <= rates[k] /\ (k < m => rates[m] < rates[k])
      BY <1>2, <1>6, <1>7, <2>2, <3>1
    <3> QED
      BY <2>2, <3>2, <3>3 DEF FirstBest
  <2>4. CASE ~(rates[m] < rates[b])
    <3>1. rates[b] <= rates[m] /\ ~(m < b)
      BY <1>7, <2>1, <2>2, <2>4
    <3> QED
      BY <1>2, <1>5, <1>6, <2>1, <2>2, <2>4, <3>1 DEF FirstBest, b
  <2> QED
    BY <2>3, <2>4
<1> QED
  BY <1>1, <1>8

\* complete_calibration takes the interval a reader of its comment expects.
LEMMA BestStepIsBest ==
  ASSUME NEW rates \in Seq(Nat), rates # <<>>
  PROVE  /\ BestStep(rates) \in 1 .. Len(rates)
         /\ BestStep(rates) = Best(rates)
<1> DEFINE n == Len(rates)
<1>1. n \in Nat \ {0} /\ rates \in [1 .. n -> Nat]
  OBVIOUS
<1> DEFINE best == CHOOSE b : IsRun(rates, b, n)
<1>2. IsRun(rates, best, n)
  BY <1>1, LoopRuns
<1>3. BestStep(rates) = best[n]
  BY DEF BestStep, IsRun, Iterate
<1>4. FirstBest(rates, best[n], n)
  BY <1>1, <1>2, LoopFindsFirstBest
<1> HIDE DEF best
<1>5. FirstBest(rates, BestStep(rates), n)
  BY <1>3, <1>4
<1>6. ASSUME NEW i, NEW k, FirstBest(rates, i, n), FirstBest(rates, k, n)
      PROVE  i = k
  BY <1>1, <1>6 DEF FirstBest
<1>7. Best(rates) = CHOOSE i \in 1 .. n : FirstBest(rates, i, n)
  BY DEF Best, FirstBest
<1> QED
  BY <1>5, <1>6, <1>7 DEF FirstBest

-----------------------------------------------------------------------------
(* The variables.                                                          *)

TimingTyped ==
  /\ rate \in Rates
  /\ timingState \in {"calibrating", "monitoring"}
  /\ interval \in MIN_INTERVAL .. MAX_INTERVAL
  /\ calResults \in Seq(Rates) /\ Len(calResults) < Len(CAL_INTERVALS)

\* apply_interval never leaves the bounds and keeps what is within them.
LEMMA ClampedFacts ==
  ASSUME NEW ms \in Int
  PROVE  /\ Clamped(ms) \in MIN_INTERVAL .. MAX_INTERVAL
         /\ ms \in MIN_INTERVAL .. MAX_INTERVAL => Clamped(ms) = ms
BY DEF Clamped

LEMMA IntervalFacts ==
  /\ Len(CAL_INTERVALS) \in Nat \ {0}
  /\ \A i \in 1 .. Len(CAL_INTERVALS) : CAL_INTERVALS[i] \in MIN_INTERVAL .. MAX_INTERVAL
OBVIOUS

LEMMA TimingInitTyped == TimingInit => TimingTyped
BY IntervalFacts DEF TimingInit, TimingTyped

\* The result of the step that ends completes the list.
LEMMA ResultsFacts ==
  ASSUME TimingTyped
  PROVE  /\ Append(calResults, rate) \in Seq(Rates)
         /\ Append(calResults, rate) \in Seq(Nat)
         /\ Append(calResults, rate) # <<>>
         /\ Len(Append(calResults, rate)) = Len(calResults) + 1
         /\ Len(calResults) \in Nat
<1>1. calResults \in Seq(Rates) /\ rate \in Rates
  BY DEF TimingTyped
<1>2. /\ Append(calResults, rate) \in Seq(Rates) /\ Append(calResults, rate) # <<>>
      /\ Len(Append(calResults, rate)) = Len(calResults) + 1 /\ Len(calResults) \in Nat
  BY <1>1, AppendProperties
<1>3. Append(calResults, rate) \in Seq(Nat)
  BY <1>2, SeqMonotonic
<1> QED
  BY <1>2, <1>3

\* The calibration ends with the best of the intervals it tried: the loop
\* finds it, and no clamping changes it.
LEMMA CalibrationEndsWithBest ==
  ASSUME TimingTyped, CalibrationEnds
  PROVE  /\ interval' = CAL_INTERVALS[Best(Append(calResults, rate))]
         /\ interval' \in MIN_INTERVAL .. MAX_INTERVAL
<1> DEFINE results == Append(calResults, rate)
<1>1. results \in Seq(Nat) /\ results # <<>> /\ Len(results) = Len(CAL_INTERVALS)
  BY ResultsFacts DEF CalibrationEnds
<1> HIDE DEF results
<1>2. BestStep(results) \in 1 .. Len(CAL_INTERVALS) /\ BestStep(results) = Best(results)
  BY <1>1, BestStepIsBest
<1>3. CAL_INTERVALS[BestStep(results)] \in MIN_INTERVAL .. MAX_INTERVAL
  BY <1>2, IntervalFacts
<1>4. Clamped(CAL_INTERVALS[BestStep(results)]) = CAL_INTERVALS[BestStep(results)]
  BY <1>3, ClampedFacts
<1> QED
  BY <1>2, <1>3, <1>4 DEF CalibrationEnds, results

LEMMA TickTyped == TimingTyped /\ TimingTick => TimingTyped'
<1> SUFFICES ASSUME TimingTyped, TimingTick PROVE TimingTyped'
  OBVIOUS
<1>1. CASE CalStepEnds
  <2>1. Len(calResults) + 2 \in 1 .. Len(CAL_INTERVALS)
    BY <1>1, ResultsFacts, IntervalFacts DEF CalStepEnds
  <2>2. interval' \in MIN_INTERVAL .. MAX_INTERVAL
    BY <1>1, <2>1, IntervalFacts, ClampedFacts DEF CalStepEnds
  <2> QED
    BY <1>1, <2>2, ResultsFacts DEF CalStepEnds, TimingTyped
<1>2. CASE CalibrationEnds
  BY <1>2, CalibrationEndsWithBest, IntervalFacts DEF CalibrationEnds, TimingTyped
<1>3. CASE WindowEnds
  <2>1. Adjusted \in Int
    BY DEF Adjusted, TimingTyped
  <2> QED
    BY <1>3, <2>1, ClampedFacts DEF WindowEnds, TimingTyped
<1> QED
  BY <1>1, <1>2, <1>3 DEF TimingTick
=============================================================================
