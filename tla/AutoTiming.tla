------------------------------ MODULE AutoTiming ------------------------------
(***************************************************************************)
(* The task that adjusts the interval of job creation to the share of      *)
(* rejected shares (auto_timing.cpp): it measures the rejection rate for a *)
(* list of intervals, takes the best one, and then moves the interval up   *)
(* or down after every monitoring window.                                  *)
(*                                                                         *)
(* Times and counters are left out: a calibration step or a window ends    *)
(* with the rejection rate the pool has then.  The stabilisation period is *)
(* shorter than a window, and both start anew with an adjustment, so its   *)
(* test is always passed (StabilizeInWindow).                              *)
(***************************************************************************)
EXTENDS Integers, Sequences

CONSTANTS
  CAL_INTERVALS,               \* k_cal_intervals
  MIN_INTERVAL, MAX_INTERVAL,  \* AUTO_TIMING_MIN_INTERVAL_MS and ..._MAX_...
  STEP_UP, STEP_DOWN,          \* AUTO_TIMING_STEP_UP_MS, AUTO_TIMING_STEP_DOWN_MS
  HIGH, LOW,                   \* AUTO_TIMING_REJECT_HIGH_PCT and ..._LOW_PCT
  WINDOW, STABILIZE,           \* AUTO_TIMING_WINDOW_MS, AUTO_TIMING_STABILIZE_MS
  Rates                        \* the rejection rates a pool may have

CalSteps == 1 .. Len(CAL_INTERVALS)

ASSUME TimingAssumption ==
  /\ MIN_INTERVAL \in Nat /\ MAX_INTERVAL \in Nat /\ MIN_INTERVAL <= MAX_INTERVAL
  /\ STEP_UP \in Nat \ {0} /\ STEP_DOWN \in Nat \ {0}
  /\ STEP_DOWN <= MIN_INTERVAL
  /\ CAL_INTERVALS \in Seq(MIN_INTERVAL .. MAX_INTERVAL) /\ CAL_INTERVALS # <<>>
  /\ CAL_INTERVALS[1] = MIN_INTERVAL
  /\ Rates \subseteq Nat /\ LOW \in Nat /\ HIGH \in Nat /\ LOW <= HIGH
ASSUME StabilizeInWindow ==
  WINDOW \in Nat /\ STABILIZE \in Nat /\ STABILIZE <= WINDOW

VARIABLES
  rate,         \* the pool's rejection rate, 0 as long as there are no shares
  timingState,  \* s.state
  interval,     \* s.current_interval_ms
  calResults    \* s.cal_results, one entry per finished step

timingVars == <<rate, timingState, interval, calResults>>

\* AUTO_TIMING_DEFAULT_INTERVAL_MS is the first interval of the calibration.
TimingInit ==
  /\ rate \in Rates
  /\ timingState = "calibrating"
  /\ interval = CAL_INTERVALS[1]
  /\ calResults = <<>>

\* apply_interval.
ClampedBelow(ms) == IF ms < MIN_INTERVAL THEN MIN_INTERVAL ELSE ms    \* mutant
Clamped(ms) ==
  IF ms < MIN_INTERVAL THEN MIN_INTERVAL ELSE IF ms > MAX_INTERVAL THEN MAX_INTERVAL ELSE ms

\* complete_calibration: a later step must be better to replace the best one.
LaterIsBest(rates) ==        \* mutant: <= instead of <
  LET best[i \in 1 .. Len(rates)] ==
        IF i = 1 THEN 1 ELSE IF rates[i] <= rates[best[i - 1]] THEN i ELSE best[i - 1]
  IN best[Len(rates)]
BestStep(rates) ==
  LET best[i \in 1 .. Len(rates)] ==
        IF i = 1 THEN 1 ELSE IF rates[i] < rates[best[i - 1]] THEN i ELSE best[i - 1]
  IN best[Len(rates)]

\* finish_cal_step, and begin_cal_step of the next one.
CalStepEnds ==
  /\ timingState = "calibrating"
  /\ Len(calResults) + 1 < Len(CAL_INTERVALS)
  /\ calResults' = Append(calResults, rate)
  /\ interval' = Clamped(CAL_INTERVALS[Len(calResults) + 2])
  /\ UNCHANGED <<rate, timingState>>

\* The last step ends; its results are not read again.
CalibrationEnds ==
  /\ timingState = "calibrating"
  /\ Len(calResults) + 1 = Len(CAL_INTERVALS)
  /\ interval' = Clamped(CAL_INTERVALS[BestStep(Append(calResults, rate))])
  /\ calResults' = <<>>
  /\ timingState' = "monitoring"
  /\ UNCHANGED rate

\* tick_monitoring at the end of a window.
StepsOverMin ==              \* mutant: stops before the minimum
  IF rate > HIGH THEN interval + STEP_UP
  ELSE IF rate < LOW /\ interval > MIN_INTERVAL + STEP_DOWN THEN interval - STEP_DOWN
  ELSE interval
Adjusted ==
  IF rate > HIGH THEN interval + STEP_UP
  ELSE IF rate < LOW /\ interval > MIN_INTERVAL THEN interval - STEP_DOWN
  ELSE interval

WindowEnds ==
  /\ timingState = "monitoring"
  /\ interval' = Clamped(Adjusted)
  /\ UNCHANGED <<rate, timingState, calResults>>

TimingTick == CalStepEnds \/ CalibrationEnds \/ WindowEnds

\* The pool and the network.
PoolRate(r) == rate' = r /\ UNCHANGED <<timingState, interval, calResults>>

-----------------------------------------------------------------------------
(* Properties.                                                             *)

\* A calibration ends with the first of the intervals that had the least
\* rejection rate (a reference definition of the loop in
\* complete_calibration).
Best(rates) ==
  CHOOSE i \in 1 .. Len(rates) :
    \A k \in 1 .. Len(rates) : rates[i] <= rates[k] /\ (k < i => rates[i] < rates[k])
CalibrationPicksBest ==
  [][CalibrationEnds => interval' = CAL_INTERVALS[Best(Append(calResults, rate))]]_timingVars

\* While the pool rejects too many shares the interval goes up to its
\* maximum, while it rejects hardly any it goes down to its minimum, and
\* between the two thresholds it stays.
MovesAsPoolDemands ==
  /\ <>[](rate > HIGH) => <>[](interval = MAX_INTERVAL)
  /\ <>[](rate < LOW) => <>[](interval = MIN_INTERVAL)
  /\ <>[](rate \in LOW .. HIGH) => \E i \in MIN_INTERVAL .. MAX_INTERVAL : <>[](interval = i)
=============================================================================
