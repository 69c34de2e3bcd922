--------------------------- MODULE ClockStatistics ---------------------------
(***************************************************************************)
(* The clock synchronizer with what it measures: Synchronizer leaves open  *)
(* which passes fail for their drift and keeps only the counters its       *)
(* properties need.  Here the drift is estimated from the samples in the   *)
(* window (DriftEstimator), and the statistics are all there               *)
(* (buffer/src/core/sync/statistics.rs).                                   *)
(***************************************************************************)
EXTENDS Synchronizer, DriftEstimator

CONSTANTS
  DriftWindowSamples,
  MaxDrift,             \* max_drift_ppm, as an offset per unit of time
  MaxElapsed            \* bound: the time a session lasts

ASSUME DriftAssumption ==
  /\ DriftWindowSamples \in Nat /\ DriftWindowSamples >= 2
  /\ MaxDrift \in Nat /\ MaxElapsed \in Nat

VARIABLES
  elapsed,     \* local_time(): since the clock was reset
  window,      \* the drift estimator's samples
  drift,       \* the last estimate
  tracker      \* statistics: the offsets applied, their sum and largest size, the estimates

statVars == <<window, drift, tracker>>
allVars == <<vars, elapsed, statVars>>

FreshTracker == [last |-> 0, sum |-> 0, count |-> 0, largest |-> 0, drifts |-> 0]

NoDrift == [num |-> 0, den |-> 1]

ClockInit ==
  /\ Init
  /\ elapsed = 0 /\ window = <<>> /\ drift = NoDrift
  /\ tracker = FreshTracker

Quiet(A) == A /\ UNCHANGED <<elapsed, statVars>>

ClockReset(t) ==
  /\ Reset(t)
  /\ elapsed' = 0 /\ window' = <<>> /\ drift' = NoDrift
  /\ tracker' = FreshTracker

(* record_offset *)
OffsetRecorded(m) ==
  [tracker EXCEPT !.last = m, !.sum = @ + m, !.count = @ + 1,
                  !.largest = IF Abs(m) > @ THEN Abs(m) ELSE @]

(* record_drift *)
DriftRecorded(stats) == [stats EXCEPT !.drifts = @ + 1]

DriftTooLarge(slope) == Abs(slope.num) > MaxDrift * slope.den

(* Mutant: an estimate out of range is refused before it is recorded. *)
MeasureRefusingFirst(m) ==
  /\ window' = RecordSample(window, DriftWindowSamples, Sample(elapsed, m))
  /\ drift' = Slope(window')
  /\ tracker' = IF DriftTooLarge(drift') THEN OffsetRecorded(m)
                ELSE DriftRecorded(OffsetRecorded(m))

(* apply_offset, then estimate_drift, which records the estimate even if   *)
(* it refuses it.                                                          *)
Measure(m) ==
  /\ window' = RecordSample(window, DriftWindowSamples, Sample(elapsed, m))
  /\ drift' = Slope(window')
  /\ tracker' = DriftRecorded(OffsetRecorded(m))

ClockSynchronize(t) ==
  \E m \in -Measurable .. Measurable :
    \/ Quiet(PassRefused(t, m))
    \/ /\ Measure(m)
       /\ IF DriftTooLarge(drift') THEN PassDrifts(t, m) ELSE PassSucceeds(t, m)
       /\ UNCHANGED elapsed

TimePasses ==
  /\ elapsed < MaxElapsed
  /\ elapsed' = elapsed + 1
  /\ UNCHANGED <<vars, statVars>>

ClockNext ==
  \/ \E t \in Tasks :
       \/ Quiet(StartSwap(t)) \/ ClockReset(t) \/ Quiet(Stop(t))
       \/ Quiet(Begin(t, "synchronize")) \/ Quiet(Begin(t, "update"))
       \/ ClockSynchronize(t) \/ Quiet(Update(t))
  \/ TimePasses

ClockSpec == ClockInit /\ [][ClockNext]_allVars

(* As for Synchronizer. *)
ClockFairness ==
  \A t \in Tasks :
    /\ WF_allVars(ClockReset(t) \/ ClockSynchronize(t) \/ Quiet(Update(t)))
    /\ SF_allVars(Quiet(Begin(t, "update")))

ClockFairSpec == ClockSpec /\ ClockFairness

(* snapshot: a mean is a sum and a count, over no samples it is 0. *)
Mean(sum, count) == [num |-> sum, den |-> IF count > 0 THEN count ELSE 1]

Snapshot ==
  [currentOffset |-> tracker.last, averageOffset |-> Mean(tracker.sum, tracker.count),
   maxOffset |-> tracker.largest, currentDrift |-> drift, accuracy |-> accuracy,
   successful |-> outcomes.ok, failed |-> outcomes.failed]

-----------------------------------------------------------------------------
(* The statistics tell one story: every measurement that was applied got   *)
(* an estimate, whether its pass went on or was refused for it; the mean   *)
(* of the offsets is no larger than the largest; and the offset they call  *)
(* current is the one last measured, which the clock is away from by the   *)
(* accuracy they give (clock_manager.rs:160-199, statistics.rs:72-142).    *)
StatisticsAgree ==
  LET s == Snapshot
  IN  /\ tracker.drifts = tracker.count
      /\ s.successful <= tracker.count /\ tracker.count <= s.successful + s.failed
      /\ Abs(s.averageOffset.num) <= s.averageOffset.den * s.maxOffset
      /\ s.currentOffset = target
      /\ hasSynced => Abs(s.currentOffset - current) = s.accuracy

(* A pass is refused for its drift only when two measurements in the       *)
(* window really are further apart than the drift allows for the time      *)
(* between them: neither the regression nor the window invents a drift     *)
(* (drift_estimator.rs:40-84, clock_manager.rs:186-199).                   *)
SteadyClockAccepted ==
  [][\A t \in Tasks :
       calls[t] = "synchronize" /\ outcomes'.failed > outcomes.failed /\ tracker' # tracker
         => \E ij \in Pairs(window') :
              LET s == window'[ij[1]]  r == window'[ij[2]]
              IN  Abs(r.offset - s.offset) > MaxDrift * (r.at - s.at)]_allVars
=============================================================================
