--------------------------- MODULE DriftEstimator ---------------------------
(***************************************************************************)
(* The sliding window of measurements and the straight line through it     *)
(* (buffer/src/core/sync/drift_estimator.rs).  A sample is the time and    *)
(* the offset measured; the slope is a fraction, for the code's floating   *)
(* point numbers only approximate it.                                      *)
(***************************************************************************)
EXTENDS Integers, Sequences

Sample(at, offset) == [at |-> at, offset |-> offset]

(* record_sample: no window is smaller than two. *)
RecordSample(window, size, sample) ==
  LET kept == IF size < 2 THEN 2 ELSE size
  IN  Append(IF Len(window) >= kept THEN Tail(window) ELSE window, sample)

Total(terms) ==
  LET sum[i \in 0 .. Len(terms)] == IF i = 0 THEN 0 ELSE sum[i - 1] + terms[i]
  IN  sum[Len(terms)]

SumX(window) == Total([i \in 1 .. Len(window) |-> window[i].at])
SumY(window) == Total([i \in 1 .. Len(window) |-> window[i].offset])
SumXY(window) == Total([i \in 1 .. Len(window) |-> window[i].at * window[i].offset])
SumXX(window) == Total([i \in 1 .. Len(window) |-> window[i].at * window[i].at])

Denominator(window) == Len(window) * SumXX(window) - SumX(window) * SumX(window)
Numerator(window) == Len(window) * SumXY(window) - SumX(window) * SumY(window)

(* Mutant: the number of samples is left out of the numerator. *)
SlopeUnscaled(window) ==
  IF Len(window) < 2 \/ Denominator(window) = 0 THEN [num |-> 0, den |-> 1]
  ELSE [num |-> SumXY(window) - SumX(window) * SumY(window), den |-> Denominator(window)]

(* estimate_ppm: no drift without two samples at different times. *)
Slope(window) ==
  IF Len(window) < 2 \/ Denominator(window) = 0 THEN [num |-> 0, den |-> 1]
  ELSE [num |-> Numerator(window), den |-> Denominator(window)]

-----------------------------------------------------------------------------
(* What it stands for: the mean of the slopes between any two samples,     *)
(* weighted with the squares of the times between them.                    *)
Pairs(window) == {ij \in (1 .. Len(window)) \X (1 .. Len(window)) : ij[1] < ij[2]}

(* The sum of f over the pairs. *)
PairTotal(window, f) ==
  Total([j \in 1 .. Len(window) |-> Total([i \in 1 .. j - 1 |-> f[<<i, j>>]])])

WeightedSlope(window) ==
  LET time == [ij \in Pairs(window) |-> window[ij[2]].at - window[ij[1]].at]
      moved == [ij \in Pairs(window) |-> window[ij[2]].offset - window[ij[1]].offset]
  IN  [num |-> PairTotal(window, [ij \in Pairs(window) |-> time[ij] * moved[ij]]),
       den |-> PairTotal(window, [ij \in Pairs(window) |-> time[ij] * time[ij]])]
=============================================================================
