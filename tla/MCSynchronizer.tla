--------------------------- MODULE MCSynchronizer ---------------------------
(* Two tasks calling the synchronizer. *)
EXTENDS ClockStatistics

(* The regression is the mean of the slopes between its samples: over      *)
(* every window of up to three samples.                                    *)
Windows == UNION {[1 .. n -> [at : 0 .. 2, offset : -1 .. 1]] : n \in 0 .. 3}

ASSUME \A w \in Windows :
  /\ Numerator(w) = WeightedSlope(w).num
  /\ Denominator(w) = WeightedSlope(w).den
=============================================================================
