SPECIFICATION ClockFairSpec
CONSTANTS
  Tasks = {t1, t2}
  MaxAllowedOffset = 2
  MaxCorrectionStep = 2
  ResyncThreshold = 1
  Measurable = 3
  MaxPasses = 3
  DriftWindowSamples = 2
  MaxDrift = 1
  MaxElapsed = 2
INVARIANTS
  OffsetInRange
  AccuracyIsExact
  PassesCounted
  StatisticsAgree
PROPERTIES
  NeverJumps
  SteadyClockAccepted
  Converges
