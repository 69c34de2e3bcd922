SPECIFICATION FairSpec
CONSTANTS
  Feeders = {f1, f2}
  Players = {p1}
  Packets = {1, 2}
  Timestamp <- MCTimestamp
  ClockOffsets <- MCClockOffsets
  Latency = 0
  MaxLate = 1
  MaxEarly = 1
  QueueCapacity = 2
  Horizon = 2
  MaxOffers = 2
  MaxStarts = 2
  None = None
INVARIANTS
  TimelineMonotone
  Accounting
PROPERTIES
  ReleasedOnTime
  PacketsReleased
