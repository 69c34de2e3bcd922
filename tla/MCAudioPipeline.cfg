SPECIFICATION FairSpec
CONSTANTS
  Packets = {0,1,2}
  OutboundCapacity = 1
  InboundCapacity = 1
  MaxTrouble = 1
  CacheSize = 1
  MaxBufferSize = 2
  TargetDelay = 1
  MinTargetDelay = 0
  MaxTargetDelay = 1
  MaxPacketAge = 1
  AdaptiveStep = 1
  None = None
  MeasuredOffsets <- Offsets
  MaxAllowedOffset = 1
  CorrectionStep = 1
  Spacing = 1
  Span = 2
  Latency = 0
  MaxLate = 1
  QueueCapacity = 2
  NoAnchor = None
INVARIANTS
  PlayedInOrder
  NothingVanishes
PROPERTY Flows
CHECK_DEADLOCK FALSE
