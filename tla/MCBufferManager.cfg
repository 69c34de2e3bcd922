SPECIFICATION FairSpec
CONSTANTS
  MaxSeq = 3
  CacheSize = 2
  MaxMissing = 1
  None = None
  MaxBufferSize = 2
  TargetDelay = 1
  MinTargetDelay = 0
  MaxTargetDelay = 2
  MaxPacketAge = 2
  AdaptiveEnabled = TRUE
  AdaptiveStep = 1
  MaxOffered = 4
INVARIANTS
  ReleasedInOrderOnce
  LossAccounting
  Conservation
  SizeIsExact
PROPERTIES
  ImplementsOrderedDelivery
  PacketsLeave
