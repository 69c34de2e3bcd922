SPECIFICATION FairSpec
CONSTANTS
  Callers = {a}
  Producers = {p}
  PoolSize = 2
  WorkerCount = 1
  QueueCapacity = 1
  TransportCapacity = 1
  MaxRetryCount = 1
  MaxOffered = 2
  Nobody = Nobody
INVARIANTS
  TypeOK
  PacketsAccountedFor
  WorkerOrder
  StateMatchesWorkers
PROPERTIES
  StopReturns
  QueueDrains
