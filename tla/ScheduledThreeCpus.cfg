SPECIFICATION SSpec
CONSTANTS
  RingSize = 2
  QueueCapacity = 2
  MetricsCapacity = 1
  BATCH_WINDOW = 2
  MaxFills = 2
  MaxPackets = 2
  MaxCrashes = 0
  MaxSignals = 1
  CPUs = 3
INVARIANT UnreadReportsIntact
PROPERTIES
  ShutdownCompletes
  WorkerNotStarved
