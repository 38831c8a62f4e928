SPECIFICATION SSpec
CONSTANTS
  RingSize = 1
  QueueCapacity = 2
  MetricsCapacity = 1
  BATCH_WINDOW = 1
  MaxFills = 1
  MaxPackets = 2
  MaxCrashes = 0
  MaxSignals = 1
  CPUs = 1
PROPERTIES
  WorkerNotStarved
