SPECIFICATION Spec
CONSTANTS
  RingSize = 2
  QueueCapacity = 2
  MetricsCapacity = 1
  BATCH_WINDOW = 2
  MaxFills = 1
  MaxPackets = 3
  MaxCrashes = 0
  MaxSignals = 1
INVARIANT NoReportLost
