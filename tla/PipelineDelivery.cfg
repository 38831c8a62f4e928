SPECIFICATION ServeSpec
CONSTANTS
  RingSize = 2
  QueueCapacity = 1
  MetricsCapacity = 1
  BATCH_WINDOW = 2
  MaxFills = 2
  MaxPackets = 3
  MaxCrashes = 1
  MaxSignals = 0
INVARIANT TypeOK
PROPERTIES
  DeliveredInOrder
  NoReportSkipped
  NoPacketSkipped
  EveryPacketAnswered
