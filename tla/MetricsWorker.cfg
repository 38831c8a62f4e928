SPECIFICATION Spec
CONSTANTS
  MetricsCapacity = 2
  BATCH_WINDOW = 1
  NUM_BUCKETS = 3
  Batches <- SomeBatches
  U32 = 3
  U64 = 16
  MaxSnapshots = 4
INVARIANTS
  TypeOK
  PercentileIsOrderStatistic
  ThroughputAddsUp
PROPERTY
  EverySnapshotLogged
