SPECIFICATION Spec
CONSTANTS
  NULL = NULL
  PoolCapacity = 4
  MaxPriceTicks = 3
  U32 = 4
  FixedCapacity = 2
  Traders = {1}
  Limits <- SidedLimits
  Quantities = {1, 3}
  MaxOrders = 5
  MaxRejects = 1
INVARIANTS
  TypeOK
  LevelsAreFifo
  VolumeTracksLevel
  PoolAccountsForOrders
  OverrunNeedsDeepBook
PROPERTIES
  QuantityConserved
  SubmitReturns
  CallBounded
CHECK_DEADLOCK FALSE
