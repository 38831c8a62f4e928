SPECIFICATION Spec
CONSTANTS
  NULL = NULL
  PoolCapacity = 3
  MaxPriceTicks = 3
  U32 = 4
  FixedCapacity = 2
  Traders = {1}
  Limits <- AllLimits
  Quantities = {1, 2}
  MaxOrders = 4
  MaxRejects = 1
PROPERTIES
  TradesAreTwoSided
CHECK_DEADLOCK FALSE
