SPECIFICATION Spec
CONSTANTS
  NULL = NULL
  PoolCapacity = 3
  MaxPriceTicks = 3
  U32 = 4
  FixedCapacity = 2
  Traders = {1, 2}
  Limits <- InnerLimits
  Quantities = {0, 1, 2}
  MaxOrders = 4
  MaxRejects = 1
INVARIANTS
  BookUncrossed
  BestBoundsHold
PROPERTIES
  PriceTimePriority
  TradesAreTwoSided
  ImplementsPriceTimeBook
CHECK_DEADLOCK FALSE
