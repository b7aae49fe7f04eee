SPECIFICATION PoolSpec
CONSTANTS
  NumShards = 2
  Capacity = 2
  PriceSet = {1, 2}
  MaxRuns = 2
  PendingShards <- AnyShard
INVARIANTS
  OwnPoolOnly
CHECK_DEADLOCK FALSE
