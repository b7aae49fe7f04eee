SPECIFICATION PoolSpec
CONSTANTS
  NumShards = 2
  Capacity = 2
  PriceSet = {1, 2}
  MaxRuns = 2
  PendingShards <- FirstPipelineShard0
INVARIANTS
  OwnPoolOnly
  BlocksAccounted
  OnePoolUser
  BadAllocMeansFull
CHECK_DEADLOCK FALSE
