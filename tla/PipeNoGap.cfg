SPECIFICATION PipeSpec
CONSTANTS
  Symbols = {"AAPL"}
  Shards = {0}
  ShardOf <- Together
  QueueCapacity = 8
  OutCapacity = 8
  MayLose = FALSE
  MessageCount = 8
  MaxOrders = 3
  QuantityModulus = 1000
INVARIANT NoGapWithoutLoss
CHECK_DEADLOCK FALSE
