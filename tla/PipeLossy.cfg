SPECIFICATION PipeSpec
CONSTANTS
  Symbols = {"AAPL", "MSFT", "GOOG"}
  Shards = {0, 1}
  ShardOf <- Spread
  QueueCapacity = 2
  OutCapacity = 2
  MayLose = TRUE
  MessageCount = 4
  MaxOrders = 4
  QuantityModulus = 1000
INVARIANTS NoForeignOrder EveryMessageAccounted LiveShardComplete PublishedRebuildsBooks
CHECK_DEADLOCK FALSE
