SPECIFICATION PipeSpec
CONSTANTS
  Symbols = {"AAPL", "MSFT"}
  Shards = {0}
  ShardOf <- Together
  QueueCapacity = 2
  OutCapacity = 1
  MayLose = FALSE
  MessageCount = 8
  MaxOrders = 2
  QuantityModulus = 1000
INVARIANTS RestingOrdersRouted BooksFollowExchange
CHECK_DEADLOCK FALSE
