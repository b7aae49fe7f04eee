SPECIFICATION BookSpec
CONSTANTS
  OrderIds = {1, 2, 3}
  PriceSet = {1, 2}
  Quantities = {0, 1, 3}
  QuantityModulus = 4
INVARIANTS IndexMatchesLevels TotalsMatchOrders TimePriority DeltasRebuildBook SnapshotBestFirst
PROPERTIES RejectedChangesNothing
