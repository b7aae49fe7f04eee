SPECIFICATION BookSpec
CONSTANTS
  OrderIds = {1, 2}
  PriceSet = {1}
  Quantities = {0, 1, 3}
  QuantityModulus = 4
INVARIANTS SubscriberSeesEveryLevel
