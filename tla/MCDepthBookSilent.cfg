SPECIFICATION Spec
CONSTANTS
  Price <- OnePrice
  MaxQty = 1
  Limit = 1
  MaxSize = 2
  MaxUpdates = 4
  MaxDrops = 1
  Lag = 0
CHECK_DEADLOCK FALSE
INVARIANTS
  NoSilentDivergence
