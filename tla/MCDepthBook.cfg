SPECIFICATION FairSpec
CONSTANTS
  Price <- TwoPrices
  MaxQty = 1
  Limit = 1
  MaxSize = 2
  MaxUpdates = 4
  MaxDrops = 2
  Lag = 1
CHECK_DEADLOCK FALSE
INVARIANTS
  TypeOK
  MirrorsExchange
  BestQuoteIsReal
  DrainedMeansCurrent
PROPERTIES
  CatchesUp
  KeepsPromise
