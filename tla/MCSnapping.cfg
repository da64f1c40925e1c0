\* What snapping makes of an order, in the sessions of MCRestCalls.cfg.
CONSTANTS
  Task = {c1, c2}
  Window <- TwoWindows
  Kind <- TwoKinds
  Duration <- TwoTicks
  Phase <- TwoPhases
  Version = {0, 1}
  Limit <- TwoRules
  Job <- HeavyOrder
  InfoWeight = 1
  MaxRetries = 1
  MaxBackoff = 0
  RetryAfter = 2
  MaxTime = 3
  MaxRows = 5
  MaxClock = 4
  FirstSizes = {4}
  Asks <- SomeAsks
  Status = {200, 400, 401, 403, 404, 418, 429, 500, 503, 520}
  Code <- SomeCodes
  Delay <- SomeDelays
  MaxAttempts = 3
  Orders <- LimitOrders
  Listings <- SomeListings
  Symbol <- TwoSymbols
SPECIFICATION Spec
SYMMETRY Interchangeable
CHECK_DEADLOCK FALSE
INVARIANTS
  SnappedIsNotMoreAggressive
