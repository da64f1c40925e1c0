SPECIFICATION FairSpec
CONSTANTS
  i1 = i1
  i2 = i2
  Intent <- TwoIntents
  MaxCalls = 2
  MaxRetries = 2
CHECK_DEADLOCK FALSE
INVARIANTS
  TypeOK
  OneOrderPerId
  AnswersAreTrue
  PlacedOnce
PROPERTIES
  CallsReturn
  KeepsPromise
