SPECIFICATION Spec
CONSTANTS
  i1 = i1
  i2 = i2
  Intent <- OneIntent
  MaxCalls = 2
  MaxRetries = 1
CHECK_DEADLOCK FALSE
INVARIANTS
  ServerErrorIsReconciled
