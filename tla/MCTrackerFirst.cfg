SPECIFICATION Spec
CONSTANTS
  o1 = o1
  o2 = o2
  GLOBAL = GLOBAL
  SITE = SITE
  Order <- OneOrder
  Type <- OneType
  TypeOf <- OneOnSite
  MaxSize = 3
  MaxTime = 1
  MaxDrops = 1
CHECK_DEADLOCK FALSE
INVARIANTS
  TrueFromTheStart
