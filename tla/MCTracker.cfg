SPECIFICATION FairSpec
CONSTANTS
  o1 = o1
  o2 = o2
  GLOBAL = GLOBAL
  SITE = SITE
  Order <- OneOrder
  Type <- BothTypes
  TypeOf <- OneOnSite
  MaxSize = 3
  MaxTime = 1
  MaxDrops = 2
CHECK_DEADLOCK FALSE
INVARIANTS
  TypeOK
  TrueWhenQuiet
PROPERTIES
  NeverOlder
  Converges
