SPECIFICATION FairSpec
CONSTANTS
  GLOBAL = GLOBAL
  SITE = SITE
  c1 = c1
  c2 = c2
  p1 = p1
  p2 = p2
  Type <- BothTypes
  Caller <- TwoCallers
  Slot <- TwoPosts
  Mode <- Modes
CHECK_DEADLOCK FALSE
INVARIANTS
  TypeOK
  ConnectionsMadeOnce
  CallersApart
  KeysInUseAreKept
  ClosedIsQuiet
PROPERTIES
  EndsWithAWord
  AcloseCompletes
  ComesBack
