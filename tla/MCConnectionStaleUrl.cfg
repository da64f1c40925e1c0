SPECIFICATION Spec
CONSTANTS
  s1 = s1
  s2 = s2
  x1 = x1
  x2 = x2
  Stream <- TwoStreams
  Sub <- TwoSubs
CHECK_DEADLOCK FALSE
INVARIANTS
  UrlEncodesDesired
