\* What must happen in the end: every component on a small instance, one part a behaviour.
SPECIFICATION Spec
CONSTANTS
  c1 = c1
  c2 = c2
  r1 = r1
CHECK_DEADLOCK FALSE
INVARIANTS
  ProgressTypeOK
  ParsesAreCollected
  LinksReachEverything
PROPERTIES
  WorkEnds
  CallsSettle
  PagesStayCurrent
