\* The local stores: every component on small instances, one part a behaviour.
SPECIFICATION Spec
CONSTANTS
  p1 = p1
  p2 = p2
  r1 = r1
  home = home
  work = work
  Nobody = Nobody
CHECK_DEADLOCK FALSE
INVARIANTS
  StoresTypeOK
  
  SetupIsWhole
  HashesAreTrue
  ScansAreTrue
  VerdictsAreTrue
  ReviewsAreOfOnePlace
PROPERTIES
  RowsFollowEvidence
