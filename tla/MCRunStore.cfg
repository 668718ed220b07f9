\* Two Runs written by two processes.  Four records per Run let a Run reach
\* created, scanning, Snapshot, closed; two failures let a Run be hit twice.
SPECIFICATION Spec
CONSTANTS
  Runs = {r1, r2}
  Procs = {p1, p2}
  MaxFaults = 2
  MaxSequence = 4
  Targets = {"scanning", "scanned", "cancelled"}
SYMMETRY Symmetry
CHECK_DEADLOCK FALSE
INVARIANTS
  TypeOK
  InFlight
  IndexVerifies
  IndexNeverAhead
  StrandedBound
PROPERTIES
  EvidenceImmutable
