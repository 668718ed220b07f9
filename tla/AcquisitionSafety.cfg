\* The supported workflow alone: acquisitions, their crashes and interrupts,
\* and recoveries.  Two failures: one may hit the recovery of the other.
SPECIFICATION AcquisitionSpec
CONSTANTS
  Runs = {r1, r2}
  Procs = {p1, p2}
  NoProc = NoProc
  MaxFaults = 2
  MaxSequence = 7
  Targets = {}
  Commands = {"acquire", "recover", "inspect"}
CHECK_DEADLOCK FALSE
SYMMETRY Symmetry
INVARIANTS
  AcquisitionTypeOK
  LedgersVerify
  PublishedStaysTrue
PROPERTIES
  EvidenceImmutable
  IndexNeverRegresses
  ImplementsContract
