\* Acquisition, legacy create_snapshot and cancel side by side; nothing fails
\* and nothing is recovered.
SPECIFICATION AcquisitionSpec
CONSTANTS
  Runs = {r1, r2}
  Procs = {p1, p2}
  NoProc = NoProc
  MaxFaults = 0
  MaxSequence = 7
  Targets = {}
  Commands = {"acquire", "create_snapshot", "cancel"}
CHECK_DEADLOCK FALSE
SYMMETRY Symmetry
INVARIANTS
  LedgersVerify
PROPERTIES
  EvidenceImmutable
