\* Every command, with a failure.
SPECIFICATION AcquisitionSpec
CONSTANTS
  Runs = {r1, r2}
  Procs = {p1, p2}
  NoProc = NoProc
  MaxFaults = 1
  MaxSequence = 7
  Targets = {}
  Commands = {"acquire", "recover", "cancel", "create_snapshot", "inspect"}
CHECK_DEADLOCK FALSE
SYMMETRY Symmetry
INVARIANTS
  IndexVerifies
