\* Legacy create_snapshot beside recovery; nothing fails.
SPECIFICATION AcquisitionSpec
CONSTANTS
  Runs = {r1, r2}
  Procs = {p1, p2}
  NoProc = NoProc
  MaxFaults = 0
  MaxSequence = 7
  Targets = {}
  Commands = {"acquire", "recover", "create_snapshot"}
CHECK_DEADLOCK FALSE
INVARIANTS
  LedgersVerify
